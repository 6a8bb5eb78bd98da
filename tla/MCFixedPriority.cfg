CONSTANTS
  Cpu <- SmallMachine
  UIntMod <- UInt16
SPECIFICATION Spec
INVARIANTS
  OwnPriority
  RecordsAgree
  GuestsInformed
PROPERTIES
  PreemptedOnlyByHigher
  ImplementsToken
