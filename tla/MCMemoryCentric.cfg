SPECIFICATION FairSpec
CONSTANTS
  Cpu <- FourCores
  UIntMod <- UInt16
  LowestFirst = FALSE
INVARIANTS
  MemoryIsArbitrated
  ViewsAgree
PROPERTIES
  ClientsBehave
  WaitingIsServed
