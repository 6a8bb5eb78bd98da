SPECIFICATION FairReleaseSpec
CONSTANTS
  Task <- TwoTasks
  period <- TwoPeriods
  MaxLate = 1
  MaxMissed = 2
  MaxAge = 2
INVARIANTS
  
  MissesAreReal
PROPERTIES
  ResponseTimesMeaningful
  
