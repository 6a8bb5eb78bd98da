SPECIFICATION FairSpec
CONSTANTS
  a1 = a1
  single = single
  rep = rep
  Alarm = {a1}
  Table = {single, rep}
  MaxAllowed = 2
  TickMod = 3
  Offsets <- MCOffsets
  Duration <- MCDuration
  Repeated = {rep}
  Cycles = {0, 2}
  Remote = {a1, single}
CONSTRAINT Covered
INVARIANTS
  
  OnTime
  

  
  
