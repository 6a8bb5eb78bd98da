SPECIFICATION Spec
CONSTANTS
  SizeOf <- Regions
  Access <- Accesses
  Max = 3
  TOP = 1000
  Reader = {c1}
INVARIANTS
  TableIsSorted
  LookupIsExact
