SPECIFICATION FairSpec
CONSTANTS
  Cpu <- ThreeCells
  cell_id <- IdsInOrder
  tdma_num_slots = 3
  tdma_slot_period = 2
  MaxLatency = 1
INVARIANTS
  MutualExclusion
  MemoryPhaseInSlot
  RequestsInStep
PROPERTIES
  SlotComes
