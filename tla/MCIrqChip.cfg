SPECIFICATION Spec
CONSTANTS
  Remote = {c1}
  Target = c0
  SgiId = {i13, i14}
  HwId = {i27}
  MAX_PENDING_IRQS = 3
  gic_num_lr = 2
  MaxResets = 1
SYMMETRY Symmetry
INVARIANTS
  NotStranded
PROPERTIES
  RingIsQueue
