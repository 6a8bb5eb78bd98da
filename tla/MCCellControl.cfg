SPECIFICATION Spec
CONSTANTS
  Cpu = {0, 1, 2}
  Cell = {"a", "b"}
  CpuSet <- OneCpuEach
  Passive = {"b"}
  Timed = {"a"}
  Command <- Commands
  Hotplug = {2}
  Mixed = FALSE
INVARIANTS
  
  ExecutesOwnCell
  CpusComeBack
