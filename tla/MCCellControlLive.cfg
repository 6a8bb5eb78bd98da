SPECIFICATION FairSpec
CONSTANTS
  Cpu = {0, 1, 2}
  Cell = {"a"}
  CpuSet <- OneCpuEach
  Passive = {}
  Timed = {"a"}
  Command <- Commands
  Hotplug = {}
  Mixed = FALSE
PROPERTIES
  CommandsFinish
  StartedRuns
