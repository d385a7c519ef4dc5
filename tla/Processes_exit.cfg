SPECIFICATION Spec
CONSTANTS
  NumTerminals = 2
  MaxPid = 2
  MaxDepth = 3
  Commands = {"elf", "missing"}
  ShellEnds = {"halt"}
  SplitCounters = FALSE
  TickInBoot = FALSE
  TickInLookup = TRUE
INVARIANT BootOnce
