SPECIFICATION Spec
CONSTANTS
  NumTerminals = 1
  MaxPid = 3
  MaxDepth = 4
  Commands = {"elf", "notelf", "missing"}
  ShellEnds = {"fault"}
  SplitCounters = TRUE
  TickInBoot = FALSE
  TickInLookup = TRUE
INVARIANT PidAccounting
 
