SPECIFICATION FairSpec
CONSTANTS
  NumTerminals = 2
  MaxPid = 2
  MaxDepth = 2
  Commands = {"elf", "missing"}
  ShellEnds = {}
  SplitCounters = FALSE
  TickInBoot = FALSE
  TickInLookup = TRUE
PROPERTY SyscallReturns
PROPERTY EveryTerminalRuns
