SPECIFICATION Spec
CONSTANTS
  NumTerminals = 2
  MaxPid = 3
  MaxDepth = 3
  Commands = {"elf", "notelf", "missing"}
  ShellEnds = {}
  SplitCounters = FALSE
  TickInBoot = FALSE
  TickInLookup = TRUE
INVARIANT TypeOK
INVARIANT ContextOwnership
 
 
INVARIANT BootOnce
INVARIANT ExceptionStatus
INVARIANT ParentResumable
INVARIANT ProgramImage
 
