SPECIFICATION Spec
CONSTANTS
  NumTerminals = 3
  MaxPid = 3
  MaxDepth = 2
  Commands = {"elf", "missing"}
  ShellEnds = {}
  SplitCounters = FALSE
  TickInBoot = FALSE
  TickInLookup = FALSE
INVARIANT AddressSpace
INVARIANT IInv
INVARIANT AddressInv
INVARIANT ImageInv
