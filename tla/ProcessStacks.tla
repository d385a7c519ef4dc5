--------------------------- MODULE ProcessStacks ---------------------------
(***************************************************************************)
(* What FuzzyOS promises about its processes, without counters, contexts,  *)
(* pages or interrupts: every terminal has a stack of processes, the CPU   *)
(* is given to the terminals in turn, only the terminal that has it        *)
(* changes its own stack, by one process at its top, the shell at the      *)
(* bottom never goes away, and there are never more than Limit processes.  *)
(***************************************************************************)
EXTENDS Integers, FiniteSets

CONSTANTS NumTerminals, MaxDepth, Limit

VARIABLES depth,   \* terminal -> depth of its top process, -1 before its shell
          turn     \* the terminal that has the CPU

Terminals == 0 .. NumTerminals - 1

Live == {p \in Terminals \X (0 .. MaxDepth) : p[2] <= depth[p[1]]}

Booted == \A t \in Terminals : depth[t] >= 0

Init == /\ depth = [t \in Terminals |-> -1]
        /\ turn = 0

(* The shells are started one after another, the last terminal first.      *)
TurnToBoot ==
  \E t \in Terminals :
    /\ \A u \in Terminals : depth[u] = -1 <=> u <= t
    /\ turn' = t
    /\ UNCHANGED depth

StartShell ==
  /\ depth[turn] = -1
  /\ Cardinality(Live) < Limit
  /\ depth' = [depth EXCEPT ![turn] = 0]
  /\ UNCHANGED turn

Spawn ==
  /\ Booted
  /\ Cardinality(Live) < Limit
  /\ depth' = [depth EXCEPT ![turn] = @ + 1]
  /\ UNCHANGED turn

Finish ==
  /\ Booted
  /\ depth[turn] > 0
  /\ depth' = [depth EXCEPT ![turn] = @ - 1]
  /\ UNCHANGED turn

NextTurn ==
  /\ Booted
  /\ turn' = (turn + 1) % NumTerminals
  /\ UNCHANGED depth

Next == TurnToBoot \/ StartShell \/ Spawn \/ Finish \/ NextTurn

Spec == Init /\ [][Next]_<<depth, turn>>
=============================================================================
