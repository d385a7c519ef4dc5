------------------------------- MODULE Lines -------------------------------
(***************************************************************************)
(* What a user may rely on at the keyboard of FuzzyOS: every terminal has  *)
(* one line that is being typed and at most one finished line that waits   *)
(* for the program that reads it.  Keys act on the terminal that is shown. *)
(* There is no shared buffer here, no flag and no position: Console is     *)
(* shown to implement this specification.                                  *)
(***************************************************************************)
EXTENDS Integers, Sequences

CONSTANTS
  Terminals,
  Limit       \* characters a line may have, its newline included

VARIABLES
  shown,      \* the terminal on the screen
  caps,       \* terminal -> its caps lock
  typing,     \* terminal -> the line that is being typed
  finished,   \* terminal -> the line that waits to be read, <<>> if none
  received    \* the terminal and the line that has just been handed over

vars == <<shown, caps, typing, finished, received>>

Init ==
  /\ shown \in Terminals
  /\ caps = [t \in Terminals |-> FALSE]
  /\ typing = [t \in Terminals |-> <<>>]
  /\ finished = [t \in Terminals |-> <<>>]
  /\ received = <<>>

Room == Len(typing[shown]) < Limit

(* A key appends to the line of the terminal that is shown.                *)
Type(c) ==
  /\ finished[shown] = <<>> /\ Room
  /\ typing' = [typing EXCEPT ![shown] = Append(@, c)]
  /\ received' = <<>>
  /\ UNCHANGED <<shown, caps, finished>>

Enter ==
  /\ finished[shown] = <<>> /\ Room
  /\ finished' = [finished EXCEPT ![shown] = Append(typing[shown], "\n")]
  /\ typing' = [typing EXCEPT ![shown] = <<>>]
  /\ received' = <<>>
  /\ UNCHANGED <<shown, caps>>

Erase ==
  /\ typing[shown] # <<>>
  /\ typing' = [typing EXCEPT ![shown] = SubSeq(@, 1, Len(@) - 1)]
  /\ received' = <<>>
  /\ UNCHANGED <<shown, caps, finished>>

Kill ==
  /\ typing' = [typing EXCEPT ![shown] = <<>>]
  /\ received' = <<>>
  /\ UNCHANGED <<shown, caps, finished>>

CapsLock ==
  /\ caps' = [caps EXCEPT ![shown] = ~@]
  /\ received' = <<>>
  /\ UNCHANGED <<shown, typing, finished>>

Show(t) ==
  /\ shown' = t
  /\ received' = <<>>
  /\ UNCHANGED <<caps, typing, finished>>

(* A read takes the finished line of its own terminal, or as much of it as *)
(* it has asked for; the rest is dropped.                                  *)
Take(t, n) ==
  /\ finished[t] # <<>>
  /\ received' = <<t>> \o SubSeq(finished[t], 1, IF n < Len(finished[t]) THEN n ELSE Len(finished[t]))
  /\ finished' = [finished EXCEPT ![t] = <<>>]
  /\ UNCHANGED <<shown, caps, typing>>

(* Time passes.                                                            *)
Forget == received' = <<>> /\ UNCHANGED <<shown, caps, typing, finished>>

Next ==
  \/ Type("c") \/ Enter \/ Erase \/ Kill \/ CapsLock \/ Forget
  \/ \E t \in Terminals : Show(t) \/ \E n \in 1 .. Limit : Take(t, n)

Spec == Init /\ [][Next]_vars
=============================================================================
