----------------------------- MODULE OpenFiles -----------------------------
(***************************************************************************)
(* What FuzzyOS promises about open files: every process of a terminal has *)
(* a table of its own, empty when it starts and gone when it ends; opening *)
(* takes the lowest free number; reading continues where the last read of  *)
(* that descriptor ended, a file byte by byte, a directory name by name.   *)
(***************************************************************************)
EXTENDS Integers, Sequences

CONSTANTS MaxDepth,   \* bound of the model: deepest process of the terminal
          Fds,        \* the descriptors a program may open
          Names,      \* the names programs use
          Programs,   \* those of executable files
          TypeOf,     \* name -> "file", "dir", "rtc" or "none"
          Content,    \* name -> what reading it to the end gives
          Chunks      \* the lengths programs read

VARIABLES depth,   \* the process that executes
          table,   \* process -> descriptor -> [name, at], "" when not open
          result   \* what the last call gave its caller

Processes == 0 .. MaxDepth

Free == [name |-> "", at |-> 0]

NoneOpen == [fd \in Fds |-> Free]

Returns(value, data) == result' = [ret |-> value, data |-> data]

Init == /\ depth = 0
        /\ table = [p \in Processes |-> NoneOpen]
        /\ result = [ret |-> 0, data |-> <<>>]

Open(name) ==
  LET free == {fd \in Fds : table[depth][fd] = Free} IN
  /\ \/ /\ TypeOf[name] # "none" /\ free # {}
        /\ LET fd == CHOOSE f \in free : \A g \in free : f <= g IN
           /\ table' = [table EXCEPT ![depth][fd] = [name |-> name, at |-> 0]]
           /\ Returns(fd, <<>>)
     \/ /\ TypeOf[name] = "none" \/ free = {}
        /\ Returns(-1, <<>>)
        /\ UNCHANGED table
  /\ UNCHANGED depth

Close(fd) ==
  /\ table' = [table EXCEPT ![depth][fd] = Free]
  /\ Returns(IF table[depth][fd] = Free THEN -1 ELSE 0, <<>>)
  /\ UNCHANGED depth

(* How many units a read of n takes: bytes of a file, names of a directory.*)
Taken(open, n) ==
  LET left == Len(Content[open.name]) - open.at
      want == IF TypeOf[open.name] = "dir" THEN 1 ELSE n
  IN IF want < left THEN want ELSE left

Read(fd, n) ==
  LET open == table[depth][fd] IN
  /\ open # Free /\ TypeOf[open.name] # "rtc"
  /\ table' = [table EXCEPT ![depth][fd].at = @ + Taken(open, n)]
  /\ Returns(Taken(open, n),
             SubSeq(Content[open.name], open.at + 1, open.at + Taken(open, n)))
  /\ UNCHANGED depth

(* Calls that change no table: errors, writes, the devices.                *)
Other == /\ \E value \in {-1, 0} : Returns(value, <<>>)
         /\ UNCHANGED <<depth, table>>

Start(name) ==
  /\ depth < MaxDepth
  /\ depth' = depth + 1
  /\ table' = [table EXCEPT ![depth + 1] = NoneOpen]
  /\ Returns(0, Content[name])

End ==
  /\ depth > 0
  /\ depth' = depth - 1
  /\ table' = [table EXCEPT ![depth] = NoneOpen]
  /\ Returns(0, <<>>)

(* The shell at the bottom is started again when it ends.                  *)
Restart(name) ==
  /\ depth = 0
  /\ table' = [table EXCEPT ![0] = NoneOpen]
  /\ Returns(0, Content[name])
  /\ UNCHANGED depth

Next == \/ \E name \in Names : Open(name)
        \/ \E fd \in Fds : Close(fd) \/ \E n \in Chunks : Read(fd, n)
        \/ \E name \in Programs : Start(name) \/ Restart(name)
        \/ Other \/ End

Spec == Init /\ [][Next]_<<depth, table, result>>
=============================================================================
