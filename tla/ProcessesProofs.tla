--------------------------- MODULE ProcessesProofs ---------------------------
(***************************************************************************)
(* The proofs about Processes: the invariant IInv of ProcessesInv is       *)
(* inductive, and the properties follow, for every number of terminals,    *)
(* every MAX_PID and every depth.  NoRaces names the races the theorems    *)
(* assume away.                                                            *)
(***************************************************************************)
EXTENDS ProcessesInv, FiniteSetTheorems, TLAPS

(* What the assumptions on the constants say, in the form the proofs use.  *)
LEMMA ConstantTypes ==
  /\ NumTerminals \in Nat /\ NumTerminals >= 1
  /\ MaxPid \in Nat /\ MaxPid >= NumTerminals - 1
  /\ MaxDepth \in Nat
  /\ Commands \subseteq CommandKinds
  /\ 0 \in Terminals
BY NumTerminalsAssumption, MaxPidAssumption, MaxDepthAssumption,
   CommandsAssumption DEF Terminals

(* Every process has a frame within the region and a kernel stack.         *)
LEMMA FrameRange ==
  ASSUME NEW t \in Terminals, NEW k \in Depths
  PROVE  /\ Frame(t, k) \in Frames
         /\ KernelStack(t, k) \in Int
<1>1. k * NumTerminals <= MaxDepth * NumTerminals
  <2>1. /\ k \in Nat /\ k <= MaxDepth
        /\ NumTerminals \in Nat /\ MaxDepth \in Nat
    BY ConstantTypes DEF Depths
  <2>2. PICK d \in Nat : MaxDepth = k + d
    <3>1. MaxDepth - k \in Nat /\ MaxDepth = k + (MaxDepth - k)
      BY <2>1
    <3> QED BY <3>1
  <2>3. MaxDepth * NumTerminals = k * NumTerminals + d * NumTerminals
    BY <2>1, <2>2
  <2>4. d * NumTerminals \in Nat /\ k * NumTerminals \in Nat
    BY <2>1, <2>2
  <2> QED BY <2>3, <2>4
<1>2. k * NumTerminals \in Nat /\ MaxDepth * NumTerminals \in Nat
  BY ConstantTypes DEF Depths
<1>3. NumTerminals * (MaxDepth + 1) = MaxDepth * NumTerminals + NumTerminals
  BY ConstantTypes
<1> QED BY <1>1, <1>2, <1>3, ConstantTypes DEF Frame, KernelStack, Frames, Terminals

(* One step of depth moves a frame by at least one full stride of the      *)
(* terminals.                                                              *)
LEMMA StrideGap ==
  ASSUME NEW j \in Nat, NEW k \in Nat, j < k
  PROVE  k * NumTerminals >= j * NumTerminals + NumTerminals
<1>1. NumTerminals \in Nat
  BY ConstantTypes
<1>2. PICK d \in Nat : k = j + 1 + d
  <2>1. k - j - 1 \in Nat /\ k = j + 1 + (k - j - 1)
    OBVIOUS
  <2> QED BY <2>1
<1>3. k * NumTerminals = j * NumTerminals + NumTerminals + d * NumTerminals
  BY <1>1, <1>2
<1>4. d * NumTerminals \in Nat /\ j * NumTerminals \in Nat
  BY <1>1, <1>2
<1> QED BY <1>1, <1>3, <1>4

(* No two processes of any terminals share a physical frame: the address   *)
(* that execute, halt and the scheduler compute for a process is its own.  *)
THEOREM FrameInjective ==
  ASSUME NEW t \in Terminals, NEW u \in Terminals,
         NEW j \in Nat, NEW k \in Nat, Frame(t, j) = Frame(u, k)
  PROVE  t = u /\ j = k
<1>1. /\ NumTerminals \in Nat /\ NumTerminals >= 1
      /\ j * NumTerminals \in Nat /\ k * NumTerminals \in Nat
  BY ConstantTypes
<1>2. t + j * NumTerminals = u + k * NumTerminals
  BY DEF Frame
<1>3. /\ t \in Int /\ u \in Int /\ 0 <= t /\ t <= NumTerminals - 1
      /\ 0 <= u /\ u <= NumTerminals - 1
  BY <1>1 DEF Terminals
<1>4. CASE j = k
  BY <1>1, <1>2, <1>3, <1>4
<1>5. CASE j < k
  <2>1. k * NumTerminals >= j * NumTerminals + NumTerminals
    BY <1>5, StrideGap
  <2> QED BY <1>1, <1>2, <1>3, <2>1
<1>6. CASE k < j
  <2>1. j * NumTerminals >= k * NumTerminals + NumTerminals
    BY <1>6, StrideGap
  <2> QED BY <1>1, <1>2, <1>3, <2>1
<1> QED BY <1>4, <1>5, <1>6

(* The processes can be counted.                                           *)
LEMMA ProcessesFinite == IsFiniteSet(Processes)
<1>1. IsFiniteSet(Terminals) /\ IsFiniteSet(Depths)
  BY FS_Interval, ConstantTypes DEF Terminals, Depths
<1> QED BY <1>1, FS_Product DEF Processes

(* A set of processes with every shell in it has as many members as there  *)
(* are terminals, or more.                                                 *)
LEMMA ShellsCounted ==
  ASSUME NEW S \in SUBSET Processes,
         \A t \in Terminals : <<t, 0>> \in S
  PROVE  Cardinality(S) >= NumTerminals
<1> DEFINE Shells == Terminals \X {0}
<1>1. IsFiniteSet(S)
  BY ProcessesFinite, FS_Subset
<1>2. Shells \subseteq S
  OBVIOUS
<1>3. IsFiniteSet(Terminals) /\ Cardinality(Terminals) = NumTerminals
  BY FS_Interval, ConstantTypes DEF Terminals
<1>4. IsFiniteSet({0}) /\ Cardinality({0}) = 1
  BY FS_Singleton
<1>5. Cardinality(Shells) = NumTerminals * 1
  BY <1>3, <1>4, FS_Product
<1>6. Cardinality(Shells) <= Cardinality(S)
  BY <1>1, <1>2, FS_Subset
<1> QED BY <1>5, <1>6, ConstantTypes

(* The context that execute and halt leave is well formed.                 *)
LEMMA UserContextType ==
  ASSUME NEW t \in Terminals, NEW k \in -1 .. MaxDepth
  PROVE  UserContext(t, k) \in Context
BY DEF UserContext, Context, PCs, Callers

(* The invariant holds at power-on.                                        *)
LEMMA InitInvariant == ASSUME NoRaces, Init PROVE IInv
<1>1. TypeOK
  <2>1. <<0, -1>> \in Terminals \X (-1 .. MaxDepth) /\ -1 \in -1 .. MaxDepth
    BY ConstantTypes
  <2>2. UserContext(0, -1) \in Context
    BY <2>1, ConstantTypes, UserContextType
  <2>3. IdleContext \in Context
    BY <2>2 DEF IdleContext, Context, PCs
  <2>4. /\ terminal_process_num \in [Terminals -> -1 .. MaxDepth]
        /\ image \in [Frames -> Terminals \X (-1 .. MaxDepth)]
        /\ pcb \in [Processes -> Callers \cup {"none"}]
        /\ terminal_esp \in [Terminals -> Context]
    BY <2>1, <2>3 DEF Init
  <2>5. pid \in Int /\ esp0 \in Int /\ user_page \in {NotPresent}
    BY DEF Init
  <2>6. exception_flag \in BOOLEAN /\ cpu \in Context /\ cur_execute_terminal \in Terminals
    BY <2>3, ConstantTypes DEF Init
  <2> QED BY <2>4, <2>5, <2>6 DEF TypeOK
<1>2. \A t \in Terminals : ContextOf(t) = IdleContext
  BY DEF Init, ContextOf
<1>3. ContextsOK
  BY <1>2 DEF ContextsOK, ContextOK, Init, Rise, RaisedPCs, SunkPCs, ExecPCs,
              EndingPCs, FailPCs, IdleContext, UserContext
<1>4. Phases
  BY <1>2, ConstantTypes
     DEF Phases, BetweenBoots, Init, IdleContext, UserContext, Terminals
<1>5. PidAccounting
  <2>1. Slots = {}
    BY <1>2 DEF Slots, PidLead, Init, IdleContext, UserContext, Processes, Depths
  <2> QED BY <2>1, FS_EmptySet DEF PidAccounting, Init
<1> QED BY <1>1, <1>3, <1>4, <1>5 DEF IInv

(* A step that changes no other context, keeps the turn and keeps its own  *)
(* context consistent keeps every context consistent.                      *)
LEMMA OwnStep ==
  ASSUME ContextsOK, terminal_esp' = terminal_esp, cpu'.t = cpu.t,
         cpu.t \in Terminals,
         cur_execute_terminal' = cpu.t, cpu'.pc # "boot",
         \A t \in Terminals \ {cpu.t} :
            terminal_process_num'[t] = terminal_process_num[t],
         ContextOK(cpu, cpu.t)'
  PROVE  ContextsOK'
<1>1. ASSUME NEW t \in Terminals, t # cpu.t
      PROVE  ContextOK(ContextOf(t), t)'
  <2>1. ContextOf(t)' = terminal_esp[t] /\ ContextOf(t) = terminal_esp[t]
    BY <1>1 DEF ContextOf
  <2>2. ContextOK(ContextOf(t), t)
    BY DEF ContextsOK
  <2> QED BY <1>1, <2>1, <2>2 DEF ContextOK
<1>2. ContextOf(cpu.t)' = cpu'
  BY DEF ContextOf
<1> QED BY <1>1, <1>2 DEF ContextsOK

(* Every step of execute and halt keeps the types: no counter leaves its   *)
(* range.                                                                  *)
LEMMA KernelStepType == ASSUME NoRaces, IInv, KernelStep PROVE TypeOK'
<1>a. ContextOK(cpu, cpu.t)
  BY DEF IInv, ContextsOK, ContextOf, TypeOK, Context
<1>b. cpu.pc # "boot" => cpu.t = cur_execute_terminal
  BY DEF IInv, ContextsOK
<1>c. cpu.pc # "boot" => Top = cpu.k + Rise(cpu)
  BY <1>a, <1>b DEF ContextOK, Top
<1>d. cpu.t \in Terminals /\ cpu.k \in -1 .. MaxDepth /\ MaxDepth \in Nat
  BY ConstantTypes DEF IInv, TypeOK, Context
<1>e. /\ cpu.k < MaxDepth => cpu.k + 1 \in Depths
      /\ cpu.k > 0 => cpu.k - 1 \in Depths
  BY <1>d DEF Depths
<1>f. Depths \subseteq -1 .. MaxDepth
  BY <1>d DEF Depths
<1> USE DEF NoRaces, IInv, TypeOK, Context, PCs
<1>1. CASE BootTerminal
  BY <1>1 DEF BootTerminal, Goto
<1>2. CASE IncPid
  BY <1>2 DEF IncPid, UpdatePid
<1>3. CASE CheckPid
  BY <1>3 DEF CheckPid, Goto
<1>4. CASE Reject
  <2>1. cpu' \in Context
    BY <1>4, <1>d, UserContextType DEF Reject, UpdatePid
  <2> QED BY <1>4, <2>1 DEF Reject, UpdatePid
<1>5. CASE Grow
  <2>1. Top + 1 \in Depths
    BY <1>5, <1>a, <1>c, <1>d, <1>e DEF Grow, UpdateProcessNum, ContextOK, Rise,
       RaisedPCs, SunkPCs, ExecPCs
  <2> QED BY <1>5, <1>f, <2>1 DEF Grow, UpdateProcessNum, Top
<1>6. CASE Lookup
  <2>1. ReadCommand \subseteq CommandKinds \cup {"none"}
    BY DEF ReadCommand
  <2>2. PICK cmd \in CommandKinds \cup {"none"} :
          \/ cpu' = [cpu EXCEPT !.cmd = cmd, !.pc = "map"]
          \/ cpu' = [cpu EXCEPT !.cmd = cmd, !.pc = "fail"]
    BY <1>6, <2>1 DEF Lookup
  <2>3. cpu \in Context /\ {"map", "fail"} \subseteq PCs
    OBVIOUS
  <2>4. CASE cpu' = [cpu EXCEPT !.cmd = cmd, !.pc = "map"]
    BY <1>6, <2>3, <2>4 DEF Lookup
  <2>5. CASE cpu' = [cpu EXCEPT !.cmd = cmd, !.pc = "fail"]
    BY <1>6, <2>3, <2>5 DEF Lookup
  <2> QED BY <2>2, <2>4, <2>5
<1>7. CASE FailPid
  BY <1>7 DEF FailPid, UpdatePid
<1>8. CASE FailShrink
  <2>1. Top - 1 \in -1 .. MaxDepth
    BY <1>8, <1>c, <1>d DEF FailShrink, UpdateProcessNum, Rise, RaisedPCs
  <2>2. cpu' \in Context
    BY <1>8, <1>d, UserContextType DEF FailShrink, UpdateProcessNum
  <2> QED BY <1>8, <2>1, <2>2 DEF FailShrink, UpdateProcessNum, Top
<1>9. CASE MapProgram
  <2>1. Top \in Depths
    BY <1>9, <1>a, <1>c, <1>d, <1>e DEF MapProgram, MapUser, ContextOK, Rise,
       RaisedPCs, ExecPCs
  <2>2. Frame(cur_execute_terminal, Top) \in Frames
    BY <2>1, FrameRange
  <2> QED BY <1>9, <2>2 DEF MapProgram, MapUser, Goto
<1>10. CASE LoadProgram
  BY <1>10 DEF LoadProgram, Top, Goto
<1>11. CASE Enter
  <2>1. Top \in Depths
    BY <1>11, <1>a, <1>c, <1>d, <1>e DEF Enter, ContextOK, Rise, RaisedPCs, ExecPCs
  <2>2. KernelStack(cur_execute_terminal, Top) \in Int
    BY <2>1, FrameRange
  <2>3. cpu' \in Context
    BY <1>11, <1>f, <2>1, UserContextType DEF Enter
  <2>4. pcb' \in [Processes -> Callers \cup {"none"}]
    BY <1>11 DEF Enter
  <2> QED BY <1>11, <2>2, <2>3, <2>4 DEF Enter
<1>12. CASE HaltShell
  BY <1>12 DEF HaltShell, Top, Goto
<1>13. CASE HaltProgram
  <2>1. Top \in Int
    BY <1>d DEF Top
  <2>2. (IF exception_flag THEN "exception" ELSE "own") \in {"exception", "own"}
    OBVIOUS
  <2>3. cpu' \in Context
    BY <1>13, <2>1, <2>2 DEF HaltProgram
  <2> QED BY <1>13, <2>3 DEF HaltProgram
<1>14. CASE HaltPid
  BY <1>14 DEF HaltPid, UpdatePid
<1>15. CASE HaltShrink
  <2>1. Top - 1 \in Depths
    BY <1>15, <1>a, <1>c, <1>d, <1>e DEF HaltShrink, UpdateProcessNum, ContextOK,
       Rise, RaisedPCs, SunkPCs, EndingPCs
  <2> QED BY <1>15, <1>f, <2>1 DEF HaltShrink, UpdateProcessNum, Top
<1>16. CASE RemovePage
  BY <1>16 DEF RemovePage, MapUser, Goto
<1>17. CASE RemapParent
  <2>1. Top \in Depths
    BY <1>17, <1>a, <1>c, <1>d, <1>e DEF RemapParent, MapUser, ContextOK, Rise,
       RaisedPCs, SunkPCs, EndingPCs
  <2>2. Frame(cur_execute_terminal, Top) \in Frames
    BY <2>1, FrameRange
  <2> QED BY <1>17, <2>2 DEF RemapParent, MapUser, Goto
<1>18. CASE ResumeParent
  <2>1. Top \in Depths /\ cpu.idx - 1 \in Depths
    BY <1>18, <1>a, <1>c, <1>d, <1>e DEF ResumeParent, ContextOK, Rise,
       RaisedPCs, SunkPCs, EndingPCs
  <2>2. KernelStack(cur_execute_terminal, Top) \in Int
    BY <2>1, FrameRange
  <2>3. cpu' \in Context
    BY <1>18, <1>f, <2>1, UserContextType DEF ResumeParent
  <2>4. pcb' \in [Processes -> Callers \cup {"none"}]
    BY <1>18 DEF ResumeParent
  <2> QED BY <1>18, <2>2, <2>3, <2>4 DEF ResumeParent
<1>19. CASE RestartPid
  BY <1>19 DEF RestartPid, UpdatePid
<1>20. CASE RestartShrink
  BY <1>20, <1>a DEF RestartShrink, UpdateProcessNum, ContextOK, ExecPCs, EndingPCs
<1> QED BY <1>1, <1>2, <1>3, <1>4, <1>5, <1>6, <1>7, <1>8, <1>9, <1>10, <1>11, <1>12, <1>13, <1>14, <1>15, <1>16, <1>17, <1>18, <1>19, <1>20 DEF KernelStep, Execute, Halt

(* The shells started at boot are within the limit.                        *)
LEMMA BootAdmitted ==
  ASSUME IInv, cpu.by = "boot", cpu.pc = "check"
  PROVE  Admissible
<1>1. pid = NumTerminals - 1 - cpu.t
  <2>1. pid = NumTerminals - 2 - cpu.t + 1
    BY DEF IInv, Phases, InBoot
  <2> QED BY <2>1, ConstantTypes DEF IInv, TypeOK, Context, Terminals
<1> QED BY <1>1, ConstantTypes DEF Admissible, IInv, TypeOK, Context, Terminals

(* A kernel step stays in its context and keeps that context consistent.   *)
LEMMA KernelStepOwn ==
  ASSUME NoRaces, IInv, KernelStep
  PROVE  /\ terminal_esp' = terminal_esp
         /\ cpu'.t = cpu.t /\ cpu'.pc # "boot" /\ cur_execute_terminal' = cpu.t
         /\ \A t \in Terminals \ {cpu.t} :
              terminal_process_num'[t] = terminal_process_num[t]
         /\ ContextOK(cpu, cpu.t)'
<1>a. ContextOK(cpu, cpu.t)
  BY DEF IInv, ContextsOK, ContextOf, TypeOK, Context
<1>b. cpu.pc # "boot" => cpu.t = cur_execute_terminal
  BY DEF IInv, ContextsOK
<1>c. cpu \in Context /\ terminal_process_num \in [Terminals -> -1 .. MaxDepth] /\ MaxDepth \in Nat
  BY ConstantTypes DEF IInv, TypeOK
<1>d. cpu.by = "boot" => cpu.cmd = "elf"
  BY DEF IInv, Phases, InBoot
<1> USE DEF NoRaces, Context, ContextOK, Rise, RaisedPCs, SunkPCs, ExecPCs, EndingPCs, FailPCs
<1>1. CASE BootTerminal
  BY <1>1, <1>a, <1>b, <1>c DEF BootTerminal, Goto
<1>2. CASE IncPid
  BY <1>2, <1>a, <1>b, <1>c DEF IncPid, UpdatePid
<1>3. CASE CheckPid
  <2>1. \/ cpu' = [cpu EXCEPT !.pc = "grow"]
        \/ cpu' = [cpu EXCEPT !.pc = "reject"]
    BY <1>3 DEF CheckPid, Goto
  <2>2. cpu.by = "boot" => cpu' = [cpu EXCEPT !.pc = "grow"]
    BY <1>3, BootAdmitted DEF CheckPid, Goto
  <2> QED BY <1>3, <1>a, <1>b, <1>c, <2>1, <2>2 DEF CheckPid, Callers
<1>4. CASE Reject
  BY <1>4, <1>a, <1>b, <1>c DEF Reject, UpdatePid, UserContext, Callers
<1>5. CASE Grow
  BY <1>5, <1>a, <1>b, <1>c DEF Grow, UpdateProcessNum
<1>6. CASE Lookup
  <2>1. PICK cmd \in ReadCommand :
          cpu' = [cpu EXCEPT !.cmd = cmd, !.pc = IF cmd = "elf" THEN "map" ELSE "fail"]
    BY <1>6 DEF Lookup
  <2>2. \/ cpu' = [cpu EXCEPT !.cmd = cmd, !.pc = "map"]
        \/ cpu' = [cpu EXCEPT !.cmd = cmd, !.pc = "fail"]
    BY <2>1
  <2>3. cpu.by = "boot" => cpu' = [cpu EXCEPT !.cmd = cmd, !.pc = "map"]
    BY <1>d, <2>1 DEF ReadCommand
  <2> QED BY <1>6, <1>a, <1>b, <1>c, <2>2, <2>3 DEF Lookup, Callers
<1>7. CASE FailPid
  BY <1>7, <1>a, <1>b, <1>c DEF FailPid, UpdatePid
<1>8. CASE FailShrink
  BY <1>8, <1>a, <1>b, <1>c DEF FailShrink, UpdateProcessNum, UserContext, Callers
<1>9. CASE MapProgram
  BY <1>9, <1>a, <1>b, <1>c DEF MapProgram, MapUser, Goto, Top
<1>10. CASE LoadProgram
  BY <1>10, <1>a, <1>b, <1>c DEF LoadProgram, Top, Goto
<1>11. CASE Enter
  BY <1>11, <1>a, <1>b, <1>c DEF Enter, UserContext, Top, Callers
<1>12. CASE HaltShell
  BY <1>12, <1>a, <1>b, <1>c DEF HaltShell, Top, Goto
<1>13. CASE HaltProgram
  BY <1>13, <1>a, <1>b, <1>c DEF HaltProgram, Top
<1>14. CASE HaltPid
  BY <1>14, <1>a, <1>b, <1>c DEF HaltPid, UpdatePid
<1>15. CASE HaltShrink
  BY <1>15, <1>a, <1>b, <1>c DEF HaltShrink, UpdateProcessNum
<1>16. CASE RemovePage
  BY <1>16, <1>a, <1>b, <1>c DEF RemovePage, MapUser, Goto
<1>17. CASE RemapParent
  BY <1>17, <1>a, <1>b, <1>c DEF RemapParent, MapUser, Top, Goto
<1>18. CASE ResumeParent
  BY <1>18, <1>a, <1>b, <1>c DEF ResumeParent, Top, UserContext, Callers
<1>19. CASE RestartPid
  BY <1>19, <1>a, <1>b, <1>c DEF RestartPid, UpdatePid
<1>20. CASE RestartShrink
  BY <1>20, <1>a, <1>b, <1>c DEF RestartShrink, UpdateProcessNum
<1> QED BY <1>1, <1>2, <1>3, <1>4, <1>5, <1>6, <1>7, <1>8, <1>9, <1>10, <1>11, <1>12, <1>13, <1>14, <1>15, <1>16, <1>17, <1>18, <1>19, <1>20 DEF KernelStep, Execute, Halt

(* Every step of execute and halt keeps every context consistent.          *)
LEMMA KernelStepContexts == ASSUME NoRaces, IInv, KernelStep PROVE ContextsOK'
BY OwnStep, KernelStepOwn DEF IInv, TypeOK, Context

-----------------------------------------------------------------------------
(* pid and the slots.  Level(t) is the highest slot of terminal t.         *)

Level(t) == terminal_process_num[t] + PidLead(ContextOf(t))

(* The slots are the processes up to the level of their terminal.          *)
LEMMA SlotsByLevel == Slots = {p \in Processes : p[2] <= Level(p[1])}
BY DEF Slots, Level

(* If no level changes, no slot does.                                      *)
LEMMA SlotsKept ==
  ASSUME PidAccounting, pid' = pid, \A t \in Terminals : Level(t)' = Level(t)
  PROVE  PidAccounting'
<1>1. Slots' = Slots
  BY DEF Slots, Level, Processes
<1> QED BY <1>1 DEF PidAccounting

(* If the level of one terminal rises by one, there is one slot more.      *)
LEMMA SlotAdded ==
  ASSUME PidAccounting, pid \in Int, pid' = pid + 1,
         NEW u \in Terminals, Level(u) \in Int, Level(u) + 1 \in Depths,
         Level(u)' = Level(u) + 1,
         \A t \in Terminals \ {u} : Level(t)' = Level(t)
  PROVE  PidAccounting'
<1> DEFINE new == <<u, Level(u) + 1>>
<1>1. Slots' = Slots \cup {new}
  <2>1. ASSUME NEW p \in Processes
        PROVE  p[2] <= Level(p[1])' <=> p[2] <= Level(p[1]) \/ p = new
    <3>1. PICK t \in Terminals, k \in Depths : p = <<t, k>>
      BY DEF Processes
    <3>2. CASE t = u
      BY <3>1, <3>2 DEF Depths
    <3>3. CASE t # u
      BY <3>1, <3>3
    <3> QED BY <3>2, <3>3
  <2>2. new \in Processes
    BY DEF Processes
  <2> QED BY <2>1, <2>2 DEF Slots, Level
<1>2. new \notin Slots
  BY DEF Slots, Level
<1>3. IsFiniteSet(Slots)
  BY ProcessesFinite, FS_Subset DEF Slots
<1>4. Cardinality(Slots') = Cardinality(Slots) + 1
  BY <1>1, <1>2, <1>3, FS_AddElement
<1> QED BY <1>4 DEF PidAccounting

(* If the level of one terminal falls by one, there is one slot less.      *)
LEMMA SlotRemoved ==
  ASSUME PidAccounting, pid \in Int, pid' = pid - 1,
         NEW u \in Terminals, Level(u) \in Depths,
         Level(u)' = Level(u) - 1,
         \A t \in Terminals \ {u} : Level(t)' = Level(t)
  PROVE  PidAccounting'
<1> DEFINE old == <<u, Level(u)>>
<1>1. Slots' = Slots \ {old}
  <2>1. ASSUME NEW p \in Processes
        PROVE  p[2] <= Level(p[1])' <=> p[2] <= Level(p[1]) /\ p # old
    <3>1. PICK t \in Terminals, k \in Depths : p = <<t, k>>
      BY DEF Processes
    <3>2. CASE t = u
      BY <3>1, <3>2 DEF Depths
    <3>3. CASE t # u
      BY <3>1, <3>3
    <3> QED BY <3>2, <3>3
  <2> QED BY <2>1 DEF Slots, Level
<1>2. old \in Slots
  BY DEF Slots, Level, Processes, Depths
<1>3. IsFiniteSet(Slots)
  BY ProcessesFinite, FS_Subset DEF Slots
<1>4. Cardinality(Slots') = Cardinality(Slots) - 1
  BY <1>1, <1>2, <1>3, FS_RemoveElement
<1>5. Cardinality(Slots) \in Nat
  BY <1>3, FS_CardinalityType
<1> QED BY <1>4, <1>5 DEF PidAccounting

(* Every step of execute and halt changes pid by what it changes the       *)
(* slots.                                                                  *)
LEMMA KernelStepAccounting ==
  ASSUME NoRaces, IInv, KernelStep
  PROVE  PidAccounting'
<1>a. ContextOK(cpu, cpu.t)
  BY DEF IInv, ContextsOK, ContextOf, TypeOK, Context
<1>b. cpu.pc # "boot" => cpu.t = cur_execute_terminal
  BY DEF IInv, ContextsOK
<1>c. /\ cpu.t \in Terminals /\ cpu.k \in -1 .. MaxDepth /\ MaxDepth \in Nat
      /\ terminal_process_num \in [Terminals -> -1 .. MaxDepth]
      /\ PidAccounting /\ pid \in Int
  BY ConstantTypes DEF IInv, TypeOK, Context
<1>u. PICK u \in Terminals : u = cpu.t
  BY <1>c
<1>d. /\ cpu'.t = cpu.t /\ terminal_esp' = terminal_esp
      /\ \A t \in Terminals \ {u} : terminal_process_num'[t] = terminal_process_num[t]
  BY <1>u, KernelStepOwn
<1>e. \A t \in Terminals \ {u} : Level(t)' = Level(t)
  BY <1>u, <1>d DEF Level, ContextOf
<1>f. /\ Level(u) = terminal_process_num[u] + PidLead(cpu)
      /\ Level(u)' = terminal_process_num'[u] + PidLead(cpu')
  BY <1>u, <1>d DEF Level, ContextOf
<1>g. terminal_process_num[u] = cpu.k + Rise(cpu)
  BY <1>u, <1>a DEF ContextOK
<1>1. CASE IncPid
  <2>1. Level(u) = cpu.k /\ Level(u)' = cpu.k + 1 /\ cpu.k < MaxDepth
    BY <1>1, <1>u, <1>a, <1>c, <1>f, <1>g DEF IncPid, UpdatePid, NoRaces, PidLead, Rise,
       RaisedPCs, SunkPCs, Context, ContextOK, ExecPCs, TypeOK, IInv
  <2>2. pid' = pid + 1
    BY <1>1 DEF IncPid, UpdatePid, NoRaces
  <2>3. Level(u) \in Int /\ Level(u) + 1 \in Depths
    BY <1>c, <2>1 DEF Depths
  <2>4. Level(u)' = Level(u) + 1
    BY <2>1
  <2> QED BY <1>c, <1>e, <2>2, <2>3, <2>4, SlotAdded
<1>2. CASE Reject \/ FailPid \/ HaltPid
  <2>1. Level(u) \in Depths /\ Level(u)' = Level(u) - 1
    BY <1>2, <1>u, <1>a, <1>c, <1>f, <1>g DEF Reject, FailPid, HaltPid, UpdatePid, NoRaces,
       PidLead, Rise, RaisedPCs, SunkPCs, Context, ContextOK, ExecPCs, EndingPCs,
       FailPCs, UserContext, Depths, TypeOK, IInv
  <2>2. pid' = pid - 1
    BY <1>2 DEF Reject, FailPid, HaltPid, UpdatePid, NoRaces
  <2> QED BY <1>c, <1>e, <2>1, <2>2, SlotRemoved
<1>h. ASSUME pid' = pid, Level(u)' = Level(u)
      PROVE  PidAccounting'
  BY <1>c, <1>e, <1>h, SlotsKept
<1> USE DEF PidLead, Rise, RaisedPCs, SunkPCs, ContextOK, ExecPCs, EndingPCs, Context
<1> USE DEF IInv, TypeOK
<1>3. CASE BootTerminal
  BY <1>3, <1>u, <1>a, <1>b, <1>c, <1>f, <1>g, <1>h DEF BootTerminal, Goto
<1>4. CASE CheckPid
  BY <1>4, <1>u, <1>a, <1>b, <1>c, <1>f, <1>g, <1>h DEF CheckPid, Goto
<1>5. CASE Grow
  BY <1>5, <1>u, <1>a, <1>b, <1>c, <1>f, <1>g, <1>h DEF Grow, UpdateProcessNum
<1>6. CASE Lookup
  BY <1>6, <1>u, <1>a, <1>b, <1>c, <1>f, <1>g, <1>h DEF Lookup
<1>7. CASE FailShrink
  BY <1>7, <1>u, <1>a, <1>b, <1>c, <1>f, <1>g, <1>h DEF FailShrink, UpdateProcessNum, UserContext
<1>8. CASE MapProgram
  BY <1>8, <1>u, <1>a, <1>b, <1>c, <1>f, <1>g, <1>h DEF MapProgram, MapUser, Goto
<1>9. CASE LoadProgram
  BY <1>9, <1>u, <1>a, <1>b, <1>c, <1>f, <1>g, <1>h DEF LoadProgram, Goto
<1>10. CASE Enter
  BY <1>10, <1>u, <1>a, <1>b, <1>c, <1>f, <1>g, <1>h DEF Enter, UserContext
<1>11. CASE HaltShell
  BY <1>11, <1>u, <1>a, <1>b, <1>c, <1>f, <1>g, <1>h DEF HaltShell, Goto
<1>12. CASE HaltProgram
  BY <1>12, <1>u, <1>a, <1>b, <1>c, <1>f, <1>g, <1>h DEF HaltProgram
<1>13. CASE HaltShrink
  BY <1>13, <1>u, <1>a, <1>b, <1>c, <1>f, <1>g, <1>h DEF HaltShrink, UpdateProcessNum
<1>14. CASE RemovePage
  BY <1>14, <1>u, <1>a, <1>b, <1>c, <1>f, <1>g, <1>h DEF RemovePage, MapUser, Goto
<1>15. CASE RemapParent
  BY <1>15, <1>u, <1>a, <1>b, <1>c, <1>f, <1>g, <1>h DEF RemapParent, MapUser, Goto
<1>16. CASE ResumeParent
  BY <1>16, <1>u, <1>a, <1>b, <1>c, <1>f, <1>g, <1>h DEF ResumeParent, UserContext
<1>17. CASE RestartPid
  BY <1>17, <1>u, <1>a, <1>b, <1>c, <1>f, <1>g, <1>h DEF RestartPid, UpdatePid
<1>18. CASE RestartShrink
  BY <1>18, <1>u, <1>a, <1>b, <1>c, <1>f, <1>g, <1>h DEF RestartShrink, UpdateProcessNum
<1> QED BY <1>1, <1>2, <1>3, <1>4, <1>5, <1>6, <1>7, <1>8, <1>9, <1>10, <1>11, <1>12, <1>13, <1>14, <1>15, <1>16, <1>17, <1>18 DEF KernelStep, Execute, Halt

-----------------------------------------------------------------------------
(* The phases of start-up.                                                 *)

(* pid cannot fall back into the range of the boot branches once every     *)
(* terminal has a shell.                                                   *)
LEMMA BootedPid ==
  ASSUME TypeOK', ContextsOK', PidAccounting', AllBooted'
  PROVE  pid' >= NumTerminals - 1
<1>1. ASSUME NEW t \in Terminals
      PROVE  Level(t)' >= 0
  <2>1. ContextOK(ContextOf(t), t)' /\ ContextOf(t).k' >= 0
    BY DEF ContextsOK, AllBooted
  <2>2. ContextOf(t)' \in Context
    BY DEF ContextOf, TypeOK
  <2> QED BY <2>1, <2>2 DEF Level, PidLead, ContextOK, Rise, RaisedPCs, SunkPCs,
                            ExecPCs, EndingPCs, Context
<1>2. \A t \in Terminals : <<t, 0>> \in Slots'
  BY <1>1, ConstantTypes DEF Slots, Level, Processes, Depths
<1>3. Cardinality(Slots') >= NumTerminals
  <2>1. Slots' \in SUBSET Processes
    BY DEF Slots
  <2> QED BY <1>2, <2>1, ShellsCounted
<1>4. Cardinality(Slots') \in Nat
  <2>1. IsFiniteSet(Slots')
    BY ProcessesFinite, FS_Subset DEF Slots
  <2> QED BY <2>1, FS_CardinalityType
<1> QED BY <1>3, <1>4, ConstantTypes DEF PidAccounting, TypeOK

(* A step of the execute call that starts a shell keeps the start-up in    *)
(* order, and ends it when the shell is entered.                           *)
LEMMA BootStepPhases ==
  ASSUME NoRaces, IInv, KernelStep, cpu.by = "boot"
  PROVE  Phases'
<1>1. InBoot
  BY DEF IInv, Phases
<1>2. /\ terminal_esp' = terminal_esp
      /\ cpu'.t = cpu.t
  BY KernelStepOwn
<1>3. /\ cpu \in Context /\ pid \in Int /\ cpu.t \in Terminals
      /\ terminal_process_num \in [Terminals -> -1 .. MaxDepth]
      /\ NumTerminals \in Nat
  BY ConstantTypes DEF IInv, TypeOK, Context
<1>4. CASE BootTerminal \/ IncPid \/ CheckPid \/ Grow \/ Lookup \/ MapProgram \/ LoadProgram
  <2>1. CASE BootTerminal
    BY <1>1, <1>3, <2>1 DEF BootTerminal, Goto, InBoot, Context, Phases
  <2>2. CASE IncPid
    <3>1. /\ cpu' = [cpu EXCEPT !.pc = "check"]
          /\ pid' = pid + 1
      BY <2>2 DEF IncPid, UpdatePid, NoRaces
    <3>2. cpu.pc = "inc" /\ pid = NumTerminals - 2 - cpu.t
      BY <1>1, <1>3, <2>2 DEF IncPid, UpdatePid, InBoot, Terminals
    <3>3. pid' = NumTerminals - 2 - cpu'.t + 1
      BY <1>2, <1>3, <3>1, <3>2 DEF Terminals
    <3>4. /\ cpu'.pc = "check" /\ cpu'.ie = cpu.ie /\ cpu'.k = cpu.k
          /\ cpu'.cmd = cpu.cmd /\ cpu'.by = "boot"
      BY <1>3, <3>1 DEF Context
    <3>5. InBoot'
      BY <1>1, <1>2, <3>3, <3>4 DEF InBoot
    <3> QED BY <3>4, <3>5 DEF Phases
  <2>3. CASE CheckPid
    <3>1. cpu' = [cpu EXCEPT !.pc = "grow"]
      BY <2>3, BootAdmitted DEF CheckPid, Goto
    <3> QED BY <1>1, <1>3, <2>3, <3>1 DEF CheckPid, InBoot, Context, Phases
  <2>4. CASE Grow
    BY <1>1, <1>3, <2>4 DEF Grow, UpdateProcessNum, InBoot, Context, Phases
  <2>5. CASE Lookup
    <3>1. cpu' = [cpu EXCEPT !.cmd = "elf", !.pc = "map"]
      BY <1>1, <2>5 DEF Lookup, ReadCommand, InBoot
    <3> QED BY <1>1, <1>3, <2>5, <3>1 DEF Lookup, InBoot, Context, Phases
  <2>6. CASE MapProgram
    BY <1>1, <1>3, <2>6 DEF MapProgram, MapUser, Goto, InBoot, Context, Phases
  <2>7. CASE LoadProgram
    BY <1>1, <1>3, <2>7 DEF LoadProgram, Goto, InBoot, Context, Phases
  <2> QED BY <1>4, <2>1, <2>2, <2>3, <2>4, <2>5, <2>6, <2>7
<1>5. CASE Enter
  <2>1. cpu' = UserContext(cpu.t, 0)
    <3>1. cpu.t = cur_execute_terminal /\ ContextOK(cpu, cpu.t)
      BY <1>3, <1>5 DEF IInv, ContextsOK, ContextOf, Enter
    <3>2. Top = 0
      BY <1>1, <1>3, <1>5, <3>1 DEF Top, ContextOK, InBoot, Rise, RaisedPCs, Enter
    <3> QED BY <1>5, <3>1, <3>2 DEF Enter
  <2>2. pid' = NumTerminals - 1 - cpu.t
    BY <1>1, <1>3, <1>5 DEF Enter, InBoot, Terminals
  <2>3. BetweenBoots'
    BY <1>1, <1>2, <1>3, <2>1, <2>2
       DEF BetweenBoots, ContextOf, InBoot, UserContext, Terminals
  <2>4. cpu'.by = "sys"
    BY <2>1 DEF UserContext
  <2>5. pid' >= NumTerminals - 1 => AllBooted'
    <3>1. ASSUME pid' >= NumTerminals - 1, NEW t \in Terminals
          PROVE  ~(t < NumTerminals - 1 - pid')
      BY <1>3, <2>2, <3>1 DEF Terminals
    <3>2. ASSUME pid' >= NumTerminals - 1, NEW t \in Terminals
          PROVE  ContextOf(t)'.pc # "idle" /\ ContextOf(t)'.k >= 0
      BY <2>3, <3>1, <3>2 DEF BetweenBoots
    <3> QED BY <3>2 DEF AllBooted
  <2> QED BY <2>3, <2>4, <2>5 DEF Phases
<1>6. CASE Reject \/ FailPid \/ FailShrink \/ Halt
  BY <1>1, <1>6 DEF InBoot, Reject, FailPid, FailShrink, UpdatePid, UpdateProcessNum,
     Halt, HaltShell, HaltProgram, HaltPid, HaltShrink, RemovePage, RemapParent,
     MapUser, ResumeParent, RestartPid, RestartShrink
<1> QED BY <1>4, <1>5, <1>6 DEF KernelStep, Execute

(* A step of a program's execute or halt cannot bring the start-up back.   *)
LEMMA SysStepPhases ==
  ASSUME NoRaces, IInv, KernelStep, cpu.by = "sys", TypeOK', ContextsOK', PidAccounting'
  PROVE  Phases'
<1>1. cpu.pc \notin {"idle", "user"}
  BY DEF KernelStep, BootTerminal, Execute, Halt, IncPid, CheckPid, Reject, Grow, Lookup,
     FailPid, FailShrink, MapProgram, LoadProgram, Enter, HaltShell, HaltProgram, HaltPid,
     HaltShrink, RemovePage, RemapParent, ResumeParent, RestartPid, RestartShrink,
     UpdatePid, UpdateProcessNum, MapUser
<1>2. AllBooted
  <2>1. ContextOf(cpu.t) = cpu /\ cpu.t \in Terminals
    BY DEF ContextOf, IInv, TypeOK, Context
  <2>2. ~BetweenBoots
    BY <1>1, <2>1 DEF BetweenBoots
  <2> QED BY <2>2, ConstantTypes DEF IInv, Phases, TypeOK
<1>3. /\ terminal_esp' = terminal_esp
      /\ cpu'.t = cpu.t
      /\ ContextOK(cpu, cpu.t)'
  BY KernelStepOwn
<1>4. ContextOK(cpu, cpu.t) /\ cpu \in Context /\ cpu.k >= 0
  BY <1>2 DEF IInv, ContextsOK, ContextOf, AllBooted, TypeOK, Context
<1>5. cpu.pc # "boot" /\ cpu.t = cur_execute_terminal
  BY DEF IInv, ContextsOK, ContextOK, ContextOf, TypeOK, Context
<1>6. cpu'.by = "sys" /\ cpu'.k >= 0 /\ cpu'.pc # "idle"
  <2> USE DEF NoRaces, Context, Rise, RaisedPCs, SunkPCs, ExecPCs, EndingPCs, ContextOK
  <2>1. CASE IncPid
    BY <2>1, <1>4, <1>5 DEF IncPid, UpdatePid
  <2>2. CASE CheckPid
    BY <2>2, <1>4, <1>5 DEF CheckPid, Goto
  <2>3. CASE Reject
    BY <2>3, <1>4, <1>5 DEF Reject, UpdatePid, UserContext
  <2>4. CASE Grow
    BY <2>4, <1>4, <1>5 DEF Grow, UpdateProcessNum
  <2>5. CASE Lookup
    BY <2>5, <1>4, <1>5 DEF Lookup
  <2>6. CASE FailPid
    BY <2>6, <1>4, <1>5 DEF FailPid, UpdatePid
  <2>7. CASE FailShrink
    BY <2>7, <1>4, <1>5 DEF FailShrink, UpdateProcessNum, UserContext
  <2>8. CASE MapProgram
    BY <2>8, <1>4, <1>5 DEF MapProgram, MapUser, Goto
  <2>9. CASE LoadProgram
    BY <2>9, <1>4, <1>5 DEF LoadProgram, Goto
  <2>10. CASE Enter
    BY <2>10, <1>4, <1>5 DEF Enter, UserContext, Top
  <2>11. CASE HaltShell
    BY <2>11, <1>4, <1>5 DEF HaltShell, Goto
  <2>12. CASE HaltProgram
    BY <2>12, <1>4, <1>5 DEF HaltProgram
  <2>13. CASE HaltPid
    BY <2>13, <1>4, <1>5 DEF HaltPid, UpdatePid
  <2>14. CASE HaltShrink
    BY <2>14, <1>4, <1>5 DEF HaltShrink, UpdateProcessNum
  <2>15. CASE RemovePage
    BY <2>15, <1>4, <1>5 DEF RemovePage, MapUser, Goto
  <2>16. CASE RemapParent
    BY <2>16, <1>4, <1>5 DEF RemapParent, MapUser, Goto
  <2>17. CASE ResumeParent
    BY <2>17, <1>4, <1>5 DEF ResumeParent, UserContext
  <2>18. CASE BootTerminal \/ RestartPid \/ RestartShrink
    BY <2>18, <1>4, <1>5 DEF BootTerminal, RestartPid, RestartShrink, UpdatePid,
       UpdateProcessNum
  <2> QED BY <2>1, <2>2, <2>3, <2>4, <2>5, <2>6, <2>7, <2>8, <2>9, <2>10, <2>11, <2>12, <2>13, <2>14, <2>15, <2>16, <2>17, <2>18 DEF KernelStep, Execute, Halt
<1>7. AllBooted'
  BY <1>2, <1>3, <1>6 DEF AllBooted, ContextOf
<1>8. pid' >= NumTerminals - 1
  BY <1>7, BootedPid
<1> QED BY <1>6, <1>7, <1>8, ConstantTypes DEF Phases, TypeOK

-----------------------------------------------------------------------------
(* The steps of programs and of the timer.                                 *)

(* A system call or an exception of a program keeps the invariant.         *)
LEMMA UserStepInvariant ==
  ASSUME NoRaces, IInv, UserStep
  PROVE  IInv'
<1>1. /\ cpu.pc = "user" /\ Booted
      /\ UNCHANGED <<pid, terminal_process_num, user_page, image, esp0, pcb,
                     cur_execute_terminal, terminal_esp>>
  BY DEF UserStep, SysExecute, SysHalt, Fault, InUserCode, Goto
<1>2. /\ cpu \in Context /\ pid \in Int /\ cpu.t \in Terminals
      /\ terminal_process_num \in [Terminals -> -1 .. MaxDepth]
      /\ NumTerminals \in Nat /\ 0 \in Terminals
  BY ConstantTypes DEF IInv, TypeOK, Context
<1>3. ContextOK(cpu, cpu.t) /\ cpu.t = cur_execute_terminal
  BY <1>1, <1>2 DEF IInv, ContextsOK, ContextOf
<1>4. cpu.by = "sys" /\ AllBooted
  <2>1. cpu.by = "sys"
    BY <1>1, <1>2, <1>3 DEF IInv, Phases, InBoot, ContextOK, Context, Callers
  <2>2. ~(pid < NumTerminals - 1)
    <3>1. ASSUME pid < NumTerminals - 1
          PROVE  FALSE
      <4>1. 0 < NumTerminals - 1 - pid
        BY <1>2, <3>1
      <4>2. ContextOf(0).pc = "idle"
        BY <1>2, <2>1, <3>1, <4>1 DEF IInv, Phases, BetweenBoots
      <4> QED BY <1>1, <1>2, <4>2 DEF Booted
    <3> QED BY <3>1
  <2> QED BY <1>2, <2>1, <2>2 DEF IInv, Phases
<1>5. cpu.k >= 0
  BY <1>2, <1>4 DEF AllBooted, ContextOf
<1>6. PICK how \in {"inc", "halt"} :
        /\ cpu'.pc = how /\ cpu'.t = cpu.t /\ cpu'.k = cpu.k
        /\ cpu'.by = "sys" /\ cpu'.idx = cpu.idx
        /\ cpu' \in Context
        /\ how = "inc" => cpu.k < MaxDepth
        /\ how = "halt" => cpu.k > 0
        /\ exception_flag' \in BOOLEAN
  <2>1. ASSUME NEW cmd \in Commands, SysExecute(cmd)
        PROVE  /\ cpu'.pc = "inc" /\ cpu'.t = cpu.t /\ cpu'.k = cpu.k
               /\ cpu'.by = "sys" /\ cpu'.idx = cpu.idx
               /\ cpu' \in Context /\ cpu.k < MaxDepth
               /\ exception_flag' \in BOOLEAN
    <3>1. cmd \in CommandKinds
      BY ConstantTypes
    <3> QED BY <1>2, <2>1, <3>1 DEF SysExecute, Context, PCs, Callers, IInv, TypeOK
  <2>2. CASE SysHalt
    BY <1>2, <1>4, <2>2 DEF SysHalt, Goto, MayEnd, NoRaces, Context, PCs, IInv, TypeOK
  <2>3. CASE Fault
    BY <1>2, <1>4, <2>3 DEF Fault, MayEnd, NoRaces, Context, PCs
  <2> QED BY <2>1, <2>2, <2>3 DEF UserStep
<1>7. TypeOK'
  BY <1>1, <1>6 DEF IInv, TypeOK
<1>8. ContextsOK'
  <2>1. ContextOK(cpu, cpu.t)'
    BY <1>1, <1>3, <1>6 DEF ContextOK, Rise, RaisedPCs, SunkPCs, ExecPCs, EndingPCs, FailPCs
  <2> QED BY <1>1, <1>2, <1>3, <1>6, <2>1, OwnStep DEF IInv
<1>9. PidAccounting'
  <2>1. \A t \in Terminals : Level(t)' = Level(t)
    BY <1>1, <1>6 DEF Level, ContextOf, PidLead
  <2> QED BY <1>1, <2>1, SlotsKept DEF IInv
<1>10. Phases'
  <2>1. AllBooted'
    BY <1>1, <1>4, <1>5, <1>6 DEF AllBooted, ContextOf
  <2>2. pid' >= NumTerminals - 1
    BY <1>7, <1>8, <1>9, <2>1, BootedPid
  <2> QED BY <1>2, <1>6, <1>7, <2>1, <2>2 DEF Phases, TypeOK
<1> QED BY <1>7, <1>8, <1>9, <1>10 DEF IInv

(* A boot branch is entered between two boots and takes the next terminal  *)
(* that has no shell; nobody else's context changes.                       *)
LEMMA BootShellFacts ==
  ASSUME NoRaces, IInv, BootShell
  PROVE  /\ cpu.by = "sys" /\ BetweenBoots /\ cpu.t = cur_execute_terminal
         /\ UNCHANGED <<pid, terminal_process_num, exception_flag, user_page, image,
                        esp0, pcb, cur_execute_terminal>>
         /\ cpu'.k = -1 /\ cpu'.pc = "boot" /\ cpu'.by = "boot"
         /\ cpu'.cmd = "elf" /\ cpu'.ie = FALSE /\ cpu' \in Context
         /\ \A t \in Terminals : terminal_esp'[t] = ContextOf(t)
         /\ \E u \in Terminals :
              /\ u = NumTerminals - 2 - pid /\ cpu'.t = u
              /\ ContextOf(u)' = cpu' /\ ContextOf(u).pc = "idle"
              /\ terminal_process_num[u] = -1
              /\ \A t \in Terminals \ {u} : ContextOf(t)' = ContextOf(t)
<1>1. /\ cpu \in Context /\ pid \in Int /\ cpu.t \in Terminals
      /\ cur_execute_terminal \in Terminals
      /\ terminal_esp \in [Terminals -> Context]
      /\ terminal_process_num \in [Terminals -> -1 .. MaxDepth]
      /\ NumTerminals \in Nat /\ MaxDepth \in Nat
  BY ConstantTypes DEF IInv, TypeOK, Context
<1>2. PICK u \in Terminals : u = NumTerminals - 2 - pid
  BY <1>1 DEF BootShell, BootBranch, Terminals
<1>3. cpu.by = "sys" /\ BetweenBoots
  <2>1. ContextOK(cpu, cpu.t)
    BY <1>1 DEF IInv, ContextsOK, ContextOf
  <2>2. cpu.by = "sys"
    BY <1>1, <2>1 DEF IInv, Phases, InBoot, BootShell, ContextOK, Context, Callers
  <2> QED BY <1>1, <2>2 DEF IInv, Phases, BootShell, BootBranch
<1>4. cpu.t = cur_execute_terminal
  BY <1>3 DEF IInv, ContextsOK, ContextOK, ContextOf, TypeOK, Context
<1>5. /\ terminal_esp' = [terminal_esp EXCEPT ![cpu.t] = cpu]
      /\ cpu' = BootContext(u)
      /\ UNCHANGED <<pid, terminal_process_num, exception_flag, user_page, image,
                     esp0, pcb, cur_execute_terminal>>
  BY <1>2, <1>4 DEF BootShell
<1>6. /\ cpu'.t = u /\ cpu'.k = -1 /\ cpu'.pc = "boot" /\ cpu'.by = "boot"
      /\ cpu'.cmd = "elf" /\ cpu'.ie = FALSE /\ cpu' \in Context
  <2>1. -1 \in -1 .. MaxDepth
    BY <1>1
  <2>2. UserContext(u, -1) \in Context
    BY <2>1, UserContextType
  <2>3. BootContext(u) \in Context
    <3>1. TickInBoot \in BOOLEAN
      BY RacesAssumption
    <3>2. /\ "boot" \in PCs /\ "boot" \in Callers
          /\ "elf" \in CommandKinds \cup {"none"}
      BY DEF PCs, Callers, CommandKinds
    <3> QED BY <2>2, <3>1, <3>2 DEF BootContext, Context
  <2> QED BY <1>5, <2>3 DEF BootContext, UserContext, NoRaces
<1>7. \A t \in Terminals : terminal_esp'[t] = ContextOf(t)
  BY <1>1, <1>5 DEF ContextOf
<1>8. \A t \in Terminals \ {u} : ContextOf(t)' = ContextOf(t)
  BY <1>6, <1>7 DEF ContextOf
<1>9. /\ ContextOf(u)' = cpu'
      /\ ContextOf(u).pc = "idle" /\ terminal_process_num[u] = -1
  <2>1. u < NumTerminals - 1 - pid
    BY <1>1, <1>2 DEF Terminals
  <2>2. ContextOf(u).pc = "idle"
    BY <1>3, <2>1 DEF BetweenBoots
  <2>3. ContextOK(ContextOf(u), u)
    BY DEF IInv, ContextsOK
  <2> QED BY <1>6, <2>2, <2>3 DEF ContextOf, ContextOK, Rise, RaisedPCs, SunkPCs
<1> QED BY <1>2, <1>3, <1>4, <1>5, <1>6, <1>7, <1>8, <1>9

(* A boot branch of the scheduler keeps the invariant.                     *)
LEMMA BootShellInvariant ==
  ASSUME NoRaces, IInv, BootShell
  PROVE  IInv'
<1>1. /\ pid \in Int /\ NumTerminals \in Nat /\ MaxDepth \in Nat
      /\ terminal_process_num \in [Terminals -> -1 .. MaxDepth]
  BY ConstantTypes DEF IInv, TypeOK
<1>3. /\ cpu.by = "sys" /\ BetweenBoots
      /\ UNCHANGED <<pid, terminal_process_num, exception_flag, user_page, image,
                     esp0, pcb, cur_execute_terminal>>
      /\ cpu'.k = -1 /\ cpu'.pc = "boot" /\ cpu'.by = "boot"
      /\ cpu'.cmd = "elf" /\ cpu'.ie = FALSE /\ cpu' \in Context
      /\ \A t \in Terminals : terminal_esp'[t] = ContextOf(t)
  BY BootShellFacts
<1>2. PICK u \in Terminals :
        /\ u = NumTerminals - 2 - pid /\ cpu'.t = u
        /\ ContextOf(u)' = cpu' /\ ContextOf(u).pc = "idle"
        /\ terminal_process_num[u] = -1
        /\ \A t \in Terminals \ {u} : ContextOf(t)' = ContextOf(t)
  BY BootShellFacts
<1>10. TypeOK'
  BY <1>1, <1>3 DEF IInv, TypeOK, BootShell
<1>11. ContextsOK'
  <2>1. \A t \in Terminals \ {u} : ContextOK(ContextOf(t), t)'
    BY <1>2, <1>3 DEF IInv, ContextsOK, ContextOK
  <2>2. ContextOK(ContextOf(u), u)'
    BY <1>1, <1>2, <1>3 DEF ContextOK, Rise, RaisedPCs, SunkPCs, ExecPCs,
       EndingPCs, FailPCs
  <2>3. \A t \in Terminals : terminal_esp'[t].by = "sys"
    BY <1>3 DEF IInv, ContextsOK, ContextOf
  <2> QED BY <1>2, <1>3, <2>1, <2>2, <2>3 DEF ContextsOK
<1>12. PidAccounting'
  <2>1. \A t \in Terminals : Level(t)' = Level(t)
    BY <1>2, <1>3 DEF Level, PidLead
  <2> QED BY <1>3, <2>1, SlotsKept DEF IInv
<1>13. InBoot'
  <2>1. pid' = NumTerminals - 2 - cpu'.t
    BY <1>1, <1>2, <1>3
  <2>2. ASSUME NEW t \in Terminals
        PROVE  /\ t < u => terminal_esp'[t].pc = "idle"
               /\ t > u => terminal_esp'[t].pc = "user" /\ terminal_esp'[t].k = 0
    <3>1. /\ t < u => t < NumTerminals - 1 - pid
          /\ t > u => ~(t < NumTerminals - 1 - pid)
      BY <1>1, <1>2 DEF Terminals
    <3> QED BY <1>3, <3>1 DEF BetweenBoots
  <2> QED BY <1>1, <1>2, <1>3, <2>1, <2>2 DEF InBoot
<1> QED BY <1>3, <1>10, <1>11, <1>12, <1>13 DEF IInv, Phases

(* The switch resumes the context of the next terminal and maps the frame  *)
(* that the counter of that terminal points to.                            *)
LEMMA SwitchFacts ==
  ASSUME NoRaces, IInv, Switch
  PROVE  /\ AllBooted /\ cpu.by = "sys" /\ cpu.t = cur_execute_terminal
         /\ UNCHANGED <<pid, terminal_process_num, exception_flag, image, pcb>>
         /\ \A t \in Terminals : /\ terminal_esp'[t] = ContextOf(t)
                                 /\ ContextOf(t)' = ContextOf(t)
                                 /\ ContextOf(t).by = "sys"
         /\ \E u \in Terminals :
              /\ cpu' = ContextOf(u) /\ cpu'.t = u /\ cur_execute_terminal' = u
              /\ cpu' \in Context /\ ContextOK(ContextOf(u), u)
              /\ terminal_process_num[u] \in Depths
              /\ user_page' = Frame(u, terminal_process_num[u])
              /\ esp0' = KernelStack(u, terminal_process_num[u])
<1> DEFINE next == NextTerminal(cur_execute_terminal)
<1>1. /\ cpu \in Context /\ pid \in Int /\ cpu.t \in Terminals
      /\ cur_execute_terminal \in Terminals
      /\ terminal_esp \in [Terminals -> Context]
      /\ terminal_process_num \in [Terminals -> -1 .. MaxDepth]
      /\ NumTerminals \in Nat /\ NumTerminals >= 1 /\ MaxDepth \in Nat
  BY ConstantTypes DEF IInv, TypeOK, Context
<1>2. cpu.by = "sys"
  <2>1. ContextOK(cpu, cpu.t)
    BY <1>1 DEF IInv, ContextsOK, ContextOf
  <2> QED BY <1>1, <2>1 DEF IInv, Phases, InBoot, Switch, ContextOK, Context, Callers
<1>3. AllBooted
  <2>1. Cardinality(Slots) \in Nat
    BY ProcessesFinite, FS_Subset, FS_CardinalityType DEF Slots
  <2>2. pid >= -1
    BY <1>1, <2>1 DEF IInv, PidAccounting
  <2>3. pid >= NumTerminals - 1
    BY <1>1, <2>2 DEF Switch, BootBranch
  <2> QED BY <1>2, <2>3 DEF IInv, Phases
<1>4. cpu.t = cur_execute_terminal
  BY <1>2 DEF IInv, ContextsOK, ContextOK, ContextOf, TypeOK, Context
<1>5. next \in Terminals
  BY <1>1 DEF NextTerminal, Terminals
<1>6. PICK u \in Terminals : u = next
  BY <1>5
<1>7. \A t \in Terminals : terminal_esp'[t] = ContextOf(t)
  BY <1>1, <1>4 DEF ContextOf, Switch, SwitchTo
<1>8. /\ cpu' = ContextOf(u) /\ cur_execute_terminal' = u
      /\ UNCHANGED <<pid, terminal_process_num, exception_flag, image, pcb>>
  BY <1>6, <1>7 DEF Switch, SwitchTo
<1>9. /\ ContextOK(ContextOf(u), u)
      /\ ContextOf(u).pc # "idle" /\ ContextOf(u).k >= 0
      /\ ContextOf(u) \in Context
  BY <1>1, <1>3 DEF IInv, ContextsOK, AllBooted, ContextOf
<1>10. cpu'.t = u
  BY <1>8, <1>9 DEF ContextOK
<1>11. \A t \in Terminals : ContextOf(t)' = ContextOf(t)
  BY <1>7, <1>8, <1>10 DEF ContextOf
<1>12. \A t \in Terminals : ContextOf(t).by = "sys"
  BY <1>2 DEF IInv, ContextsOK, ContextOf
<1>13. terminal_process_num[u] \in Depths
  BY <1>1, <1>9 DEF ContextOK, Rise, RaisedPCs, SunkPCs, EndingPCs, Depths, Context
<1>14. /\ user_page' = Frame(u, terminal_process_num[u])
       /\ esp0' = KernelStack(u, terminal_process_num[u])
  BY <1>6 DEF Switch, SwitchTo
<1> QED BY <1>2, <1>3, <1>4, <1>7, <1>8, <1>9, <1>10, <1>11, <1>12, <1>13, <1>14

(* A switch to the next terminal keeps the invariant.                      *)
LEMMA SwitchInvariant ==
  ASSUME NoRaces, IInv, Switch
  PROVE  IInv'
<1>1. /\ AllBooted /\ cpu.by = "sys"
      /\ UNCHANGED <<pid, terminal_process_num, exception_flag, image, pcb>>
      /\ \A t \in Terminals : /\ terminal_esp'[t] = ContextOf(t)
                              /\ ContextOf(t)' = ContextOf(t)
                              /\ ContextOf(t).by = "sys"
  BY SwitchFacts
<1>2. PICK u \in Terminals :
        /\ cpu' = ContextOf(u) /\ cpu'.t = u /\ cur_execute_terminal' = u
        /\ cpu' \in Context /\ ContextOK(ContextOf(u), u)
        /\ terminal_process_num[u] \in Depths
        /\ user_page' = Frame(u, terminal_process_num[u])
        /\ esp0' = KernelStack(u, terminal_process_num[u])
  BY SwitchFacts
<1>3. TypeOK'
  <2>1. terminal_esp' \in [Terminals -> Context]
    BY DEF Switch, SwitchTo, IInv, TypeOK
  <2>2. user_page' \in Frames /\ esp0' \in Int
    BY <1>2, FrameRange
  <2> QED BY <1>1, <1>2, <2>1, <2>2 DEF IInv, TypeOK
<1>4. ContextsOK'
  <2>1. \A t \in Terminals : ContextOK(ContextOf(t), t)'
    BY <1>1 DEF IInv, ContextsOK, ContextOK
  <2>2. cpu'.pc # "boot"
    BY <1>1, <1>2 DEF ContextOK
  <2> QED BY <1>1, <1>2, <2>1, <2>2 DEF ContextsOK
<1>5. PidAccounting'
  <2>1. \A t \in Terminals : Level(t)' = Level(t)
    BY <1>1 DEF Level
  <2> QED BY <1>1, <2>1, SlotsKept DEF IInv
<1>6. Phases'
  <2>1. AllBooted'
    BY <1>1 DEF AllBooted
  <2>2. pid' >= NumTerminals - 1
    BY <1>3, <1>4, <1>5, <2>1, BootedPid
  <2>3. cpu'.by = "sys"
    BY <1>1, <1>2
  <2> QED BY <1>3, <2>1, <2>2, <2>3, ConstantTypes DEF Phases, TypeOK
<1> QED BY <1>3, <1>4, <1>5, <1>6 DEF IInv

-----------------------------------------------------------------------------
(* Theorems.                                                               *)

(* The invariant is inductive.                                             *)
LEMMA StepInvariant ==
  ASSUME NoRaces, IInv, [Next]_vars
  PROVE  IInv'
<1>1. CASE KernelStep
  <2>1. TypeOK' /\ ContextsOK' /\ PidAccounting'
    BY <1>1, KernelStepType, KernelStepContexts, KernelStepAccounting
  <2>2. cpu.by \in {"boot", "sys"}
    BY DEF IInv, ContextsOK, ContextOK, ContextOf, TypeOK, Context, Callers
  <2>3. Phases'
    BY <1>1, <2>1, <2>2, BootStepPhases, SysStepPhases
  <2> QED BY <2>1, <2>3 DEF IInv
<1>2. CASE UserStep
  BY <1>2, UserStepInvariant
<1>3. CASE Tick
  BY <1>3, BootShellInvariant, SwitchInvariant DEF Tick
<1>4. CASE UNCHANGED vars
  <2>1. TypeOK' /\ ContextsOK' /\ Phases'
    BY <1>4 DEF IInv, TypeOK, ContextsOK, ContextOK, ContextOf, Phases, InBoot,
       BetweenBoots, AllBooted, vars
  <2>2. PidAccounting'
    BY <1>4 DEF IInv, PidAccounting, Slots, ContextOf, vars
  <2> QED BY <2>1, <2>2 DEF IInv
<1> QED BY <1>1, <1>2, <1>3, <1>4 DEF Next

(* Without the races that NoRaces names, the invariant holds of every      *)
(* reachable state, for any number of terminals and any limits.            *)
THEOREM InvariantHolds == ASSUME NoRaces PROVE Spec => []IInv
<1>1. Init => IInv
  BY InitInvariant
<1>2. IInv /\ [Next]_vars => IInv'
  BY StepInvariant
<1> QED BY <1>1, <1>2, PTL DEF Spec

(* pid is exactly one less than the number of slots in use, at every step  *)
(* of every interleaving of execute, halt and the scheduler.               *)
THEOREM PidAccountingHolds == ASSUME NoRaces PROVE Spec => []PidAccounting
<1>1. IInv => TypeOK /\ PidAccounting
  BY DEF IInv
<1> QED BY <1>1, InvariantHolds, PTL

(* The state has the declared types: no counter leaves its range and only  *)
(* existing frames are mapped.                                             *)
THEOREM TypeCorrect == ASSUME NoRaces PROVE Spec => []TypeOK
<1>1. IInv => TypeOK
  BY DEF IInv
<1> QED BY <1>1, InvariantHolds, PTL

(* A time slice never resumes, and user code is never executed in, the     *)
(* context of anybody but the top process of the terminal whose turn it is.*)
THEOREM ContextOwnershipHolds == ASSUME NoRaces PROVE Spec => []ContextOwnership
<1>1. ASSUME IInv PROVE ContextOwnership
  <2>1. ContextOK(cpu, cpu.t) /\ cpu.t \in Terminals /\ cpu \in Context
    BY <1>1 DEF IInv, ContextsOK, ContextOf, TypeOK, Context
  <2>2. cpu.pc # "boot" => cpu.t = cur_execute_terminal
    BY <1>1 DEF IInv, ContextsOK
  <2>3. cpu.pc = "user" => cpu.k = Top
    BY <2>1, <2>2 DEF ContextOK, Rise, RaisedPCs, SunkPCs, Top, Context
  <2>4. ASSUME NEW t \in Terminals, terminal_process_num[t] >= 0
        PROVE  ContextOf(t).pc # "idle" /\ ContextOf(t).t = t
    BY <1>1, <2>4 DEF IInv, ContextsOK, ContextOK, Rise, RaisedPCs, SunkPCs
  <2> QED BY <2>2, <2>3, <2>4 DEF ContextOwnership
<1> QED BY <1>1, InvariantHolds, PTL

(* No terminal is booted a second time, whatever the other terminals do.   *)
THEOREM BootOnceHolds == ASSUME NoRaces PROVE Spec => []BootOnce
<1>1. ASSUME IInv PROVE BootOnce
  <2>1. CASE cpu.pc = "boot"
    <3>1. ContextOK(cpu, cpu.t) /\ cpu.t \in Terminals /\ cpu \in Context
      BY <1>1 DEF IInv, ContextsOK, ContextOf, TypeOK, Context
    <3>2. InBoot
      BY <1>1, <2>1, <3>1 DEF IInv, Phases, ContextOK
    <3> QED BY <2>1, <3>1, <3>2 DEF BootOnce, InBoot, ContextOK, Rise, RaisedPCs, SunkPCs,
                                   Context
  <2> QED BY <2>1 DEF BootOnce
<1> QED BY <1>1, InvariantHolds, PTL

-----------------------------------------------------------------------------
(* What is mapped while a process executes.                                *)

(* The facts about the executing context that the proofs below use.        *)
LEMMA CpuFacts ==
  ASSUME IInv
  PROVE  /\ cpu \in Context /\ cpu.t \in Terminals
         /\ cpu.k \in -1 .. MaxDepth /\ MaxDepth \in Nat
         /\ ContextOK(cpu, cpu.t)
         /\ cpu.pc # "boot" => /\ cpu.t = cur_execute_terminal
                               /\ Top = cpu.k + Rise(cpu)
<1>1. /\ cpu \in Context /\ cpu.t \in Terminals
      /\ cpu.k \in -1 .. MaxDepth /\ MaxDepth \in Nat
  BY ConstantTypes DEF IInv, TypeOK, Context
<1>2. ContextOK(cpu, cpu.t)
  BY <1>1 DEF IInv, ContextsOK, ContextOf
<1>3. cpu.pc # "boot" => cpu.t = cur_execute_terminal
  BY DEF IInv, ContextsOK
<1> QED BY <1>1, <1>2, <1>3 DEF ContextOK, Top

(* Every step of execute and halt keeps what is mapped at each program     *)
(* counter.                                                                *)
LEMMA KernelStepAddress ==
  ASSUME NoRaces, IInv, AddressInv, KernelStep
  PROVE  AddressInv'
<1>a. /\ cpu \in Context /\ cpu.t \in Terminals
      /\ cpu.k \in -1 .. MaxDepth /\ MaxDepth \in Nat
      /\ ContextOK(cpu, cpu.t)
      /\ cpu.pc # "boot" => /\ cpu.t = cur_execute_terminal
                            /\ Top = cpu.k + Rise(cpu)
  BY CpuFacts
<1>b. \A t \in Terminals : t # cpu'.t => terminal_esp'[t].pc \notin LookupPCs
  BY KernelStepOwn DEF AddressInv
<1> SUFFICES /\ LoadPage'
             /\ (cpu.pc \in OwnFramePCs /\ cpu.by = "sys")' =>
                   user_page' = Frame(cpu'.t, cpu'.k) /\ esp0' = KernelStack(cpu'.t, cpu'.k)
             /\ cpu'.pc = "resume" => user_page' = Frame(cpu'.t, cpu'.k - 1)
  BY <1>b DEF AddressInv
<1> USE DEF AddressInv, LoadPage, OwnFramePCs, Context, ContextOK, Rise, RaisedPCs,
            SunkPCs, ExecPCs, EndingPCs, FailPCs
<1>1. CASE BootTerminal
  BY <1>1, <1>a DEF BootTerminal, Goto
<1>2. CASE IncPid
  BY <1>2, <1>a DEF IncPid, UpdatePid, NoRaces
<1>3. CASE CheckPid
  BY <1>3, <1>a DEF CheckPid, Goto
<1>4. CASE Reject
  BY <1>4, <1>a DEF Reject, UpdatePid, NoRaces, UserContext
<1>5. CASE Grow
  BY <1>5, <1>a DEF Grow, UpdateProcessNum
<1>6. CASE Lookup
  BY <1>6, <1>a DEF Lookup
<1>7. CASE FailPid
  BY <1>7, <1>a DEF FailPid, UpdatePid, NoRaces
<1>8. CASE FailShrink
  BY <1>8, <1>a DEF FailShrink, UpdateProcessNum, UserContext
<1>9. CASE MapProgram
  BY <1>9, <1>a DEF MapProgram, MapUser, Goto
<1>10. CASE LoadProgram
  BY <1>10, <1>a DEF LoadProgram, Goto
<1>11. CASE Enter
  BY <1>11, <1>a DEF Enter, UserContext
<1>12. CASE HaltShell
  BY <1>12, <1>a DEF HaltShell, Goto
<1>13. CASE HaltProgram
  BY <1>13, <1>a DEF HaltProgram
<1>14. CASE HaltPid
  BY <1>14, <1>a DEF HaltPid, UpdatePid, NoRaces
<1>15. CASE HaltShrink
  BY <1>15, <1>a DEF HaltShrink, UpdateProcessNum
<1>16. CASE RemovePage
  BY <1>16, <1>a DEF RemovePage, MapUser, Goto
<1>17. CASE RemapParent
  BY <1>17, <1>a DEF RemapParent, MapUser, Goto
<1>18. CASE ResumeParent
  BY <1>18, <1>a DEF ResumeParent, UserContext
<1>19. CASE RestartPid
  BY <1>19, <1>a DEF RestartPid, UpdatePid, NoRaces
<1>20. CASE RestartShrink
  BY <1>20, <1>a DEF RestartShrink, UpdateProcessNum
<1> QED BY <1>1, <1>2, <1>3, <1>4, <1>5, <1>6, <1>7, <1>8, <1>9, <1>10, <1>11, <1>12, <1>13, <1>14, <1>15, <1>16, <1>17, <1>18, <1>19, <1>20
   DEF KernelStep, Execute, Halt

(* AddressInv is inductive relative to the invariant when the timer does   *)
(* not fire while a command is looked up.                                  *)
LEMMA StepAddress ==
  ASSUME NoRaces, ~TickInLookup, IInv, AddressInv, [Next]_vars
  PROVE  AddressInv'
<1>a. /\ cpu \in Context /\ cpu.t \in Terminals
      /\ cpu.k \in -1 .. MaxDepth
      /\ ContextOK(cpu, cpu.t)
  BY CpuFacts
<1>1. CASE KernelStep
  BY <1>1, KernelStepAddress
<1>2. CASE UserStep
  <2>1. ASSUME NEW cmd \in Commands, SysExecute(cmd)
        PROVE  AddressInv'
    BY <1>a, <2>1 DEF SysExecute, InUserCode, AddressInv, LoadPage, OwnFramePCs, Context,
       ContextOK, IInv, Phases, InBoot, Callers
  <2>2. CASE SysHalt \/ Fault
    BY <1>a, <2>2 DEF SysHalt, Fault, Goto, AddressInv, LoadPage, OwnFramePCs, Context
  <2> QED BY <1>2, <2>1, <2>2 DEF UserStep
<1>3. CASE Tick /\ Switch
  <2>1. cpu.pc \notin LookupPCs
    BY <1>3 DEF Tick
  <2>2. \A t \in Terminals : ContextOf(t).pc \notin LookupPCs
    BY <2>1 DEF AddressInv, ContextOf
  <2>3. PICK u \in Terminals :
          /\ cpu' = ContextOf(u) /\ cpu'.t = u
          /\ cpu' \in Context /\ ContextOK(ContextOf(u), u)
          /\ user_page' = Frame(u, terminal_process_num[u])
          /\ esp0' = KernelStack(u, terminal_process_num[u])
    BY <1>3, SwitchFacts
  <2>4. \A t \in Terminals : terminal_esp'[t].pc \notin LookupPCs
    BY <1>3, <2>2, SwitchFacts
  <2>5. terminal_process_num[u] = cpu'.k + Rise(cpu') /\ cpu'.pc \notin LookupPCs
    BY <2>2, <2>3 DEF ContextOK
  <2>6. cpu'.pc \in OwnFramePCs => Rise(cpu') = 0
    BY <2>5 DEF OwnFramePCs, Rise, RaisedPCs, SunkPCs, LookupPCs
  <2>7. /\ cpu'.pc \in {"load", "enter"} => Rise(cpu') = 1
        /\ cpu'.pc = "resume" => Rise(cpu') = -1
    BY DEF Rise, RaisedPCs, SunkPCs
  <2>8. cpu'.k \in Int /\ cpu'.k + 0 = cpu'.k /\ cpu'.k + (-1) = cpu'.k - 1
    BY <2>3 DEF Context
  <2> QED BY <2>3, <2>4, <2>5, <2>6, <2>7, <2>8 DEF AddressInv, LoadPage
<1>4. CASE Tick /\ BootShell
  <2>1. /\ cpu'.pc = "boot"
        /\ terminal_esp' = [terminal_esp EXCEPT ![cur_execute_terminal] = cpu]
    BY <1>4 DEF BootShell, BootContext, UserContext
  <2>2. cpu.pc \notin LookupPCs
    BY <1>4 DEF Tick
  <2>3. cpu.t = cur_execute_terminal /\ terminal_esp \in [Terminals -> Context]
    BY <1>a, <1>4 DEF BootShell, IInv, Phases, InBoot, ContextsOK, ContextOK, TypeOK
  <2>4. \A t \in Terminals : terminal_esp'[t].pc \notin LookupPCs
    BY <2>1, <2>2, <2>3 DEF AddressInv
  <2> QED BY <2>1, <2>4 DEF AddressInv, LoadPage, OwnFramePCs
<1>5. CASE UNCHANGED vars
  BY <1>5 DEF AddressInv, LoadPage, vars
<1> QED BY <1>1, <1>2, <1>3, <1>4, <1>5 DEF Next, Tick

(* With the timer off between the counter update of execute and the end of *)
(* its lookup, user code always executes with its own frame and its own    *)
(* kernel stack.                                                           *)
THEOREM AddressSpaceHolds ==
  ASSUME NoRaces, ~TickInLookup PROVE Spec => []AddressSpace
<1>1. Init => AddressInv
  BY DEF Init, AddressInv, LoadPage, OwnFramePCs, IdleContext, UserContext, LookupPCs
<1>2. IInv /\ AddressInv /\ [Next]_vars => AddressInv'
  BY StepAddress
<1>3. IInv /\ AddressInv => AddressSpace
  <2>1. ASSUME IInv, AddressInv, cpu.pc = "user"
        PROVE  cpu.by = "sys"
    BY <2>1, CpuFacts DEF IInv, Phases, InBoot, ContextOK, Context, Callers
  <2> QED BY <2>1 DEF AddressInv, AddressSpace, OwnFramePCs
<1> QED BY <1>1, <1>2, <1>3, InvariantHolds, PTL DEF Spec

-----------------------------------------------------------------------------
(* The process limit.  AdmissionLevel(t) is the highest admitted slot.     *)

AdmissionLevel(t) == terminal_process_num[t] + AdmissionLead(ContextOf(t))

(* Who is admitted holds a slot.                                           *)
LEMMA AdmittedWithinSlotsNext ==
  ASSUME IInv' PROVE Admitted' \subseteq Slots'
<1>1. \A t \in Terminals : /\ AdmissionLevel(t)' \in Int /\ Level(t)' \in Int
                           /\ AdmissionLevel(t)' <= Level(t)'
  BY DEF AdmissionLevel, Level, AdmissionLead, PidLead, IInv, TypeOK
<1> QED BY <1>1 DEF Admitted, Slots, AdmissionLevel, Level, Processes, Depths

(* A step that raises no admission level and admits nobody keeps the       *)
(* limit.                                                                  *)
LEMMA AdmittedNotGrown ==
  ASSUME ProcessLimit, IInv, IInv', MaxPid \in Nat,
         \A t \in Terminals : AdmissionLevel(t)' <= AdmissionLevel(t)
  PROVE  ProcessLimit'
<1>1. Admitted' \subseteq Admitted
  <2>1. \A t \in Terminals : AdmissionLevel(t) \in Int /\ AdmissionLevel(t)' \in Int
    BY DEF AdmissionLevel, AdmissionLead, IInv, TypeOK
  <2> QED BY <2>1 DEF Admitted, AdmissionLevel, Processes, Depths
<1>2. IsFiniteSet(Admitted)
  BY ProcessesFinite, FS_Subset DEF Admitted
<1>3. Cardinality(Admitted') <= Cardinality(Admitted) /\ IsFiniteSet(Admitted')
  BY <1>1, <1>2, FS_Subset
<1>4. Cardinality(Admitted) \in Nat /\ Cardinality(Admitted') \in Nat
  BY <1>2, <1>3, FS_CardinalityType
<1> QED BY <1>3, <1>4 DEF ProcessLimit

(* Every step of execute and halt keeps the limit: the check admits only   *)
(* while pid, which counts the caller, is at most MAX_PID.                 *)
LEMMA KernelStepLimit ==
  ASSUME NoRaces, IInv, IInv', ProcessLimit, KernelStep
  PROVE  ProcessLimit'
<1>a. /\ cpu \in Context /\ ContextOK(cpu, cpu.t)
      /\ cpu.pc # "boot" => cpu.t = cur_execute_terminal
      /\ terminal_process_num \in [Terminals -> -1 .. MaxDepth]
      /\ MaxPid \in Nat
  BY CpuFacts, ConstantTypes DEF IInv, TypeOK
<1>u. PICK u \in Terminals : u = cpu.t
  BY CpuFacts
<1>b. /\ cpu'.t = u /\ terminal_esp' = terminal_esp
      /\ \A t \in Terminals \ {u} : terminal_process_num'[t] = terminal_process_num[t]
  BY <1>u, KernelStepOwn
<1>c. \A t \in Terminals \ {u} : AdmissionLevel(t)' <= AdmissionLevel(t)
  <2>1. \A t \in Terminals \ {u} : AdmissionLevel(t)' = AdmissionLevel(t)
    BY <1>u, <1>b DEF AdmissionLevel, ContextOf
  <2>2. \A t \in Terminals : AdmissionLevel(t) \in Int
    BY <1>a DEF AdmissionLevel, AdmissionLead
  <2> QED BY <2>1, <2>2
<1>d. /\ AdmissionLevel(u) = terminal_process_num[u] + AdmissionLead(cpu)
      /\ AdmissionLevel(u)' = terminal_process_num'[u] + AdmissionLead(cpu')
  BY <1>u, <1>b DEF AdmissionLevel, ContextOf
<1>e. ASSUME AdmissionLevel(u)' <= AdmissionLevel(u)
      PROVE  ProcessLimit'
  BY <1>a, <1>c, <1>e, AdmittedNotGrown
<1>f. ASSUME CheckPid PROVE ProcessLimit'
  <2>1. CASE Admissible
    <3>1. pid' <= MaxPid
      BY <1>f, <2>1 DEF CheckPid, Admissible
    <3>2. Admitted' \subseteq Slots'
      BY AdmittedWithinSlotsNext
    <3>3. IsFiniteSet(Slots')
      BY ProcessesFinite, FS_Subset DEF Slots
    <3>4. /\ Cardinality(Admitted') <= Cardinality(Slots') /\ IsFiniteSet(Admitted')
          /\ Cardinality(Slots') = pid' + 1
      BY <3>2, <3>3, FS_Subset DEF IInv, PidAccounting
    <3>5. Cardinality(Admitted') \in Nat /\ pid' \in Int
      BY <3>4, FS_CardinalityType DEF IInv, TypeOK
    <3> QED BY <1>a, <3>1, <3>4, <3>5 DEF ProcessLimit
  <2>2. CASE ~Admissible
    <3>1. AdmissionLead(cpu') = 0 /\ AdmissionLead(cpu) = 0
      BY <1>a, <1>f, <2>2 DEF CheckPid, Goto, AdmissionLead, Context
    <3> QED BY <1>a, <1>d, <1>e, <1>f, <3>1 DEF CheckPid
  <2> QED BY <2>1, <2>2
<1> USE DEF AdmissionLead, ContextOK, ExecPCs, EndingPCs, Context
<1>1. CASE BootTerminal
  BY <1>1, <1>u, <1>a, <1>d, <1>e DEF BootTerminal, Goto
<1>2. CASE IncPid
  BY <1>2, <1>u, <1>a, <1>d, <1>e DEF IncPid, UpdatePid, NoRaces
<1>3. CASE CheckPid
  BY <1>3, <1>f
<1>4. CASE Reject
  BY <1>4, <1>u, <1>a, <1>d, <1>e DEF Reject, UpdatePid, NoRaces, UserContext
<1>5. CASE Grow
  BY <1>5, <1>u, <1>a, <1>d, <1>e DEF Grow, UpdateProcessNum
<1>6. CASE Lookup
  BY <1>6, <1>u, <1>a, <1>d, <1>e DEF Lookup
<1>7. CASE FailPid
  BY <1>7, <1>u, <1>a, <1>d, <1>e DEF FailPid, UpdatePid, NoRaces
<1>8. CASE FailShrink
  BY <1>8, <1>u, <1>a, <1>d, <1>e DEF FailShrink, UpdateProcessNum, UserContext
<1>9. CASE MapProgram
  BY <1>9, <1>u, <1>a, <1>d, <1>e DEF MapProgram, MapUser, Goto
<1>10. CASE LoadProgram
  BY <1>10, <1>u, <1>a, <1>d, <1>e DEF LoadProgram, Goto
<1>11. CASE Enter
  BY <1>11, <1>u, <1>a, <1>d, <1>e DEF Enter, UserContext
<1>12. CASE HaltShell
  BY <1>12, <1>u, <1>a, <1>d, <1>e DEF HaltShell, Goto
<1>13. CASE HaltProgram
  BY <1>13, <1>u, <1>a, <1>d, <1>e DEF HaltProgram
<1>14. CASE HaltPid
  BY <1>14, <1>u, <1>a, <1>d, <1>e DEF HaltPid, UpdatePid, NoRaces
<1>15. CASE HaltShrink
  BY <1>15, <1>u, <1>a, <1>d, <1>e DEF HaltShrink, UpdateProcessNum
<1>16. CASE RemovePage
  BY <1>16, <1>u, <1>a, <1>d, <1>e DEF RemovePage, MapUser, Goto
<1>17. CASE RemapParent
  BY <1>17, <1>u, <1>a, <1>d, <1>e DEF RemapParent, MapUser, Goto
<1>18. CASE ResumeParent
  BY <1>18, <1>u, <1>a, <1>d, <1>e DEF ResumeParent, UserContext
<1>19. CASE RestartPid
  BY <1>19, <1>u, <1>a, <1>d, <1>e DEF RestartPid, UpdatePid, NoRaces
<1>20. CASE RestartShrink
  BY <1>20, <1>u, <1>a, <1>d, <1>e DEF RestartShrink, UpdateProcessNum
<1> QED BY <1>1, <1>2, <1>3, <1>4, <1>5, <1>6, <1>7, <1>8, <1>9, <1>10, <1>11, <1>12, <1>13, <1>14, <1>15, <1>16, <1>17, <1>18, <1>19, <1>20
   DEF KernelStep, Execute, Halt

(* Programs and the timer admit nobody.                                    *)
LEMMA OtherStepLimit ==
  ASSUME NoRaces, IInv, IInv', ProcessLimit, UserStep \/ Tick \/ UNCHANGED vars
  PROVE  ProcessLimit'
<1>0. \A t \in Terminals : AdmissionLevel(t) \in Int
  BY DEF AdmissionLevel, AdmissionLead, IInv, TypeOK
<1>1. SUFFICES \A t \in Terminals : AdmissionLevel(t)' = AdmissionLevel(t)
  BY <1>0, <1>1, ConstantTypes, AdmittedNotGrown
<1>2. CASE UserStep
  <2>1. /\ cpu.pc = "user" /\ cpu'.pc \in {"inc", "halt"} /\ cpu'.t = cpu.t
        /\ UNCHANGED <<terminal_process_num, terminal_esp>>
    BY <1>2, CpuFacts DEF UserStep, SysExecute, SysHalt, Fault, InUserCode, Goto, Context
  <2> QED BY <2>1 DEF AdmissionLevel, AdmissionLead, ContextOf
<1>3. CASE Switch
  BY <1>3, SwitchFacts DEF AdmissionLevel
<1>4. CASE BootShell
  <2>1. /\ terminal_process_num' = terminal_process_num
        /\ cpu'.pc = "boot" /\ cpu'.t = NumTerminals - 2 - pid
        /\ \A t \in Terminals : terminal_esp'[t] = ContextOf(t)
    BY <1>4, BootShellFacts
  <2>2. ASSUME NEW t \in Terminals
        PROVE  AdmissionLead(ContextOf(t))' = AdmissionLead(ContextOf(t))
    BY <1>4, <2>1, BootShellFacts DEF AdmissionLead, ContextOf
  <2> QED BY <2>1, <2>2 DEF AdmissionLevel
<1>5. CASE UNCHANGED vars
  BY <1>5 DEF vars, AdmissionLevel, ContextOf
<1> QED BY <1>2, <1>3, <1>4, <1>5 DEF Tick

(* However the execute calls of the terminals interleave, no more than     *)
(* MAX_PID + 1 processes are ever admitted: the check against pid is made  *)
(* while pid already counts the process itself.                            *)
THEOREM ProcessLimitHolds == ASSUME NoRaces PROVE Spec => []ProcessLimit
<1>1. Init => ProcessLimit
  <2>1. ASSUME Init PROVE Admitted = {}
    BY <2>1 DEF Init, Admitted, AdmissionLead, ContextOf, IdleContext, UserContext,
       Processes, Depths
  <2> QED BY <2>1, FS_EmptySet, ConstantTypes DEF ProcessLimit
<1>2. IInv /\ IInv' /\ ProcessLimit /\ [Next]_vars => ProcessLimit'
  BY KernelStepLimit, OtherStepLimit DEF Next
<1> QED BY <1>1, <1>2, InvariantHolds, PTL DEF Spec

-----------------------------------------------------------------------------
(* The state of a process, from the invariant IInv: what is in the frame   *)
(* of every process, who waits below it, and what its parent is told when  *)
(* it ends.                                                                *)

(* A kernel step leaves the context of every other terminal alone.         *)
LEMMA KernelStepOthers ==
  ASSUME NoRaces, IInv, KernelStep
  PROVE  /\ cpu'.t = cpu.t
         /\ \A t \in Terminals : t = cpu.t => ContextOf(t)' = cpu' /\ ContextOf(t) = cpu
         /\ \A t \in Terminals \ {cpu.t} : ContextOf(t)' = ContextOf(t)
BY KernelStepOwn DEF ContextOf

(* A user step too.                                                        *)
LEMMA UserStepOthers ==
  ASSUME IInv, UserStep
  PROVE  /\ cpu'.t = cpu.t /\ cpu'.k = cpu.k
         /\ \A t \in Terminals : t = cpu.t => ContextOf(t)' = cpu' /\ ContextOf(t) = cpu
         /\ cpu.pc = "user" /\ cpu'.pc \in {"inc", "halt"}
         /\ UNCHANGED <<image, pcb, user_page>>
         /\ \A t \in Terminals \ {cpu.t} : ContextOf(t)' = ContextOf(t)
<1>1. cpu \in Context
  BY CpuFacts
<1>2. /\ cpu.pc = "user"
      /\ UNCHANGED <<image, pcb, user_page, terminal_esp>>
      /\ \/ \E cmd \in Commands : cpu' = [cpu EXCEPT !.pc = "inc", !.cmd = cmd, !.by = "sys"]
         \/ cpu' = [cpu EXCEPT !.pc = "halt"]
         \/ cpu' = [cpu EXCEPT !.pc = "halt", !.exc = TRUE, !.ie = FALSE]
  BY DEF UserStep, SysExecute, SysHalt, Fault, InUserCode, Goto
<1>3. cpu'.t = cpu.t /\ cpu'.k = cpu.k /\ cpu'.pc \in {"inc", "halt"}
  BY <1>1, <1>2 DEF Context
<1> QED BY <1>2, <1>3 DEF ContextOf

-----------------------------------------------------------------------------
(* The programs in memory.                                                 *)

(* A kernel step either loads a program or leaves memory alone, and then   *)
(* no more processes than before count on their frames.                    *)
LEMMA KernelStepImageDepth ==
  ASSUME NoRaces, IInv, KernelStep
  PROVE  \/ LoadProgram
         \/ image' = image /\ ImageDepth(cpu') <= ImageDepth(cpu)
<1>a. /\ cpu \in Context /\ cpu.k \in Int
      /\ ContextOK(cpu, cpu.t)
      /\ cpu.pc # "boot" => /\ cpu.t = cur_execute_terminal
                            /\ Top = cpu.k + Rise(cpu)
  BY CpuFacts
<1> USE DEF ImageDepth, Context
<1>1. CASE BootTerminal
  BY <1>1, <1>a DEF BootTerminal, Goto
<1>2. CASE IncPid
  BY <1>2, <1>a DEF IncPid, UpdatePid, NoRaces
<1>3. CASE CheckPid
  BY <1>3, <1>a DEF CheckPid, Goto
<1>4. CASE Reject
  BY <1>4, <1>a DEF Reject, UpdatePid, NoRaces, UserContext
<1>5. CASE Grow
  BY <1>5, <1>a DEF Grow, UpdateProcessNum
<1>6. CASE Lookup
  BY <1>6, <1>a DEF Lookup
<1>7. CASE FailPid
  BY <1>7, <1>a DEF FailPid, UpdatePid, NoRaces
<1>8. CASE FailShrink
  BY <1>8, <1>a DEF FailShrink, UpdateProcessNum, UserContext
<1>9. CASE MapProgram
  BY <1>9, <1>a DEF MapProgram, MapUser, Goto
<1>10. CASE LoadProgram
  BY <1>10
<1>11. CASE Enter
  <2>1. Top = cpu.k + 1
    BY <1>11, <1>a DEF Enter, Rise, RaisedPCs
  <2> QED BY <1>11, <1>a, <2>1 DEF Enter, UserContext
<1>12. CASE HaltShell
  BY <1>12, <1>a DEF HaltShell, Goto
<1>13. CASE HaltProgram
  BY <1>13, <1>a DEF HaltProgram
<1>14. CASE HaltPid
  BY <1>14, <1>a DEF HaltPid, UpdatePid, NoRaces
<1>15. CASE HaltShrink
  BY <1>15, <1>a DEF HaltShrink, UpdateProcessNum
<1>16. CASE RemovePage
  BY <1>16, <1>a DEF RemovePage, MapUser, Goto
<1>17. CASE RemapParent
  BY <1>17, <1>a DEF RemapParent, MapUser, Goto
<1>18. CASE ResumeParent
  <2>1. cpu.idx = cpu.k
    BY <1>18, <1>a DEF ResumeParent, ContextOK, EndingPCs
  <2> QED BY <1>18, <1>a, <2>1 DEF ResumeParent, UserContext
<1>19. CASE RestartPid
  BY <1>19, <1>a DEF RestartPid, UpdatePid, NoRaces
<1>20. CASE RestartShrink
  BY <1>20, <1>a DEF RestartShrink, UpdateProcessNum
<1> QED BY <1>1, <1>2, <1>3, <1>4, <1>5, <1>6, <1>7, <1>8, <1>9, <1>10, <1>11, <1>12, <1>13, <1>14, <1>15, <1>16, <1>17, <1>18, <1>19, <1>20
   DEF KernelStep, Execute, Halt

(* A kernel step that reaches the load or the entry of a program has just  *)
(* mapped its frame, or leaves it mapped.                                  *)
LEMMA KernelStepLoadPage ==
  ASSUME NoRaces, IInv, LoadPage, KernelStep
  PROVE  LoadPage'
<1>a. /\ cpu \in Context /\ cpu.k \in Int
      /\ ContextOK(cpu, cpu.t)
      /\ cpu.pc # "boot" => /\ cpu.t = cur_execute_terminal
                            /\ Top = cpu.k + Rise(cpu)
  BY CpuFacts
<1>1. CASE MapProgram
  BY <1>1, <1>a DEF MapProgram, MapUser, Goto, LoadPage, Context, Rise, RaisedPCs
<1>2. CASE LoadProgram
  BY <1>2, <1>a DEF LoadProgram, Goto, LoadPage, Context
<1>3. CASE ~MapProgram /\ ~LoadProgram
  <2>1. cpu'.pc \notin {"load", "enter"}
    <3>1. CASE BootTerminal \/ CheckPid \/ HaltShell
      BY <3>1, <1>a DEF BootTerminal, CheckPid, HaltShell, Goto, Context
    <3>2. CASE IncPid \/ FailPid \/ HaltPid \/ RestartPid
      BY <3>2, <1>a DEF IncPid, FailPid, HaltPid, RestartPid, UpdatePid, NoRaces, Context
    <3>3. CASE Reject
      BY <3>3 DEF Reject, UpdatePid, NoRaces, UserContext
    <3>4. CASE Grow \/ HaltShrink \/ RestartShrink
      BY <3>4, <1>a DEF Grow, HaltShrink, RestartShrink, UpdateProcessNum, Context
    <3>5. CASE FailShrink \/ Enter \/ ResumeParent
      BY <3>5 DEF FailShrink, Enter, ResumeParent, UpdateProcessNum, UserContext
    <3>6. CASE Lookup
      BY <3>6, <1>a DEF Lookup, Context
    <3>7. CASE RemovePage \/ RemapParent
      BY <3>7, <1>a DEF RemovePage, RemapParent, MapUser, Goto, Context
    <3>8. CASE HaltProgram
      BY <3>8, <1>a DEF HaltProgram, Context
    <3> QED BY <1>3, <3>1, <3>2, <3>3, <3>4, <3>5, <3>6, <3>7, <3>8
               DEF KernelStep, Execute, Halt
  <2> QED BY <2>1 DEF LoadPage
<1> QED BY <1>1, <1>2, <1>3

(* No step loads a program into the frame of a process that is still       *)
(* there, and none that leads to user code lacks its program.              *)
LEMMA StepImage ==
  ASSUME NoRaces, IInv, ImageInv, [Next]_vars
  PROVE  ImageInv'
<1>a. /\ cpu \in Context /\ cpu.t \in Terminals /\ cpu.k \in -1 .. MaxDepth
      /\ MaxDepth \in Nat
      /\ ContextOK(cpu, cpu.t)
      /\ cpu.pc # "boot" => /\ cpu.t = cur_execute_terminal
                            /\ Top = cpu.k + Rise(cpu)
  BY CpuFacts
<1>1. CASE KernelStep
  <2>1. LoadPage'
    BY <1>1, KernelStepLoadPage DEF ImageInv
  <2>2. /\ \A t \in Terminals : t = cpu.t => ContextOf(t)' = cpu' /\ ContextOf(t) = cpu
        /\ \A t \in Terminals \ {cpu.t} : ContextOf(t)' = ContextOf(t)
    BY <1>1, KernelStepOthers
  <2>3. CASE LoadProgram
    <3>1. /\ image' = [image EXCEPT ![Frame(cpu.t, cpu.k + 1)] = <<cpu.t, cpu.k + 1>>]
          /\ cpu'.pc = "enter" /\ cpu'.k = cpu.k /\ cpu.pc = "load"
      <4>1. Top = cpu.k + 1 /\ cpu.t = cur_execute_terminal
        BY <1>a, <2>3 DEF LoadProgram, Rise, RaisedPCs
      <4>2. user_page = Frame(cpu.t, cpu.k + 1)
        BY <2>3 DEF LoadProgram, ImageInv, LoadPage
      <4> QED BY <1>a, <2>3, <4>1, <4>2 DEF LoadProgram, Goto, Context
    <3>2. cpu.k + 1 \in Depths
      BY <1>a, <3>1 DEF ContextOK, ExecPCs, Depths
    <3>3. Frame(cpu.t, cpu.k + 1) \in Frames /\ image \in [Frames -> Terminals \X (-1 .. MaxDepth)]
      BY <1>a, <3>2, FrameRange DEF IInv, TypeOK
    <3>4. ASSUME NEW p \in Processes, p[2] <= ImageDepth(ContextOf(p[1]))'
          PROVE  image'[Frame(p[1], p[2])] = p
      <4>1. /\ p[1] \in Terminals /\ p[2] \in Depths /\ p = <<p[1], p[2]>>
            /\ p[2] \in Nat /\ cpu.k + 1 \in Nat
            /\ Frame(p[1], p[2]) \in Frames
        BY <3>2, FrameRange DEF Processes, Depths
      <4>2. CASE p = <<cpu.t, cpu.k + 1>>
        BY <3>1, <3>3, <4>2
      <4>3. CASE p # <<cpu.t, cpu.k + 1>>
        <5>1. Frame(p[1], p[2]) # Frame(cpu.t, cpu.k + 1)
          BY <1>a, <4>1, <4>3, FrameInjective
        <5>2. image'[Frame(p[1], p[2])] = image[Frame(p[1], p[2])]
          BY <3>1, <3>3, <4>1, <5>1
        <5>3. p[2] <= ImageDepth(ContextOf(p[1]))
          <6>1. CASE p[1] = cpu.t
            <7>1. p[2] <= cpu.k + 1 /\ p[2] # cpu.k + 1
              BY <2>2, <3>1, <3>4, <4>1, <4>3, <6>1 DEF ImageDepth
            <7>2. p[2] <= cpu.k
              BY <1>a, <4>1, <7>1
            <7> QED BY <2>2, <3>1, <4>1, <6>1, <7>2 DEF ImageDepth
          <6>2. CASE p[1] # cpu.t
            BY <2>2, <3>4, <4>1, <6>2
          <6> QED BY <6>1, <6>2
        <5> QED BY <5>2, <5>3 DEF ImageInv
      <4> QED BY <4>2, <4>3
    <3> QED BY <2>1, <3>4 DEF ImageInv
  <2>4. CASE ~LoadProgram
    <3>1. image' = image /\ ImageDepth(cpu') <= ImageDepth(cpu)
      BY <1>1, <2>4, KernelStepImageDepth
    <3>2. \A t \in Terminals : ContextOf(t)' \in Context /\ ContextOf(t) \in Context
      BY <1>1, StepInvariant DEF IInv, TypeOK, ContextOf, Next
    <3>3. ASSUME NEW p \in Processes, p[2] <= ImageDepth(ContextOf(p[1]))'
          PROVE  image'[Frame(p[1], p[2])] = p
      <4>1. p[1] \in Terminals /\ p[2] \in Nat
        BY DEF Processes, Depths
      <4>2. p[2] <= ImageDepth(ContextOf(p[1]))
        <5>1. CASE p[1] = cpu.t
          <6>1. /\ ImageDepth(cpu) \in Int /\ ImageDepth(cpu') \in Int
                /\ p[2] <= ImageDepth(cpu')
            BY <1>a, <2>2, <3>2, <3>3, <5>1 DEF ImageDepth, Context
          <6>2. p[2] <= ImageDepth(cpu)
            BY <3>1, <4>1, <6>1
          <6> QED BY <2>2, <4>1, <5>1, <6>2
        <5>2. CASE p[1] # cpu.t
          BY <2>2, <3>3, <4>1, <5>2
        <5> QED BY <5>1, <5>2
      <4> QED BY <3>1, <4>2 DEF ImageInv
    <3> QED BY <2>1, <3>3 DEF ImageInv
  <2> QED BY <2>3, <2>4
<1>2. CASE UserStep
  <2>1. \A t \in Terminals : ImageDepth(ContextOf(t))' = ImageDepth(ContextOf(t))
    BY <1>2, UserStepOthers DEF ImageDepth
  <2> QED BY <1>2, <2>1, UserStepOthers DEF ImageInv, LoadPage, Processes
<1>3. CASE Tick /\ Switch
  <2>1. PICK u \in Terminals :
          /\ cpu' = ContextOf(u) /\ cpu'.t = u
          /\ cpu' \in Context /\ ContextOK(ContextOf(u), u)
          /\ user_page' = Frame(u, terminal_process_num[u])
    BY <1>3, SwitchFacts
  <2>2. LoadPage'
    BY <2>1 DEF LoadPage, ContextOK, Rise, RaisedPCs
  <2>3. image' = image /\ \A t \in Terminals : ContextOf(t)' = ContextOf(t)
    BY <1>3, SwitchFacts
  <2> QED BY <2>2, <2>3 DEF ImageInv, Processes
<1>4. CASE Tick /\ BootShell
  <2>1. PICK u \in Terminals :
          /\ cpu'.t = u /\ ContextOf(u)' = cpu'
          /\ \A t \in Terminals \ {u} : ContextOf(t)' = ContextOf(t)
    BY <1>4, BootShellFacts
  <2>2. image' = image /\ cpu'.k = -1 /\ cpu'.pc = "boot"
    BY <1>4, BootShellFacts
  <2>3. ASSUME NEW p \in Processes, p[2] <= ImageDepth(ContextOf(p[1]))'
        PROVE  image'[Frame(p[1], p[2])] = p
    <3>1. p[1] \in Terminals /\ p[2] \in Nat
      BY DEF Processes, Depths
    <3>2. p[1] # u
      BY <2>1, <2>2, <2>3, <3>1 DEF ImageDepth
    <3> QED BY <2>1, <2>2, <2>3, <3>1, <3>2 DEF ImageInv
  <2> QED BY <2>2, <2>3 DEF ImageInv, LoadPage
<1>5. CASE UNCHANGED vars
  BY <1>5 DEF ImageInv, LoadPage, ContextOf, vars
<1> QED BY <1>1, <1>2, <1>3, <1>4, <1>5 DEF Next, Tick

(* The invariant about the programs in memory holds of every reachable     *)
(* state: a program is loaded into the frame of the process that execute   *)
(* makes, and stays there until that process is gone.                      *)
THEOREM ImageInvHolds == ASSUME NoRaces PROVE Spec => []ImageInv
<1>1. Init => ImageInv
  BY DEF Init, ImageInv, LoadPage, ImageDepth, ContextOf, IdleContext, UserContext,
     Processes, Depths
<1>2. IInv /\ ImageInv /\ [Next]_vars => ImageInv'
  BY StepImage
<1> QED BY <1>1, <1>2, InvariantHolds, PTL DEF Spec

(* The frame of every process that runs or waits holds that process's own  *)
(* program, however the execute calls of the terminals interleave.         *)
THEOREM ProgramImageHolds == ASSUME NoRaces PROVE Spec => []ProgramImage
<1>1. ASSUME IInv, ImageInv PROVE ProgramImage
  <2>1. \A t \in Terminals : ContextOf(t).k <= ImageDepth(ContextOf(t))
                             /\ ContextOf(t).k \in Int /\ ImageDepth(ContextOf(t)) \in Int
    BY <1>1 DEF ImageDepth, IInv, TypeOK, Context, ContextOf
  <2>2. ASSUME NEW p \in Processes, p[2] <= ContextOf(p[1]).k
        PROVE  p[2] <= ImageDepth(ContextOf(p[1]))
    BY <2>1, <2>2 DEF Processes, Depths
  <2> QED BY <1>1, <2>2 DEF ImageInv, ProgramImage
<1> QED BY <1>1, InvariantHolds, ImageInvHolds, PTL

-----------------------------------------------------------------------------
(* Who waits below whom.                                                   *)

(* A kernel step writes a pcb only when it enters or ends a process, and   *)
(* otherwise adds no process.                                              *)
LEMMA KernelStepPcb ==
  ASSUME NoRaces, IInv, KernelStep
  PROVE  \/ Enter \/ ResumeParent
         \/ pcb' = pcb /\ cpu'.k = cpu.k
<1>a. /\ cpu \in Context
      /\ ContextOK(cpu, cpu.t)
  BY CpuFacts
<1>1. CASE BootTerminal \/ CheckPid \/ LoadProgram \/ HaltShell \/ HaltProgram
  BY <1>1, <1>a DEF BootTerminal, CheckPid, LoadProgram, HaltShell, HaltProgram, Goto, Context
<1>2. CASE IncPid \/ FailPid \/ HaltPid \/ RestartPid
  BY <1>2, <1>a DEF IncPid, FailPid, HaltPid, RestartPid, UpdatePid, NoRaces, Context
<1>3. CASE Reject
  BY <1>3 DEF Reject, UpdatePid, NoRaces, UserContext
<1>4. CASE FailShrink
  BY <1>4 DEF FailShrink, UpdateProcessNum, UserContext
<1>7. CASE Grow \/ HaltShrink \/ RestartShrink
  BY <1>7, <1>a DEF Grow, HaltShrink, RestartShrink, UpdateProcessNum, Context
<1>5. CASE Lookup
  BY <1>5, <1>a DEF Lookup, Context
<1>6. CASE MapProgram \/ RemovePage \/ RemapParent
  BY <1>6, <1>a DEF MapProgram, RemovePage, RemapParent, MapUser, Goto, Context
<1> QED BY <1>1, <1>2, <1>3, <1>4, <1>5, <1>6, <1>7 DEF KernelStep, Execute, Halt

(* A process is entered above the one that called execute, and forgotten   *)
(* before the one below it runs again.                                     *)
LEMMA StepParent ==
  ASSUME NoRaces, IInv, ParentResumable, [Next]_vars
  PROVE  ParentResumable'
<1>a. /\ cpu \in Context /\ cpu.t \in Terminals /\ cpu.k \in -1 .. MaxDepth
      /\ MaxDepth \in Nat /\ pcb \in [Processes -> Callers \cup {"none"}]
      /\ ContextOK(cpu, cpu.t)
      /\ cpu.pc # "boot" => /\ cpu.t = cur_execute_terminal
                            /\ Top = cpu.k + Rise(cpu)
  BY CpuFacts DEF IInv, TypeOK
<1>b. \A p \in Processes : /\ p[1] \in Terminals /\ p[2] \in Nat
                           /\ p = <<p[1], p[2]>>
  BY DEF Processes, Depths
<1>1. CASE KernelStep
  <2>2. /\ \A t \in Terminals : t = cpu.t => ContextOf(t)' = cpu' /\ ContextOf(t) = cpu
        /\ \A t \in Terminals \ {cpu.t} : ContextOf(t)' = ContextOf(t)
    BY <1>1, KernelStepOthers
  <2>3. CASE Enter
    <3>1. Top = cpu.k + 1 /\ cpu'.k = cpu.k + 1 /\ cpu.t = cur_execute_terminal
      BY <1>a, <2>3 DEF Enter, Rise, RaisedPCs, UserContext
    <3>2. pcb' = [pcb EXCEPT ![<<cpu.t, cpu.k + 1>>] = cpu.by]
      BY <2>3, <3>1 DEF Enter
    <3>3. cpu.k + 1 > 0 => cpu.by = "sys"
      BY <1>a DEF ContextOK, IInv, Phases, InBoot, Context, Callers
    <3>4. ASSUME NEW p \in Processes, 0 < p[2], p[2] <= ContextOf(p[1])'.k
          PROVE  pcb'[p] = "sys"
      <4>1. CASE p = <<cpu.t, cpu.k + 1>>
        BY <1>a, <3>2, <3>3, <3>4, <4>1
      <4>2. CASE p # <<cpu.t, cpu.k + 1>>
        <5>1. p[2] <= ContextOf(p[1]).k
          <6>1. CASE p[1] = cpu.t
            <7>1. p[2] <= cpu.k + 1 /\ p[2] # cpu.k + 1
              BY <1>b, <2>2, <3>1, <3>4, <4>2, <6>1
            <7>2. p[2] <= cpu.k
              BY <1>a, <1>b, <7>1
            <7> QED BY <1>b, <2>2, <6>1, <7>2
          <6>2. CASE p[1] # cpu.t
            BY <1>b, <2>2, <3>4, <6>2
          <6> QED BY <6>1, <6>2
        <5> QED BY <1>a, <3>2, <3>4, <4>2, <5>1 DEF ParentResumable
      <4> QED BY <4>1, <4>2
    <3> QED BY <3>4 DEF ParentResumable
  <2>4. CASE ResumeParent
    <3>1. cpu.idx = cpu.k /\ cpu'.k = cpu.k - 1 /\ cpu.t = cur_execute_terminal
      BY <1>a, <2>4 DEF ResumeParent, ContextOK, EndingPCs, UserContext
    <3>2. pcb' = [pcb EXCEPT ![<<cpu.t, cpu.k>>] = "none"]
      BY <2>4, <3>1 DEF ResumeParent
    <3>3. ASSUME NEW p \in Processes, 0 < p[2], p[2] <= ContextOf(p[1])'.k
          PROVE  pcb'[p] = "sys"
      <4>1. p[2] <= ContextOf(p[1]).k /\ p # <<cpu.t, cpu.k>>
        <5>1. CASE p[1] = cpu.t
          <6>1. p[2] <= cpu.k - 1
            BY <1>b, <2>2, <3>1, <3>3, <5>1
          <6>2. p[2] <= cpu.k /\ p[2] # cpu.k
            BY <1>a, <1>b, <6>1
          <6> QED BY <1>b, <2>2, <5>1, <6>2
        <5>2. CASE p[1] # cpu.t
          BY <1>b, <2>2, <3>3, <5>2
        <5> QED BY <5>1, <5>2
      <4> QED BY <1>a, <3>2, <3>3, <4>1 DEF ParentResumable
    <3> QED BY <3>3 DEF ParentResumable
  <2>5. CASE ~Enter /\ ~ResumeParent
    <3>1. pcb' = pcb /\ \A t \in Terminals : ContextOf(t)'.k = ContextOf(t).k
      BY <1>1, <2>2, <2>5, KernelStepPcb
    <3> QED BY <1>b, <3>1 DEF ParentResumable
  <2> QED BY <2>3, <2>4, <2>5
<1>2. CASE UserStep
  <2>1. pcb' = pcb /\ \A t \in Terminals : ContextOf(t)'.k = ContextOf(t).k
    BY <1>2, UserStepOthers
  <2> QED BY <1>b, <2>1 DEF ParentResumable
<1>3. CASE Tick /\ Switch
  <2>1. pcb' = pcb /\ \A t \in Terminals : ContextOf(t)' = ContextOf(t)
    BY <1>3, SwitchFacts
  <2> QED BY <1>b, <2>1 DEF ParentResumable
<1>4. CASE Tick /\ BootShell
  <2>1. PICK u \in Terminals :
          /\ ContextOf(u)' = cpu'
          /\ \A t \in Terminals \ {u} : ContextOf(t)' = ContextOf(t)
    BY <1>4, BootShellFacts
  <2>2. pcb' = pcb /\ cpu'.k = -1
    BY <1>4, BootShellFacts
  <2>3. ASSUME NEW p \in Processes, 0 < p[2], p[2] <= ContextOf(p[1])'.k
        PROVE  pcb'[p] = "sys"
    <3>1. p[1] # u
      BY <1>b, <2>1, <2>2, <2>3
    <3> QED BY <1>b, <2>1, <2>2, <2>3, <3>1 DEF ParentResumable
  <2> QED BY <2>3 DEF ParentResumable
<1>5. CASE UNCHANGED vars
  BY <1>5 DEF ParentResumable, ContextOf, vars
<1> QED BY <1>1, <1>2, <1>3, <1>4, <1>5 DEF Next, Tick

(* Whenever a process ends, the execute call of the process below it still *)
(* waits for it: halt never jumps into a frame that is gone or that the    *)
(* scheduler made at boot.                                                 *)
THEOREM ParentResumableHolds == ASSUME NoRaces PROVE Spec => []ParentResumable
<1>1. Init => ParentResumable
  BY DEF Init, ParentResumable, ContextOf, IdleContext, UserContext, Processes, Depths
<1>2. IInv /\ ParentResumable /\ [Next]_vars => ParentResumable'
  BY StepParent
<1> QED BY <1>1, <1>2, InvariantHolds, PTL DEF Spec

-----------------------------------------------------------------------------
(* What the parent is told.                                                *)

(* Every step of execute and halt keeps the flag and the status of the     *)
(* executing context in agreement: only the first step of halt reads the   *)
(* flag, and it clears it.                                                 *)
LEMMA KernelStepStatus ==
  ASSUME NoRaces, IInv, StatusInv, KernelStep
  PROVE  /\ exception_flag' = FALSE
         /\ cpu'.pc # "halt"
         /\ StatusOK(cpu)'
<1>a. /\ cpu \in Context /\ cpu.t \in Terminals /\ cpu.k \in Int
      /\ exception_flag \in BOOLEAN
      /\ ContextOK(cpu, cpu.t)
      /\ cpu.pc # "boot" => /\ cpu.t = cur_execute_terminal
                            /\ Top = cpu.k + Rise(cpu)
  BY CpuFacts DEF IInv, TypeOK
<1>b. StatusOK(cpu)
  BY <1>a DEF StatusInv, ContextOf
<1>c. exception_flag <=> cpu.pc = "halt" /\ cpu.exc
  BY DEF StatusInv
<1> USE DEF StatusOK, EndingPCs, Context
<1>1. CASE BootTerminal \/ CheckPid \/ LoadProgram
  BY <1>1, <1>a, <1>b, <1>c DEF BootTerminal, CheckPid, LoadProgram, Goto
<1>2. CASE IncPid \/ FailPid
  BY <1>2, <1>a, <1>b, <1>c DEF IncPid, FailPid, UpdatePid, NoRaces
<1>3. CASE Reject
  BY <1>3, <1>a, <1>c DEF Reject, UpdatePid, NoRaces, UserContext
<1>4. CASE Grow
  BY <1>4, <1>a, <1>b, <1>c DEF Grow, UpdateProcessNum
<1>5. CASE Lookup
  BY <1>5, <1>a, <1>b, <1>c DEF Lookup
<1>6. CASE FailShrink
  BY <1>6, <1>a, <1>c DEF FailShrink, UpdateProcessNum, UserContext
<1>7. CASE MapProgram
  BY <1>7, <1>a, <1>b, <1>c DEF MapProgram, MapUser, Goto
<1>8. CASE Enter
  BY <1>8, <1>a, <1>c DEF Enter, UserContext
<1>9. CASE HaltShell
  <2>1. Top = cpu.k /\ cpu.k > 0
    BY <1>9, <1>a DEF HaltShell, ContextOK, Rise, RaisedPCs, SunkPCs
  <2> QED BY <1>9, <1>a, <2>1 DEF HaltShell
<1>10. CASE HaltProgram
  <2>1. \E s \in {"exception", "own"} :
          /\ cpu' = [cpu EXCEPT !.pc = "dec", !.idx = Top, !.status = s]
          /\ s = "exception" <=> exception_flag
    BY <1>10, <1>a DEF HaltProgram
  <2>2. exception_flag' = FALSE /\ (exception_flag <=> cpu.exc)
    BY <1>10, <1>c DEF HaltProgram
  <2> QED BY <1>a, <2>1, <2>2
<1>11. CASE HaltPid \/ RestartPid
  BY <1>11, <1>a, <1>b, <1>c DEF HaltPid, RestartPid, UpdatePid, NoRaces, ContextOK, ExecPCs
<1>12. CASE HaltShrink
  BY <1>12, <1>a, <1>b, <1>c DEF HaltShrink, UpdateProcessNum
<1>13. CASE RemovePage \/ RemapParent
  BY <1>13, <1>a, <1>b, <1>c DEF RemovePage, RemapParent, MapUser, Goto
<1>14. CASE ResumeParent
  BY <1>14, <1>a, <1>c DEF ResumeParent, UserContext
<1>15. CASE RestartShrink
  BY <1>15, <1>a DEF RestartShrink, UpdateProcessNum, ContextOK, ExecPCs
<1> QED BY <1>1, <1>2, <1>3, <1>4, <1>5, <1>6, <1>7, <1>8, <1>9, <1>10, <1>11, <1>12, <1>13, <1>14, <1>15
   DEF KernelStep, Execute, Halt

(* The exception handler runs with interrupts disabled until halt has read *)
(* the flag: no other terminal's halt can take it.                         *)
LEMMA StepStatus ==
  ASSUME NoRaces, IInv, StatusInv, [Next]_vars
  PROVE  StatusInv'
<1>a. /\ cpu \in Context /\ cpu.t \in Terminals
      /\ exception_flag \in BOOLEAN
  BY CpuFacts DEF IInv, TypeOK
<1>b. StatusOK(cpu)
  BY <1>a DEF StatusInv, ContextOf
<1>1. CASE KernelStep
  <2>1. /\ cpu'.t = cpu.t
        /\ \A t \in Terminals : t = cpu.t => ContextOf(t)' = cpu' /\ ContextOf(t) = cpu
        /\ \A t \in Terminals \ {cpu.t} : ContextOf(t)' = ContextOf(t)
    BY <1>1, KernelStepOthers
  <2>2. ASSUME NEW t \in Terminals
        PROVE  /\ StatusOK(ContextOf(t))'
               /\ (ContextOf(t).exc /\ ContextOf(t).pc = "halt")' => t = cpu'.t /\ ~ContextOf(t)'.ie
    <3>1. CASE t = cpu.t
      BY <1>1, <2>1, <3>1, KernelStepStatus DEF StatusOK
    <3>2. CASE t # cpu.t
      BY <2>1, <3>2 DEF StatusInv, StatusOK
    <3> QED BY <3>1, <3>2
  <2>3. exception_flag' = FALSE /\ cpu'.pc # "halt"
    BY <1>1, KernelStepStatus
  <2> QED BY <2>2, <2>3 DEF StatusInv
<1>2. CASE UserStep
  <2>1. /\ cpu'.t = cpu.t
        /\ \A t \in Terminals : t = cpu.t => ContextOf(t)' = cpu' /\ ContextOf(t) = cpu
        /\ \A t \in Terminals \ {cpu.t} : ContextOf(t)' = ContextOf(t)
        /\ cpu.pc = "user"
    BY <1>2, UserStepOthers
  <2>2. /\ ~cpu.exc /\ cpu.status = "none" /\ exception_flag = FALSE
    BY <1>a, <1>b, <2>1 DEF StatusOK, StatusInv, EndingPCs
  <2>3. /\ cpu'.status = "none"
        /\ cpu'.exc => cpu'.pc = "halt" /\ ~cpu'.ie
        /\ exception_flag' <=> cpu'.exc
    <3>1. ASSUME NEW cmd \in Commands, SysExecute(cmd)
          PROVE  cpu'.status = "none" /\ cpu'.exc = FALSE /\ exception_flag' = FALSE
      BY <1>a, <2>2, <3>1 DEF SysExecute, Context
    <3>2. CASE SysHalt
      BY <1>a, <2>2, <3>2 DEF SysHalt, Goto, Context
    <3>3. CASE Fault
      BY <1>a, <2>2, <3>3 DEF Fault, Context
    <3> QED BY <1>2, <3>1, <3>2, <3>3 DEF UserStep
  <2>4. ASSUME NEW t \in Terminals
        PROVE  /\ StatusOK(ContextOf(t))'
               /\ (ContextOf(t).exc /\ ContextOf(t).pc = "halt")' => t = cpu'.t /\ ~ContextOf(t)'.ie
    <3>1. CASE t = cpu.t
      BY <2>1, <2>3, <3>1 DEF StatusOK, EndingPCs
    <3>2. CASE t # cpu.t
      BY <2>1, <3>2 DEF StatusInv, StatusOK
    <3> QED BY <3>1, <3>2
  <2> QED BY <2>3, <2>4 DEF StatusInv
<1>3. CASE Tick
  <2>1. cpu.ie
    BY <1>3 DEF Tick, BootShell, Switch
  <2>2. exception_flag = FALSE /\ exception_flag' = exception_flag
    BY <1>3, <1>a, <2>1 DEF StatusInv, ContextOf, Tick, BootShell, Switch
  <2>3. \A t \in Terminals : ~(ContextOf(t).exc /\ ContextOf(t).pc = "halt")
    BY <1>a, <2>1 DEF StatusInv, ContextOf
  <2>4. CASE Switch
    <3>1. /\ \A t \in Terminals : ContextOf(t)' = ContextOf(t)
          /\ \E u \in Terminals : cpu' = ContextOf(u)
      BY <2>4, SwitchFacts
    <3> QED BY <2>2, <2>3, <3>1 DEF StatusInv, StatusOK
  <2>5. CASE BootShell
    <3>1. PICK u \in Terminals :
            /\ ContextOf(u)' = cpu'
            /\ \A t \in Terminals \ {u} : ContextOf(t)' = ContextOf(t)
      BY <2>5, BootShellFacts
    <3>2. cpu'.pc = "boot" /\ cpu'.exc = FALSE /\ cpu'.status = "none"
      BY <2>5 DEF BootShell, BootContext, UserContext
    <3>3. ASSUME NEW t \in Terminals
          PROVE  StatusOK(ContextOf(t))' /\ ~(ContextOf(t).exc /\ ContextOf(t).pc = "halt")'
      <4>1. CASE t = u
        BY <3>1, <3>2, <4>1 DEF StatusOK
      <4>2. CASE t # u
        BY <2>3, <3>1, <4>2 DEF StatusInv, StatusOK
      <4> QED BY <4>1, <4>2
    <3> QED BY <2>2, <3>2, <3>3 DEF StatusInv
  <2> QED BY <1>3, <2>4, <2>5 DEF Tick
<1>4. CASE UNCHANGED vars
  BY <1>4 DEF StatusInv, StatusOK, ContextOf, vars
<1> QED BY <1>1, <1>2, <1>3, <1>4 DEF Next

(* The parent of a program is told "exception" exactly when an exception   *)
(* handler ended it, although the flag is one global for all terminals.    *)
THEOREM ExceptionStatusHolds == ASSUME NoRaces PROVE Spec => []ExceptionStatus
<1>1. Init => StatusInv
  BY DEF Init, StatusInv, StatusOK, ContextOf, IdleContext, UserContext
<1>2. IInv /\ StatusInv /\ [Next]_vars => StatusInv'
  BY StepStatus
<1>3. StatusInv => ExceptionStatus
  BY DEF StatusInv, StatusOK, ExceptionStatus
<1> QED BY <1>1, <1>2, <1>3, InvariantHolds, PTL DEF Spec

(* No error path of execute and no end of a program takes the last process *)
(* of a terminal away.                                                     *)
THEOREM TerminalKeepsShellHolds == ASSUME NoRaces PROVE Spec => []TerminalKeepsShell
<1>1. ASSUME IInv PROVE TerminalKeepsShell
  <2>1. ASSUME NEW t \in Terminals, ContextOf(t).pc = "user"
        PROVE  ContextOf(t).k >= 0
    <3>1. CASE cpu.by = "boot"
      <4>1. CASE t = cpu.t
        BY <1>1, <2>1, <3>1, <4>1 DEF IInv, Phases, InBoot, ContextOf
      <4>2. CASE t # cpu.t
        BY <1>1, <2>1, <3>1, <4>2, CpuFacts DEF IInv, Phases, InBoot, ContextOf, Terminals
      <4> QED BY <4>1, <4>2
    <3>2. CASE cpu.by = "sys"
      BY <1>1, <2>1, <3>2, ConstantTypes
         DEF IInv, TypeOK, Phases, BetweenBoots, AllBooted
    <3> QED BY <1>1, <3>1, <3>2, CpuFacts DEF ContextOK, Context, Callers
  <2>2. ASSUME NEW t \in Terminals, ContextOf(t).pc = "user"
        PROVE  terminal_process_num[t] >= 0
    <3>1. terminal_process_num[t] = ContextOf(t).k + 0 /\ ContextOf(t).k \in Int
      BY <1>1, <2>2 DEF IInv, TypeOK, ContextsOK, ContextOK, Rise, RaisedPCs, SunkPCs,
         ContextOf, Context
    <3> QED BY <2>1, <2>2, <3>1
  <2> QED BY <2>2 DEF TerminalKeepsShell
<1> QED BY <1>1, InvariantHolds, PTL

(* With the timer off while execute looks a command up, the invariant      *)
(* about what is mapped at each program counter holds.                     *)
THEOREM AddressInvHolds ==
  ASSUME NoRaces, ~TickInLookup PROVE Spec => []AddressInv
<1>1. Init => AddressInv
  BY DEF Init, AddressInv, LoadPage, OwnFramePCs, IdleContext, UserContext, LookupPCs
<1>2. IInv /\ AddressInv /\ [Next]_vars => AddressInv'
  BY StepAddress
<1> QED BY <1>1, <1>2, InvariantHolds, PTL DEF Spec

-----------------------------------------------------------------------------
(* Processes implements ProcessStacks, step by step: every step of the     *)
(* scheduler, of execute and of halt is a step of the abstract stacks or   *)
(* leaves them alone, for every number of terminals and every limit.       *)


(* The refinement mapping, as Processes gives it to ProcessStacks.         *)
Depth == [t \in Terminals |-> DepthOf(ContextOf(t))]

(* Expanded, the operators of ProcessStacks are about Depth.               *)
LEMMA StacksDefs ==
  /\ Stacks!Terminals = Terminals
  /\ Stacks!Booted <=> \A t \in Terminals : Depth[t] >= 0
  /\ Stacks!Live = {p \in Processes : p[2] <= DepthOf(ContextOf(p[1]))}
  /\ \A S : Stacks!Cardinality(S) = Cardinality(S)
<1>1. Stacks!Terminals = Terminals
  BY DEF Stacks!Terminals, Terminals
<1>2. Stacks!Booted <=> \A t \in Terminals : Depth[t] >= 0
  BY <1>1 DEF Stacks!Booted, Depth
<1>3. Stacks!Live = {p \in Processes : p[2] <= DepthOf(ContextOf(p[1]))}
  BY <1>1 DEF Stacks!Live, Processes, Depths
<1>4. \A S : Stacks!Cardinality(S) = Cardinality(S)
  BY DEF Stacks!Cardinality, Cardinality
<1> QED BY <1>1, <1>2, <1>3, <1>4

(* The depth of a terminal is never above its highest admitted slot.       *)
LEMMA DepthAdmitted ==
  ASSUME IInv, NEW t \in Terminals
  PROVE  /\ DepthOf(ContextOf(t)) \in Int
         /\ terminal_process_num[t] + AdmissionLead(ContextOf(t)) \in Int
         /\ DepthOf(ContextOf(t))
              <= terminal_process_num[t] + AdmissionLead(ContextOf(t))
<1> DEFINE c == ContextOf(t)
<1>1. c \in Context /\ c.k \in Int /\ ContextOK(c, t)
  BY DEF IInv, TypeOK, Context, ContextOf, ContextsOK
<1>2. terminal_process_num[t] = c.k + Rise(c) /\ c.pc \in PCs
  BY <1>1 DEF ContextOK, Context
<1> HIDE DEF c
<1>3. DepthOf(c) \in Int /\ Rise(c) \in Int /\ AdmissionLead(c) \in Int
  BY <1>1 DEF DepthOf, Rise, AdmissionLead
<1>4. DepthOf(c) <= c.k + Rise(c) + AdmissionLead(c)
  <2>1. CASE c.pc \in {"shrink", "unmap", "remap", "resume"}
    BY <1>1, <2>1 DEF DepthOf, Rise, AdmissionLead, RaisedPCs, SunkPCs
  <2>2. CASE c.pc \notin {"shrink", "unmap", "remap", "resume", "restartShrink"}
    BY <1>1, <2>2 DEF DepthOf, Rise, AdmissionLead, RaisedPCs, SunkPCs
  <2>3. CASE c.pc = "restartShrink"
    BY <1>1, <2>3 DEF ContextOK, ExecPCs, EndingPCs
  <2> QED BY <2>1, <2>2, <2>3
<1> QED BY <1>1, <1>2, <1>3, <1>4 DEF c

(* A process may be entered only below the limit: it is admitted and not   *)
(* yet alive.                                                              *)
LEMMA LimitBeforeEnter ==
  ASSUME IInv, ProcessLimit, cpu.pc = "enter"
  PROVE  Cardinality(Stacks!Live) < MaxPid + 1
<1>1. /\ cpu.t \in Terminals /\ cpu.k \in -1 .. MaxDepth /\ MaxDepth \in Nat
      /\ ContextOK(cpu, cpu.t)
  BY CpuFacts
<1>2. cpu.k + 1 \in Depths /\ terminal_process_num[cpu.t] = cpu.k + 1
  BY <1>1 DEF ContextOK, ExecPCs, Depths, Rise, RaisedPCs
<1> DEFINE new == <<cpu.t, cpu.k + 1>>
<1>3. new \in Processes /\ new[1] = cpu.t /\ new[2] = cpu.k + 1
  BY <1>1, <1>2 DEF Processes
<1>4. ContextOf(cpu.t) = cpu /\ DepthOf(cpu) = cpu.k /\ AdmissionLead(cpu) = 0
  BY DEF ContextOf, DepthOf, AdmissionLead
<1>5. new \notin Stacks!Live
  BY <1>1, <1>3, <1>4, StacksDefs
<1>6. Stacks!Live \cup {new} \subseteq Admitted
  <2>1. new \in Admitted
    BY <1>1, <1>2, <1>3, <1>4 DEF Admitted
  <2>2. ASSUME NEW p \in Stacks!Live
        PROVE  p \in Admitted
    <3>1. p \in Processes /\ p[1] \in Terminals /\ p[2] \in Int
          /\ p[2] <= DepthOf(ContextOf(p[1]))
      BY StacksDefs DEF Processes, Depths
    <3>2. p[2] <= terminal_process_num[p[1]] + AdmissionLead(ContextOf(p[1]))
      BY <3>1, DepthAdmitted
    <3> QED BY <3>1, <3>2 DEF Admitted
  <2> QED BY <2>1, <2>2
<1>7. IsFiniteSet(Admitted) /\ IsFiniteSet(Stacks!Live)
  <2>1. Admitted \subseteq Processes /\ Stacks!Live \subseteq Processes
    BY StacksDefs DEF Admitted
  <2> QED BY <2>1, ProcessesFinite, FS_Subset
<1>8. Cardinality(Stacks!Live \cup {new}) = Cardinality(Stacks!Live) + 1
  BY <1>5, <1>7, FS_AddElement
<1>9. Cardinality(Stacks!Live \cup {new}) <= Cardinality(Admitted)
  BY <1>6, <1>7, FS_Subset
<1>10. /\ Cardinality(Stacks!Live) \in Nat /\ Cardinality(Admitted) \in Nat
       /\ MaxPid \in Nat
  BY <1>7, FS_CardinalityType, ConstantTypes
<1> QED BY <1>8, <1>9, <1>10 DEF ProcessLimit

(* Outside the boot branches every terminal has its shell, as soon as      *)
(* somebody is inside execute or halt.                                     *)
LEMMA BootedBeforeCalls ==
  ASSUME IInv, cpu.pc \notin {"idle", "user"}, cpu.by = "sys"
  PROVE  AllBooted
<1>1. pid \in Int /\ NumTerminals \in Int /\ cpu.t \in Terminals
  BY ConstantTypes, CpuFacts DEF IInv, TypeOK
<1>2. ~BetweenBoots
  BY <1>1, CpuFacts DEF BetweenBoots, ContextOf
<1> QED BY <1>1, <1>2 DEF IInv, Phases

(* When all shells run, the stacks are booted.                             *)
LEMMA StacksBooted ==
  ASSUME IInv, AllBooted
  PROVE  Stacks!Booted
<1>1. ASSUME NEW t \in Terminals
      PROVE  DepthOf(ContextOf(t)) >= 0
  <2>1. ContextOf(t).k \in Int /\ ContextOf(t).k >= 0 /\ ContextOK(ContextOf(t), t)
    BY DEF IInv, TypeOK, Context, ContextOf, AllBooted, ContextsOK
  <2> QED BY <2>1 DEF DepthOf, ContextOK, EndingPCs
<1> QED BY <1>1, StacksDefs DEF Depth

(* A step that changes the context of one terminal changes its stack only. *)
LEMMA DepthStep ==
  ASSUME cpu'.t = cpu.t, cpu.t \in Terminals,
         \A t \in Terminals : t = cpu.t => ContextOf(t)' = cpu' /\ ContextOf(t) = cpu,
         \A t \in Terminals \ {cpu.t} : ContextOf(t)' = ContextOf(t)
  PROVE  /\ Depth' = [Depth EXCEPT ![cpu.t] = DepthOf(cpu')]
         /\ DepthOf(cpu') = DepthOf(cpu) => Depth' = Depth
<1>1. Depth' = [t \in Terminals |-> DepthOf(ContextOf(t)')]
  BY DEF Depth, DepthOf
<1>2. \A t \in Terminals \ {cpu.t} : DepthOf(ContextOf(t)') = DepthOf(ContextOf(t))
  BY DEF DepthOf
<1>3. DepthOf(ContextOf(cpu.t)) = DepthOf(cpu)
  BY DEF DepthOf
<1>4. \A t \in Terminals : t = cpu.t => DepthOf(ContextOf(t)') = DepthOf(cpu')
  BY DEF DepthOf
<1> QED BY <1>1, <1>2, <1>3, <1>4 DEF Depth

(* The steps of execute and halt that no terminal's stack shows.           *)
LEMMA HiddenKernelStep ==
  ASSUME NoRaces, IInv, KernelStep, ~BootTerminal, ~Enter, ~HaltPid
  PROVE  DepthOf(cpu') = DepthOf(cpu) /\ cur_execute_terminal' = cur_execute_terminal
<1>a. /\ cpu \in Context /\ cpu.k \in Int
      /\ ContextOK(cpu, cpu.t)
  BY CpuFacts
<1> USE DEF DepthOf, Context
<1>1. CASE CheckPid \/ LoadProgram \/ HaltShell \/ HaltProgram
  BY <1>1, <1>a DEF CheckPid, LoadProgram, HaltShell, HaltProgram, Goto
<1>2. CASE IncPid \/ FailPid
  BY <1>2, <1>a DEF IncPid, FailPid, UpdatePid, NoRaces
<1>3. CASE Reject
  BY <1>3, <1>a DEF Reject, UpdatePid, NoRaces, UserContext
<1>4. CASE FailShrink
  BY <1>4, <1>a DEF FailShrink, UpdateProcessNum, UserContext
<1>5. CASE Lookup
  BY <1>5, <1>a DEF Lookup
<1>6. CASE MapProgram \/ RemovePage \/ RemapParent
  BY <1>6, <1>a DEF MapProgram, RemovePage, RemapParent, MapUser, Goto
<1>7. CASE Grow \/ HaltShrink
  BY <1>7, <1>a DEF Grow, HaltShrink, UpdateProcessNum
<1>8. CASE ResumeParent
  <2>1. cpu.idx = cpu.k /\ cpu.pc = "resume"
    BY <1>8, <1>a DEF ResumeParent, ContextOK, EndingPCs
  <2> QED BY <1>8, <2>1 DEF ResumeParent, UserContext
<1>9. CASE RestartPid \/ RestartShrink
  BY <1>9, <1>a DEF RestartPid, RestartShrink, UpdatePid, UpdateProcessNum, ContextOK,
     ExecPCs, EndingPCs
<1> QED BY <1>1, <1>2, <1>3, <1>4, <1>5, <1>6, <1>7, <1>8, <1>9
        DEF KernelStep, Execute, Halt

(* The boot branch gives the turn to the last terminal without a shell.    *)
LEMMA BootTerminalStep ==
  ASSUME IInv, BootTerminal
  PROVE  Stacks!TurnToBoot
<1>1. InBoot
  BY CpuFacts DEF BootTerminal, ContextOK, IInv, Phases
<1>2. cpu \in Context /\ cpu.t \in Terminals /\ NumTerminals \in Nat
  BY CpuFacts, ConstantTypes
<1>3. /\ cur_execute_terminal' = cpu.t
      /\ terminal_esp' = terminal_esp
      /\ cpu.pc = "boot" /\ cpu' = [cpu EXCEPT !.pc = "inc"]
  BY DEF BootTerminal, Goto
<1>4. cpu'.t = cpu.t /\ DepthOf(cpu') = DepthOf(cpu)
  BY <1>2, <1>3 DEF Context, DepthOf
<1>5. Depth' = Depth
  BY <1>2, <1>3, <1>4, DepthStep DEF ContextOf
<1>6. ASSUME NEW u \in Terminals
      PROVE  Depth[u] = -1 <=> u <= cpu.t
  <2>1. CASE u = cpu.t
    BY <1>1, <1>2, <1>3, <2>1 DEF Depth, ContextOf, DepthOf, InBoot, Terminals
  <2>2. CASE u < cpu.t
    <3>1. ContextOf(u).pc = "idle" /\ ContextOK(ContextOf(u), u)
      BY <1>1, <1>2, <2>2 DEF InBoot, ContextOf, IInv, ContextsOK, Terminals
    <3>2. ContextOf(u).k = -1
      BY <3>1 DEF ContextOK
    <3> QED BY <1>2, <2>2, <3>1, <3>2 DEF Depth, DepthOf, Terminals
  <2>3. CASE u > cpu.t
    <3>1. ContextOf(u).pc = "user" /\ ContextOf(u).k = 0
      BY <1>1, <1>2, <2>3 DEF InBoot, ContextOf, Terminals
    <3> QED BY <1>2, <2>3, <3>1 DEF Depth, DepthOf, Terminals
  <2> QED BY <1>2, <2>1, <2>2, <2>3 DEF Terminals
<1> QED BY <1>2, <1>3, <1>5, <1>6, StacksDefs DEF Stacks!TurnToBoot, Depth

(* The last step of execute starts a shell or puts a process on the stack. *)
LEMMA EnterStep ==
  ASSUME NoRaces, IInv, ProcessLimit, Enter
  PROVE  Stacks!StartShell \/ Stacks!Spawn
<1>1. /\ cpu \in Context /\ cpu.t \in Terminals /\ cpu.k \in -1 .. MaxDepth
      /\ MaxDepth \in Nat /\ ContextOK(cpu, cpu.t)
      /\ cpu.pc = "enter" /\ cpu.t = cur_execute_terminal
      /\ Top = cpu.k + 1
  BY CpuFacts DEF Enter, Rise, RaisedPCs
<1>2. /\ cpu' = UserContext(cpu.t, cpu.k + 1)
      /\ UNCHANGED <<cur_execute_terminal, terminal_esp>>
  BY <1>1 DEF Enter
<1>3. cpu'.t = cpu.t /\ DepthOf(cpu') = cpu.k + 1 /\ DepthOf(cpu) = cpu.k
  BY <1>1, <1>2 DEF UserContext, DepthOf
<1>4. Depth' = [Depth EXCEPT ![cpu.t] = cpu.k + 1] /\ Depth[cpu.t] = cpu.k
  <2>1. Depth' = [Depth EXCEPT ![cpu.t] = DepthOf(cpu')]
    BY <1>1, <1>2, <1>3, DepthStep DEF ContextOf
  <2> QED BY <1>1, <1>3, <2>1 DEF Depth, ContextOf
<1>5. Cardinality(Stacks!Live) < MaxPid + 1
  BY <1>1, LimitBeforeEnter
<1>6. CASE cpu.by = "boot"
  <2>1. cpu.k = -1 /\ cpu.k + 1 = 0
    BY <1>6 DEF IInv, Phases, InBoot
  <2> QED BY <1>1, <1>2, <1>4, <1>5, <2>1, StacksDefs DEF Stacks!StartShell, Depth
<1>7. CASE cpu.by = "sys"
  <2>1. Stacks!Booted
    BY <1>1, <1>7, BootedBeforeCalls, StacksBooted
  <2> QED BY <1>1, <1>2, <1>4, <1>5, <2>1, StacksDefs DEF Stacks!Spawn, Depth
<1> QED BY <1>1, <1>6, <1>7 DEF ContextOK, Context, Callers

(* The step of halt that gives the pid back takes the top process away.    *)
LEMMA HaltPidStep ==
  ASSUME NoRaces, IInv, HaltPid
  PROVE  Stacks!Finish
<1>1. /\ cpu \in Context /\ cpu.t \in Terminals /\ cpu.k \in -1 .. MaxDepth
      /\ MaxDepth \in Nat /\ ContextOK(cpu, cpu.t)
      /\ cpu.pc = "dec" /\ cpu.t = cur_execute_terminal
  BY CpuFacts DEF HaltPid, UpdatePid
<1>2. /\ cpu' = [cpu EXCEPT !.pc = "shrink"]
      /\ UNCHANGED <<cur_execute_terminal, terminal_esp>>
  BY DEF HaltPid, UpdatePid, NoRaces
<1>3. cpu'.t = cpu.t /\ DepthOf(cpu') = cpu.k - 1 /\ DepthOf(cpu) = cpu.k /\ cpu.k > 0
  BY <1>1, <1>2 DEF Context, DepthOf, ContextOK, EndingPCs
<1>4. Depth' = [Depth EXCEPT ![cpu.t] = cpu.k - 1] /\ Depth[cpu.t] = cpu.k
  <2>1. Depth' = [Depth EXCEPT ![cpu.t] = DepthOf(cpu')]
    BY <1>1, <1>2, <1>3, DepthStep DEF ContextOf
  <2> QED BY <1>1, <1>3, <2>1 DEF Depth, ContextOf
<1>5. Stacks!Booted
  <2>1. cpu.by = "sys"
    BY <1>1 DEF ContextOK, IInv, Phases, InBoot, Context, Callers
  <2> QED BY <1>1, <2>1, BootedBeforeCalls, StacksBooted
<1> QED BY <1>1, <1>2, <1>3, <1>4, <1>5 DEF Stacks!Finish, Depth

(* Every step of Processes is a step of ProcessStacks or changes neither   *)
(* the stacks nor the turn.                                                *)
LEMMA RefinementStep ==
  ASSUME NoRaces, IInv, ProcessLimit, [Next]_vars
  PROVE  [Stacks!Next]_<<Depth, cur_execute_terminal>>
<1>a. cpu.t \in Terminals
  BY CpuFacts
<1> DEFINE Stutter == UNCHANGED <<Depth, cur_execute_terminal>>
<1>1. CASE KernelStep
  <2>1. CASE BootTerminal
    BY <2>1, BootTerminalStep DEF Stacks!Next
  <2>2. CASE Enter
    BY <2>2, EnterStep DEF Stacks!Next
  <2>3. CASE HaltPid
    BY <2>3, HaltPidStep DEF Stacks!Next
  <2>4. CASE ~BootTerminal /\ ~Enter /\ ~HaltPid
    <3>1. DepthOf(cpu') = DepthOf(cpu) /\ cur_execute_terminal' = cur_execute_terminal
      BY <1>1, <2>4, HiddenKernelStep
    <3>2. Depth' = Depth
      BY <1>1, <1>a, <3>1, KernelStepOthers, DepthStep
    <3> QED BY <3>1, <3>2
  <2> QED BY <2>1, <2>2, <2>3, <2>4
<1>2. CASE UserStep
  <2>1. DepthOf(cpu') = DepthOf(cpu)
    BY <1>2, UserStepOthers DEF DepthOf
  <2>2. Depth' = Depth
    BY <1>2, <1>a, <2>1, UserStepOthers, DepthStep
  <2>3. cur_execute_terminal' = cur_execute_terminal
    BY <1>2 DEF UserStep, SysExecute, SysHalt, Fault
  <2> QED BY <2>2, <2>3
<1>3. CASE Switch
  <2>1. AllBooted /\ \A t \in Terminals : ContextOf(t)' = ContextOf(t)
    BY <1>3, SwitchFacts
  <2>2. Depth' = Depth
    BY <2>1 DEF Depth, DepthOf
  <2>3. cur_execute_terminal' = (cur_execute_terminal + 1) % NumTerminals
    BY <1>3 DEF Switch, SwitchTo, NextTerminal
  <2> QED BY <2>1, <2>2, <2>3, StacksBooted DEF Stacks!Next, Stacks!NextTurn, Depth
<1>4. CASE BootShell
  <2>1. PICK u \in Terminals :
          /\ ContextOf(u)' = cpu' /\ ContextOf(u).pc = "idle"
          /\ \A t \in Terminals \ {u} : ContextOf(t)' = ContextOf(t)
    BY <1>4, BootShellFacts
  <2>2. cpu'.pc = "boot" /\ cpu'.k = -1 /\ cur_execute_terminal' = cur_execute_terminal
    BY <1>4, BootShellFacts
  <2>3. ContextOf(u).k = -1
    BY <2>1 DEF IInv, ContextsOK, ContextOK
  <2>4. \A t \in Terminals : DepthOf(ContextOf(t)') = DepthOf(ContextOf(t))
    BY <2>1, <2>2, <2>3 DEF DepthOf
  <2>5. Depth' = Depth
    BY <2>4 DEF Depth, DepthOf
  <2> QED BY <2>2, <2>5
<1>5. CASE UNCHANGED vars
  BY <1>5 DEF Depth, DepthOf, ContextOf, vars
<1> QED BY <1>1, <1>2, <1>3, <1>4, <1>5 DEF Next, Tick

(* At power-on no terminal has a process.                                  *)
LEMMA RefinementInit == Init => Stacks!Init
BY ConstantTypes, StacksDefs DEF Init, Stacks!Init, DepthOf, ContextOf, IdleContext,
   UserContext

(* execute, halt, the exception handler and the scheduler implement one    *)
(* stack of processes for each terminal: only the terminal whose turn it   *)
(* is changes its stack, by one process at its top, the shells start one   *)
(* after another and stay, and never more than MAX_PID + 1 processes live. *)
THEOREM StacksSpecHolds == ASSUME NoRaces PROVE Spec => StacksSpec
<1>1. IInv /\ ProcessLimit /\ [Next]_vars
        => [Stacks!Next]_<<[t \in Terminals |-> DepthOf(ContextOf(t))], cur_execute_terminal>>
  BY RefinementStep DEF Depth
<1> QED BY <1>1, RefinementInit, InvariantHolds, ProcessLimitHolds, PTL
        DEF Spec, StacksSpec, Stacks!Spec

=============================================================================
