----------------------------- MODULE Processes -----------------------------
(***************************************************************************)
(* Process management of FuzzyOS: execute and halt (system_call.c), the    *)
(* round-robin scheduler that the PIT interrupt runs (scheduler.c, pit.c)  *)
(* and the exception handler that ends a program (create_handler.c).       *)
(*                                                                         *)
(* Every terminal owns a stack of processes: its shell at depth 0 and the  *)
(* programs started on top of it.  One CPU executes one context at a time; *)
(* a system call runs with interrupts enabled (systemcall.S), so the timer *)
(* may stop it between any two of the steps below and run another          *)
(* terminal, while an exception handler runs with interrupts disabled.     *)
(*                                                                         *)
(* A context is what a saved kernel stack holds: where the code is (pc)    *)
(* and the locals it still needs.  Its fields t and k are history: the     *)
(* process the context belongs to.                                         *)
(***************************************************************************)
EXTENDS Integers, FiniteSets

CONSTANTS
  NumTerminals,   \* NUM_TERMINALS
  MaxPid,         \* MAX_PID: execute refuses to let pid exceed it
  MaxDepth,       \* bound of the model: deepest process of one terminal
  Commands,       \* the kinds of command the programs pass to execute
  ShellEnds,      \* how a shell at depth 0 may end: "halt", "fault"
  SplitCounters,  \* pid++ and pid-- are a load, an add and a store
  TickInBoot,     \* the timer may fire again inside the boot branch
  TickInLookup    \* the timer may fire while execute looks a command up

(* What the file system has for a command: an executable, a file that is   *)
(* not one, no file.                                                       *)
CommandKinds == {"elf", "notelf", "missing"}

ASSUME NumTerminalsAssumption == NumTerminals \in Nat \ {0}
ASSUME MaxPidAssumption == MaxPid \in Nat /\ MaxPid >= NumTerminals - 1
ASSUME MaxDepthAssumption == MaxDepth \in Nat
ASSUME CommandsAssumption == Commands \subseteq CommandKinds
ASSUME ShellEndsAssumption == ShellEnds \subseteq {"halt", "fault"}
ASSUME RacesAssumption == {SplitCounters, TickInBoot, TickInLookup} \subseteq BOOLEAN

Terminals == 0 .. NumTerminals - 1
Depths    == 0 .. MaxDepth
Processes == Terminals \X Depths

VARIABLES
  pid,                   \* the global process counter, -1 when there is none
  terminal_process_num,  \* terminal -> depth of its top process, -1 if none
  exception_flag,        \* an exception handler asked for the next halt
  cur_execute_terminal,  \* the terminal whose turn it is
  terminal_esp,          \* terminal -> the context the scheduler saved
  cpu,                   \* the context that is executing
  user_page,             \* the frame mapped at USER_MEM_START
  image,                 \* frame -> the process whose program it holds
  esp0,                  \* tss.esp0: the kernel stack of the next trap
  pcb                    \* process -> how it was made, "none" if it is not

vars == <<pid, terminal_process_num, exception_flag, cur_execute_terminal,
          terminal_esp, cpu, user_page, image, esp0, pcb>>

-----------------------------------------------------------------------------
(* Addresses.  The frame and the kernel stack of process k of terminal t   *)
(* are the (t + k * NUM_TERMINALS)-th of their region.                     *)

(* Wrong on purpose, to test the properties: the terminals do not stride.  *)
FrameWithoutStride(t, k) == t + k

Frame(t, k)       == t + k * NumTerminals
KernelStack(t, k) == t + k * NumTerminals
Frames            == 0 .. NumTerminals * (MaxDepth + 1) - 1
NotPresent        == -1

(* How a process was made: by the execute system call of the process below *)
(* it, by halt restarting a shell, by the scheduler at boot.               *)
Callers == {"sys", "restart", "boot"}

PCs == {"idle", "user", "boot",
        "inc", "check", "reject", "grow", "lookup",
        "fail", "failShrink", "map", "load", "enter",       \* execute
        "halt", "dec", "shrink", "unmap", "remap", "resume",
        "restartDec", "restartShrink"}                      \* halt

Context == [t : Terminals, k : -1 .. MaxDepth, pc : PCs, ie : BOOLEAN,
            cmd : CommandKinds \cup {"none"}, by : Callers,
            exc : BOOLEAN, status : {"none", "own", "exception"},
            idx : Int, half : BOOLEAN, tmp : Int]

(* Process k of terminal t executing user code.                            *)
UserContext(t, k) ==
  [t |-> t, k |-> k, pc |-> "user", ie |-> TRUE, cmd |-> "none",
   by |-> "sys", exc |-> FALSE, status |-> "none", idx |-> 0,
   half |-> FALSE, tmp |-> 0]

(* The scheduler's own call execute("shell") for terminal t.               *)
BootContext(t) ==
  [UserContext(t, -1) EXCEPT !.pc = "boot", !.by = "boot", !.cmd = "elf",
                             !.ie = TickInBoot]

(* The kernel's hlt loop, before the first time slice.                     *)
IdleContext == [UserContext(0, -1) EXCEPT !.pc = "idle"]

(* The context of terminal t, executing or saved.                          *)
ContextOf(t) == IF t = cpu.t THEN cpu ELSE terminal_esp[t]

Top == terminal_process_num[cur_execute_terminal]

Init ==
  /\ pid = -1
  /\ terminal_process_num = [t \in Terminals |-> -1]
  /\ exception_flag = FALSE
  /\ cur_execute_terminal = 0
  /\ terminal_esp = [t \in Terminals |-> IdleContext]
  /\ cpu = IdleContext
  /\ user_page = NotPresent
  /\ image = [f \in Frames |-> <<0, -1>>]
  /\ esp0 = -1                       \* the boot stack, above every other
  /\ pcb = [p \in Processes |-> "none"]

-----------------------------------------------------------------------------
(* Steps that several actions share.                                       *)

Goto(label) == cpu' = [cpu EXCEPT !.pc = label]

(* pid++ or pid--, and on to next.  A build without optimisation loads     *)
(* pid, adds and stores, and may be preempted in between; a single         *)
(* instruction cannot be.                                                  *)
UpdatePid(from, delta, next) ==
  /\ cpu.pc = from
  /\ \/ /\ ~SplitCounters
        /\ pid' = pid + delta
        /\ cpu' = next
     \/ /\ SplitCounters /\ ~cpu.half
        /\ cpu' = [cpu EXCEPT !.half = TRUE, !.tmp = pid]
        /\ UNCHANGED pid
     \/ /\ SplitCounters /\ cpu.half
        /\ pid' = cpu.tmp + delta
        /\ cpu' = [next EXCEPT !.half = FALSE, !.tmp = 0]
  /\ UNCHANGED <<terminal_process_num, exception_flag, cur_execute_terminal,
                 terminal_esp, user_page, image, esp0, pcb>>

(* terminal_process_num[cur_execute_terminal]++ or --, and on to next.     *)
UpdateProcessNum(from, delta, next) ==
  /\ cpu.pc = from
  /\ terminal_process_num' =
       [terminal_process_num EXCEPT ![cur_execute_terminal] = @ + delta]
  /\ cpu' = next
  /\ UNCHANGED <<pid, exception_flag, cur_execute_terminal, terminal_esp,
                 user_page, image, esp0, pcb>>

(* map_virtual_addr_to_physical of USER_MEM_START.                         *)
MapUser(from, frame, to) ==
  /\ cpu.pc = from
  /\ user_page' = frame
  /\ Goto(to)
  /\ UNCHANGED <<pid, terminal_process_num, exception_flag, image, esp0, pcb,
                 cur_execute_terminal, terminal_esp>>

-----------------------------------------------------------------------------
(* The timer: pit_irq and scheduler.                                       *)

LookupPCs == {"lookup", "fail", "failShrink"}

(* Wrong on purpose: the round robin stays where it is.                    *)
NextTerminalStuck(t) == t

NextTerminal(t) == (t + 1) % NumTerminals

(* The boot branches are chosen by the value of pid: -1, 0, 1 for the      *)
(* terminals 2, 1, 0.                                                      *)
BootBranch == pid \in -1 .. NumTerminals - 2

BootShell ==
  /\ cpu.ie
  /\ BootBranch
  /\ terminal_esp' = [terminal_esp EXCEPT ![cur_execute_terminal] = cpu]
  /\ cpu' = BootContext(NumTerminals - 2 - pid)
  /\ UNCHANGED <<pid, terminal_process_num, exception_flag, user_page, image,
                 esp0, pcb, cur_execute_terminal>>

(* setExecuteTerm in the boot branch, after change_display_terminal has    *)
(* enabled the interrupts; then execute("shell").                          *)
BootTerminal ==
  /\ cpu.pc = "boot"
  /\ cur_execute_terminal' = cpu.t
  /\ Goto("inc")
  /\ UNCHANGED <<pid, terminal_process_num, exception_flag, terminal_esp,
                 user_page, image, esp0, pcb>>

(* Wrong on purpose: the context is saved after the turn has moved on.     *)
SwitchToSavingLate(next) ==
  LET saved == [terminal_esp EXCEPT ![next] = cpu] IN
  /\ terminal_esp' = saved
  /\ cpu' = terminal_esp[next]
  /\ cur_execute_terminal' = next
  /\ user_page' = Frame(next, terminal_process_num[next])
  /\ esp0' = KernelStack(next, terminal_process_num[next])

(* Wrong on purpose: tss.esp0 is not changed.                              *)
SwitchToKeepingStack(next) ==
  LET saved == [terminal_esp EXCEPT ![cur_execute_terminal] = cpu] IN
  /\ terminal_esp' = saved
  /\ cpu' = saved[next]
  /\ cur_execute_terminal' = next
  /\ user_page' = Frame(next, terminal_process_num[next])
  /\ esp0' = esp0

(* What the switch maps is the top process of the next terminal.           *)
SwitchTo(next) ==
  LET saved == [terminal_esp EXCEPT ![cur_execute_terminal] = cpu] IN
  /\ terminal_esp' = saved
  /\ cpu' = saved[next]
  /\ cur_execute_terminal' = next
  /\ user_page' = Frame(next, terminal_process_num[next])
  /\ esp0' = KernelStack(next, terminal_process_num[next])

Switch ==
  /\ cpu.ie
  /\ ~BootBranch
  /\ SwitchTo(NextTerminal(cur_execute_terminal))
  /\ UNCHANGED <<pid, terminal_process_num, exception_flag, image, pcb>>

Tick ==
  /\ cpu.pc \in LookupPCs => TickInLookup
  /\ BootShell \/ Switch

-----------------------------------------------------------------------------
(* execute.  Assumed of the programs: no shell starts or ends a program    *)
(* before every shell runs (three ticks, 34 ms after power-on), and what a *)
(* program does is modelled only while its own frame is mapped.            *)

Booted == \A t \in Terminals : ContextOf(t).pc # "idle"

InUserCode ==
  /\ cpu.pc = "user"
  /\ Booted
  /\ user_page = Frame(cpu.t, cpu.k)

SysExecute(cmd) ==
  /\ InUserCode
  /\ cpu.k < MaxDepth
  /\ cpu' = [cpu EXCEPT !.pc = "inc", !.cmd = cmd, !.by = "sys"]
  /\ UNCHANGED <<pid, terminal_process_num, exception_flag, user_page, image,
                 esp0, pcb, cur_execute_terminal, terminal_esp>>

IncPid == UpdatePid("inc", 1, [cpu EXCEPT !.pc = "check"])

(* Wrong on purpose: an off-by-one in the check.                           *)
AdmissibleTooLate == pid <= MaxPid + 1

Admissible == pid <= MaxPid

CheckPid ==
  /\ cpu.pc = "check"
  /\ Goto(IF Admissible THEN "grow" ELSE "reject")
  /\ UNCHANGED <<pid, terminal_process_num, exception_flag, user_page, image,
                 esp0, pcb, cur_execute_terminal, terminal_esp>>

(* Wrong on purpose: the call waits for a free pid; the pid is not given   *)
(* back.                                                                   *)
RejectRetries == UpdatePid("reject", -1, [cpu EXCEPT !.pc = "inc"])
RejectKeepsPid == UpdatePid("reject", 0, UserContext(cpu.t, cpu.k))

(* Both rejected calls return 0: to the program, or from the restart of a  *)
(* shell through halt to that shell.                                       *)
Reject == UpdatePid("reject", -1, UserContext(cpu.t, cpu.k))

Grow == UpdateProcessNum("grow", 1, [cpu EXCEPT !.pc = "lookup"])

(* A program's command string lies in its own frame: with another frame    *)
(* mapped, any string may be read there.                                   *)
ReadCommand ==
  IF cpu.by = "sys" /\ user_page # Frame(cpu.t, cpu.k)
    THEN CommandKinds
    ELSE {cpu.cmd}

Lookup ==
  /\ cpu.pc = "lookup"
  /\ \E cmd \in ReadCommand :
       cpu' = [cpu EXCEPT !.cmd = cmd,
                          !.pc = IF cmd = "elf" THEN "map" ELSE "fail"]
  /\ UNCHANGED <<pid, terminal_process_num, exception_flag, user_page, image,
                 esp0, pcb, cur_execute_terminal, terminal_esp>>

(* Wrong on purpose: an error path that gives its pid back twice.          *)
FailPidTwice == UpdatePid("fail", -2, [cpu EXCEPT !.pc = "failShrink"])

FailPid == UpdatePid("fail", -1, [cpu EXCEPT !.pc = "failShrink"])

FailShrink == UpdateProcessNum("failShrink", -1, UserContext(cpu.t, cpu.k))

MapProgram == MapUser("map", Frame(cur_execute_terminal, Top), "load")

(* read_data copies the program to whatever frame is mapped.               *)
LoadProgram ==
  /\ cpu.pc = "load"
  /\ image' = [image EXCEPT ![user_page] = <<cur_execute_terminal, Top>>]
  /\ Goto("enter")
  /\ UNCHANGED <<pid, terminal_process_num, exception_flag, user_page,
                 esp0, pcb, cur_execute_terminal, terminal_esp>>

(* The pcb, tss.esp0 and the iret to the program.                          *)
Enter ==
  /\ cpu.pc = "enter"
  /\ pcb' = [pcb EXCEPT ![<<cur_execute_terminal, Top>>] = cpu.by]
  /\ esp0' = KernelStack(cur_execute_terminal, Top)
  /\ cpu' = UserContext(cur_execute_terminal, Top)
  /\ UNCHANGED <<pid, terminal_process_num, exception_flag, user_page, image,
                 cur_execute_terminal, terminal_esp>>

Execute == \/ IncPid \/ CheckPid \/ Reject \/ Grow \/ Lookup \/ FailPid
           \/ FailShrink \/ MapProgram \/ LoadProgram \/ Enter

-----------------------------------------------------------------------------
(* halt, called by the program or by the exception handler.                *)

MayEnd(how) == cpu.k > 0 \/ how \in ShellEnds

SysHalt ==
  /\ InUserCode
  /\ MayEnd("halt")
  /\ Goto("halt")
  /\ UNCHANGED <<pid, terminal_process_num, exception_flag, user_page, image,
                 esp0, pcb, cur_execute_terminal, terminal_esp>>

(* Wrong on purpose: exceptions behind a trap gate.                        *)
FaultInterruptible ==
  /\ InUserCode
  /\ MayEnd("fault")
  /\ exception_flag' = TRUE
  /\ cpu' = [cpu EXCEPT !.pc = "halt", !.exc = TRUE]
  /\ UNCHANGED <<pid, terminal_process_num, user_page, image, esp0, pcb,
                 cur_execute_terminal, terminal_esp>>

(* handler or page_fault_handler, behind an interrupt gate.                *)
Fault ==
  /\ InUserCode
  /\ MayEnd("fault")
  /\ exception_flag' = TRUE
  /\ cpu' = [cpu EXCEPT !.pc = "halt", !.exc = TRUE, !.ie = FALSE]
  /\ UNCHANGED <<pid, terminal_process_num, user_page, image, esp0, pcb,
                 cur_execute_terminal, terminal_esp>>

(* A shell at depth 0 goes the way of the restart and leaves the flag.     *)
HaltShell ==
  /\ cpu.pc = "halt"
  /\ Top = 0
  /\ Goto("restartDec")
  /\ UNCHANGED <<pid, terminal_process_num, exception_flag, user_page, image,
                 esp0, pcb, cur_execute_terminal, terminal_esp>>

HaltProgram ==
  /\ cpu.pc = "halt"
  /\ Top # 0
  /\ cpu' = [cpu EXCEPT !.pc = "dec", !.idx = Top,
                        !.status = IF exception_flag THEN "exception"
                                                     ELSE "own"]
  /\ exception_flag' = FALSE
  /\ UNCHANGED <<pid, terminal_process_num, user_page, image, esp0, pcb,
                 cur_execute_terminal, terminal_esp>>

HaltPid == UpdatePid("dec", -1, [cpu EXCEPT !.pc = "shrink"])

(* Wrong on purpose: the process number is decremented twice.              *)
HaltShrinkTwice ==
  UpdateProcessNum("shrink", -2, [cpu EXCEPT !.pc = "unmap"])

HaltShrink == UpdateProcessNum("shrink", -1, [cpu EXCEPT !.pc = "unmap"])

RemovePage == MapUser("unmap", NotPresent, "remap")

RemapParent == MapUser("remap", Frame(cur_execute_terminal, Top), "resume")

(* Wrong on purpose: the pcb is looked up after the decrement.             *)
ResumeParentResetsParent ==
  /\ cpu.pc = "resume"
  /\ esp0' = KernelStack(cur_execute_terminal, Top)
  /\ pcb' = [pcb EXCEPT ![<<cur_execute_terminal, Top>>] = "none"]
  /\ cpu' = UserContext(cur_execute_terminal, cpu.idx - 1)
  /\ UNCHANGED <<pid, terminal_process_num, exception_flag, user_page, image,
                 cur_execute_terminal, terminal_esp>>

(* tss.esp0, then the jump into the execute call that the pcb names.       *)
ResumeParent ==
  /\ cpu.pc = "resume"
  /\ esp0' = KernelStack(cur_execute_terminal, Top)
  /\ pcb' = [pcb EXCEPT ![<<cur_execute_terminal, cpu.idx>>] = "none"]
  /\ cpu' = UserContext(cur_execute_terminal, cpu.idx - 1)
  /\ UNCHANGED <<pid, terminal_process_num, exception_flag, user_page, image,
                 cur_execute_terminal, terminal_esp>>

(* Wrong on purpose: the shell that ended keeps its pid.                   *)
RestartKeepsPid ==
  UpdatePid("restartDec", 0, [cpu EXCEPT !.pc = "restartShrink"])

RestartPid == UpdatePid("restartDec", -1, [cpu EXCEPT !.pc = "restartShrink"])

RestartShrink ==
  UpdateProcessNum("restartShrink", -1,
    [cpu EXCEPT !.pc = "inc", !.cmd = "elf", !.by = "restart"])

Halt == \/ HaltShell \/ HaltProgram \/ HaltPid \/ HaltShrink \/ RemovePage
        \/ RemapParent \/ ResumeParent \/ RestartPid \/ RestartShrink

-----------------------------------------------------------------------------
(* What the kernel does next in the context it executes, what the program  *)
(* may do, and the whole system.                                           *)
KernelStep == BootTerminal \/ Execute \/ Halt

UserStep == (\E cmd \in Commands : SysExecute(cmd)) \/ SysHalt \/ Fault

Next == Tick \/ KernelStep \/ UserStep

Spec == Init /\ [][Next]_vars

(* The PIC latches a tick that arrives with interrupts disabled and        *)
(* delivers it when they are enabled again; a time slice of 11 ms executes *)
(* many instructions of its context.                                       *)
Fairness ==
  /\ SF_vars(Tick)
  /\ \A t \in Terminals : SF_vars(KernelStep /\ cpu.t = t)

FairSpec == Spec /\ Fairness

-----------------------------------------------------------------------------
(* Properties.                                                             *)

TypeOK ==
  /\ pid \in Int
  /\ terminal_process_num \in [Terminals -> -1 .. MaxDepth]
  /\ exception_flag \in BOOLEAN
  /\ cur_execute_terminal \in Terminals
  /\ terminal_esp \in [Terminals -> Context]
  /\ cpu \in Context
  /\ user_page \in Frames \cup {NotPresent}
  /\ image \in [Frames -> Terminals \X (-1 .. MaxDepth)]
  /\ esp0 \in Int
  /\ pcb \in [Processes -> Callers \cup {"none"}]

(* The CPU executes user code of no process but the top one of the         *)
(* terminal whose turn it is, and the context the scheduler saved for      *)
(* another terminal belongs to that terminal: no slice ever resumes a      *)
(* frame of somebody else, whatever it interrupted (scheduler 19-25,       *)
(* 84-90; getPCB relies on it).                                            *)
ContextOwnership ==
  /\ cpu.pc \notin {"idle", "boot"} => cpu.t = cur_execute_terminal
  /\ cpu.pc = "user" => cpu.k = Top
  /\ \A t \in Terminals :
       terminal_process_num[t] >= 0 => /\ ContextOf(t).pc # "idle"
                                       /\ ContextOf(t).t = t

(* A process executes with its own frame mapped and with tss.esp0 at its   *)
(* own kernel stack, however its last slice and its last system call       *)
(* ended: every path back to user code restores what the path of some      *)
(* other process had changed.                                              *)
AddressSpace ==
  cpu.pc = "user" => /\ user_page = Frame(cpu.t, cpu.k)
                     /\ esp0 = KernelStack(cpu.t, cpu.k)

(* The frame of every process, the running one and each that waits below   *)
(* it, holds that process's program: no execute, however it is             *)
(* interleaved, loads a program over one that is still there.              *)
ProgramImage ==
  \A p \in Processes :
    p[2] <= ContextOf(p[1]).k => image[Frame(p[1], p[2])] = p

(* pid counts the processes, up to the half-finished updates of execute    *)
(* and halt: between its two counter updates a context is one ahead or one *)
(* behind.                                                                 *)
PidLead(c) ==
  CASE c.pc \in {"check", "reject", "grow"} -> 1
    [] c.pc \in {"failShrink", "shrink", "restartShrink"} -> -1
    [] OTHER -> 0

Slots == {p \in Processes :
            p[2] <= terminal_process_num[p[1]] + PidLead(ContextOf(p[1]))}

PidAccounting == pid + 1 = Cardinality(Slots)

(* "don't allow a 7th process": never more than MAX_PID + 1 processes that  *)
(* passed the check of execute and still hold their pid, however the calls *)
(* of several terminals interleave.                                        *)
AdmissionLead(c) ==
  CASE c.pc = "grow" -> 1
    [] c.pc \in {"failShrink", "shrink", "restartShrink"} -> -1
    [] OTHER -> 0

Admitted == {p \in Processes :
               p[2] <= terminal_process_num[p[1]] + AdmissionLead(ContextOf(p[1]))}

ProcessLimit == Cardinality(Admitted) <= MaxPid + 1

(* "if closing last process, restart shell": no terminal that has booted   *)
(* is left without a process, whatever its own shell and the programs of   *)
(* the other terminals do.                                                 *)
TerminalKeepsShell ==
  \A t \in Terminals : ContextOf(t).pc = "user" => terminal_process_num[t] >= 0

(* The scheduler's boot branches are "only done once": a branch is never   *)
(* taken for a terminal that has a shell or that was booted before.        *)
BootOnce ==
  cpu.pc = "boot" => /\ terminal_process_num[cpu.t] = -1
                     /\ terminal_esp[cpu.t].pc = "idle"

(* The parent is told "exception" exactly when the program was ended by an *)
(* exception handler, although the flag is one global for all terminals.   *)
ExceptionStatus ==
  \A t \in Terminals :
    LET c == ContextOf(t) IN
    c.status # "none" => (c.status = "exception" <=> c.exc)

(* Every process above a shell was made by a system call of the process    *)
(* below it, so that halt jumps into an execute frame that still waits.    *)
ParentResumable ==
  \A p \in Processes :
    0 < p[2] /\ p[2] <= ContextOf(p[1]).k => pcb[p] = "sys"

(* What the terminals promise: ProcessStacks.  A program is gone when halt *)
(* has given its pid back.                                                 *)
DepthOf(c) ==
  IF c.pc \in {"shrink", "unmap", "remap", "resume"} THEN c.k - 1 ELSE c.k

Stacks == INSTANCE ProcessStacks WITH
            Limit <- MaxPid + 1,
            depth <- [t \in Terminals |-> DepthOf(ContextOf(t))],
            turn  <- cur_execute_terminal

StacksSpec == Stacks!Spec

(* Every system call comes back to user code, that of the caller, of its   *)
(* parent or of the new program.                                           *)
SyscallReturns ==
  \A t \in Terminals :
    ContextOf(t).pc \notin {"idle", "user"} ~> ContextOf(t).pc = "user"

(* No terminal is left out: each has a shell in the end, and the CPU       *)
(* executes each terminal's processes again and again.                     *)
EveryTerminalRuns ==
  \A t \in Terminals : []<>(cpu.pc = "user" /\ cpu.t = t)
=============================================================================
