---------------------------- MODULE ProcessesInv ----------------------------
(***************************************************************************)
(* The inductive invariant behind the theorems of ProcessesProofs, apart   *)
(* from them so that TLC checks it too.  It says, for every program        *)
(* counter, how the counters of a terminal relate to its process, and how  *)
(* far the system has come while the shells are being started.             *)
(***************************************************************************)
EXTENDS Processes

(* The races that break the process counters do not happen: pid++ is one   *)
(* instruction, a boot branch is over before the next tick, and no shell   *)
(* ends.                                                                   *)
NoRaces == ~SplitCounters /\ ~TickInBoot /\ ShellEnds = {}

ExecPCs   == {"inc", "check", "reject", "grow", "lookup", "fail",
              "failShrink", "map", "load", "enter"}
RaisedPCs == {"lookup", "fail", "failShrink", "map", "load", "enter"}
EndingPCs == {"halt", "dec", "shrink", "unmap", "remap", "resume"}
SunkPCs   == {"unmap", "remap", "resume"}
FailPCs   == {"reject", "fail", "failShrink"}

(* By how much terminal_process_num is ahead of the depth of the process   *)
(* that is in the middle of execute or halt.                               *)
Rise(c) == IF c.pc \in RaisedPCs THEN 1 ELSE IF c.pc \in SunkPCs THEN -1 ELSE 0

ContextOK(c, t) ==
  /\ c.pc # "idle" => c.t = t
  /\ c.pc \in {"idle", "user", "boot"} \cup ExecPCs \cup EndingPCs
  /\ terminal_process_num[t] = c.k + Rise(c)
  /\ c.pc \in ExecPCs \cup {"boot"} => c.k < MaxDepth
  /\ c.pc \in FailPCs => c.by = "sys"
  /\ c.pc \in EndingPCs => c.k > 0
  /\ c.pc \in EndingPCs \ {"halt"} => c.idx = c.k
  /\ c.pc = "idle" => c.k = -1
  /\ c.pc = "boot" => c.by = "boot"
  /\ c.by # "restart"

ContextsOK ==
  /\ \A t \in Terminals : ContextOK(ContextOf(t), t)
  /\ \A t \in Terminals : t # cpu.t => terminal_esp[t].by = "sys"
  /\ cpu.pc # "boot" => cpu.t = cur_execute_terminal

(* While the scheduler starts the shell of terminal cpu.t.                 *)
InBoot ==
  /\ cpu.pc \in {"boot", "inc", "check", "grow", "lookup", "map", "load", "enter"}
  /\ ~cpu.ie
  /\ cpu.k = -1
  /\ cpu.cmd = "elf"
  /\ pid = NumTerminals - 2 - cpu.t + (IF cpu.pc \in {"boot", "inc"} THEN 0 ELSE 1)
  /\ \A t \in Terminals :
       /\ t < cpu.t => terminal_esp[t].pc = "idle"
       /\ t > cpu.t => terminal_esp[t].pc = "user" /\ terminal_esp[t].k = 0
  /\ terminal_esp[cpu.t].pc = "idle"

(* Between two boot branches.                                              *)
BetweenBoots ==
  \A t \in Terminals :
    IF t < NumTerminals - 1 - pid
      THEN ContextOf(t).pc = "idle"
      ELSE ContextOf(t).pc = "user" /\ ContextOf(t).k = 0

(* From then on.                                                           *)
AllBooted ==
  \A t \in Terminals : /\ ContextOf(t).pc # "idle"
                       /\ ContextOf(t).k >= 0

Phases ==
  /\ cpu.by = "boot" => InBoot
  /\ cpu.by = "sys" /\ pid < NumTerminals - 1 => BetweenBoots
  /\ cpu.by = "sys" /\ pid >= NumTerminals - 1 => AllBooted

IInv == TypeOK /\ ContextsOK /\ Phases /\ PidAccounting

(* What is loaded goes to the frame of the new process.                    *)
LoadPage ==
  cpu.pc \in {"load", "enter"} => user_page = Frame(cpu.t, cpu.k + 1)

(* With TickInLookup = FALSE: what is mapped at each program counter, and  *)
(* where the next trap goes.                                               *)
OwnFramePCs == {"user", "inc", "check", "reject", "grow", "lookup", "fail",
                "failShrink"}

AddressInv ==
  /\ LoadPage
  /\ \A t \in Terminals : t # cpu.t => terminal_esp[t].pc \notin LookupPCs
  /\ cpu.pc \in OwnFramePCs /\ cpu.by = "sys" =>
       /\ user_page = Frame(cpu.t, cpu.k)
       /\ esp0 = KernelStack(cpu.t, cpu.k)
  /\ cpu.pc = "resume" => user_page = Frame(cpu.t, cpu.k - 1)

(* The processes whose program is in memory: also the one about to be      *)
(* entered.                                                                *)
ImageDepth(c) == IF c.pc = "enter" THEN c.k + 1 ELSE c.k

ImageInv ==
  /\ LoadPage
  /\ \A p \in Processes :
       p[2] <= ImageDepth(ContextOf(p[1])) => image[Frame(p[1], p[2])] = p

(* What a context tells the parent: the status is set once halt has passed *)
(* its first step, and says who ended the program.                         *)
StatusOK(c) ==
  /\ c.exc => c.pc \in EndingPCs
  /\ c.status # "none" => /\ c.pc \in EndingPCs \ {"halt"}
                          /\ c.status = "exception" <=> c.exc

(* At most the executing context is on its way from an exception handler   *)
(* to halt, with interrupts disabled, and the flag is up just then.        *)
StatusInv ==
  /\ exception_flag <=> cpu.pc = "halt" /\ cpu.exc
  /\ \A t \in Terminals :
       LET c == ContextOf(t) IN
       /\ StatusOK(c)
       /\ c.exc /\ c.pc = "halt" => t = cpu.t /\ ~c.ie
=============================================================================
