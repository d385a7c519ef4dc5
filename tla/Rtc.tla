-------------------------------- MODULE Rtc --------------------------------
(***************************************************************************)
(* The real-time clock of FuzzyOS (rtc.c): frequencies for each terminal   *)
(* out of one hardware clock, and a read that waits for interrupts through *)
(* one flag for all.  With it the way in and out of a system call          *)
(* (systemcall.S), which hands the result over in one global, and the      *)
(* interrupt controller, because the keyboard handler that switches        *)
(* terminals keeps its interrupt in service while others run.              *)
(*                                                                         *)
(* System calls are interrupted between any two accesses to what they      *)
(* share; interrupt handlers run with interrupts off.                      *)
(***************************************************************************)
EXTENDS Integers, I8259

CONSTANTS
  NumTerminals,   \* NUM_TERMINALS
  MaxFreq,        \* MAX_FREQ, 1024
  Freqs,          \* the frequencies that programs ask for
  OtherResults,   \* what the handlers of other system calls return
  ExceptionStatus, \* what execute returns of a program that an exception ends, 256
  MaxKeys         \* bound: keys that are pressed

ASSUME NumTerminalsAssumption == NumTerminals \in Nat \ {0}
ASSUME MaxFreqAssumption == MaxFreq \in Nat \ {0}
ASSUME FreqsAssumption == Freqs \subseteq Int
ASSUME OtherResultsAssumption == OtherResults \subseteq Int
ASSUME ExceptionStatusAssumption == ExceptionStatus \in Nat
ASSUME MaxKeysAssumption == MaxKeys \in Nat

Terminals == 0 .. NumTerminals - 1

VARIABLES
  pic,                   \* the interrupt controllers
  hz,                    \* the rate in register A
  rtc_interrupt_flag,
  rtc_counter,           \* terminal -> interrupts counted by its read
  terminal_rtc,          \* terminal -> interrupts for one period
  rtc_initialized,
  sysCall_eax_save,
  cur_execute_terminal,
  switching,             \* the terminal a keyboard handler is suspended on
  keys,                  \* keys pressed so far
  program,               \* terminal -> pc, the result of the call, open clock
  seen                   \* history: terminal -> interrupts since its read began

clock  == <<hz, rtc_interrupt_flag>>
tables == <<rtc_counter, terminal_rtc, rtc_initialized>>
vars   == <<pic, clock, tables, sysCall_eax_save, cur_execute_terminal, switching,
            keys, program, seen>>

-----------------------------------------------------------------------------
(* entry: the controllers are initialised and masked; the keyboard, the    *)
(* clock and the timer unmask their lines, then interrupts are enabled.    *)
BootPic ==
  LET masked   == i8259_init([irr |-> {}, isr |-> {}, imr |-> {}])
      keyboard == enable_irq(masked, 1)
      rtc      == enable_irq(enable_irq(keyboard, 2), 8)
  IN  enable_irq(rtc, 0)

NoSwitch == -1
User     == [pc |-> "user", ret |-> 0, open |-> FALSE]

(* The rate that the firmware has left in register A may be any.           *)
Init ==
  /\ pic = BootPic
  /\ hz \in {2, MaxFreq}
  /\ rtc_interrupt_flag = 0
  /\ rtc_counter = [t \in Terminals |-> 0]
  /\ terminal_rtc = [t \in Terminals |-> 0]
  /\ rtc_initialized = FALSE
  /\ sysCall_eax_save = 0
  /\ cur_execute_terminal = 0
  /\ switching = NoSwitch
  /\ keys = 0
  /\ program = [t \in Terminals |-> User]
  /\ seen = [t \in Terminals |-> 0]

-----------------------------------------------------------------------------
(* The keyboard raises its line.                                           *)
KeyboardRaises ==
  /\ keys < MaxKeys /\ keys' = keys + 1
  /\ 1 \notin pic.irr
  /\ pic' = Request(pic, 1)
  /\ UNCHANGED <<clock, tables, sysCall_eax_save, cur_execute_terminal, switching, program, seen>>

-----------------------------------------------------------------------------
(* The handlers, from the stub in handler.S to its iret.                   *)

(* pit_irq: the second EOI is sent by the context that is switched to.     *)
(* For the timer and the clock the request and the handler are one step; a *)
(* request that waits is one that comes later.                             *)
PitIrq ==
  /\ Deliverable(Request(pic, 0), 0)
  /\ pic' = send_eoi(send_eoi(Accept(pic, 0), 0), 0)
  /\ cur_execute_terminal' = (cur_execute_terminal + 1) % NumTerminals
  /\ UNCHANGED <<clock, tables, sysCall_eax_save, switching, keys, program, seen>>

(* get_keyboard_input, for every key but those that switch the display.    *)
KeyboardIrq ==
  /\ Deliverable(pic, 1)
  /\ pic' = send_eoi(Accept(pic, 1), 1)
  /\ UNCHANGED <<clock, tables, sysCall_eax_save, cur_execute_terminal, switching, keys,
                 program, seen>>

(* For those that do: change_display_terminal enables interrupts, ...      *)
SwitchIrq ==
  /\ Deliverable(pic, 1)
  /\ pic' = Accept(pic, 1)
  /\ switching' = cur_execute_terminal
  /\ UNCHANGED <<clock, tables, sysCall_eax_save, cur_execute_terminal, keys, program, seen>>

(* Wrong on purpose: only the handlers of other keys send an EOI.          *)
SwitchEndsWithoutEoi ==
  /\ switching = cur_execute_terminal
  /\ switching' = NoSwitch
  /\ UNCHANGED <<pic, clock, tables, sysCall_eax_save, cur_execute_terminal, keys, program, seen>>

(* ... and the EOI comes when the handler goes on.                         *)
SwitchEnds ==
  /\ switching = cur_execute_terminal
  /\ pic' = send_eoi(pic, 1)
  /\ switching' = NoSwitch
  /\ UNCHANGED <<clock, tables, sysCall_eax_save, cur_execute_terminal, keys, program, seen>>

Least(a, b) == IF a < b THEN a ELSE b

(* Interrupts that the read of a terminal has to wait for.                 *)
Need(t) == terminal_rtc[t] \div 2

Reading(t) == program[t].pc \in {"spin", "take"}

(* rtc_irq, which reads register C so that the clock goes on.  The history *)
(* does not count further than what is needed.                             *)
RtcIrq ==
  /\ Deliverable(Request(pic, 8), 8)
  /\ pic' = send_eoi(Accept(pic, 8), 8)
  /\ rtc_interrupt_flag' = 1
  /\ seen' = [t \in Terminals |-> IF Reading(t) THEN Least(seen[t] + 1, Need(t)) ELSE seen[t]]
  /\ UNCHANGED <<hz, tables, sysCall_eax_save, cur_execute_terminal, switching, keys, program>>

-----------------------------------------------------------------------------
(* System calls.  The program of the terminal that has the turn executes,  *)
(* unless a keyboard handler is on top of its stack.                       *)

Runs(t, pc) ==
  /\ t = cur_execute_terminal /\ switching # t
  /\ program[t].pc = pc
  /\ UNCHANGED <<pic, cur_execute_terminal, switching, keys>>

Goto(t, pc) == program' = [program EXCEPT ![t].pc = pc]

(* The handler of the call returns.                                        *)
Result(t, ret) == program' = [program EXCEPT ![t].pc = "ret", ![t].ret = ret]

(* systemCall with a number outside 1 .. 10 ends like a call that fails.   *)
BadNumber(t) ==
  /\ Runs(t, "user")
  /\ Result(t, -1)
  /\ UNCHANGED <<hz, rtc_interrupt_flag, tables, sysCall_eax_save, seen>>

(* A call that has nothing to do with the clock.  It may start or end a    *)
(* program; the one that goes on has the clock open or not.                *)
GoesOn(t, ret) ==
  \E open \in BOOLEAN :
    /\ open => rtc_initialized
    /\ program' = [program EXCEPT ![t] = [pc |-> "ret", ret |-> ret, open |-> open]]

Other(t) ==
  /\ Runs(t, "user")
  /\ \E ret \in OtherResults : GoesOn(t, ret)
  /\ UNCHANGED <<hz, rtc_interrupt_flag, tables, sysCall_eax_save, seen>>

(* RTC_close, and close.                                                   *)
RTC_close(t) ==
  /\ Runs(t, "user")
  /\ program[t].open
  /\ program' = [program EXCEPT ![t] = [pc |-> "ret", ret |-> 0, open |-> FALSE]]
  /\ UNCHANGED <<hz, rtc_interrupt_flag, tables, sysCall_eax_save, seen>>

(* change_rtc_freq up to its test of rtc_initialized.  Negative and odd    *)
(* frequencies are ignored.                                                *)
Refused(freq) == freq % 2 = 1 \/ freq < 0

SetPeriod(t, freq) == terminal_rtc' = [terminal_rtc EXCEPT ![t] = MaxFreq \div Least(freq, MaxFreq)]

RTC_open(t) ==
  /\ Runs(t, "user")
  /\ SetPeriod(t, MaxFreq)
  /\ Goto(t, IF rtc_initialized THEN "open" ELSE "rate")
  /\ UNCHANGED <<hz, rtc_interrupt_flag, rtc_counter, rtc_initialized, sysCall_eax_save, seen>>

(* Between cli and sti of change_rtc_freq; only an open comes here.        *)
SetRate(t) ==
  /\ Runs(t, "rate")
  /\ hz' = MaxFreq
  /\ Goto(t, "open")
  /\ UNCHANGED <<rtc_interrupt_flag, tables, sysCall_eax_save, seen>>

Opened(t) ==
  /\ Runs(t, "open")
  /\ rtc_initialized' = TRUE
  /\ program' = [program EXCEPT ![t] = [pc |-> "ret", ret |-> 0, open |-> TRUE]]
  /\ UNCHANGED <<hz, rtc_interrupt_flag, rtc_counter, terminal_rtc, sysCall_eax_save, seen>>

(* The rates that register A can be given; 2 for any other frequency.      *)
Rate(freq) == IF \E n \in 1 .. 10 : freq = 2 ^ n THEN freq ELSE 2

BadArguments(t) ==
  /\ Runs(t, "user")
  /\ program[t].open
  /\ Result(t, -1)
  /\ UNCHANGED <<hz, rtc_interrupt_flag, tables, sysCall_eax_save, seen>>

IgnoredFrequency(t) ==
  /\ Runs(t, "user")
  /\ program[t].open
  /\ \E freq \in Freqs : Refused(freq)
  /\ Result(t, 4)
  /\ UNCHANGED <<hz, rtc_interrupt_flag, tables, sysCall_eax_save, seen>>

(* A division error, which ends the program: execute of its parent returns *)
(* the status of an exception.                                             *)
DivideError(t) ==
  /\ Runs(t, "user")
  /\ program[t].open /\ 0 \in Freqs
  /\ GoesOn(t, ExceptionStatus)
  /\ UNCHANGED <<hz, rtc_interrupt_flag, tables, sysCall_eax_save, seen>>

(* Wrong on purpose: the hardware follows every request.                   *)
NewFrequencyProgramsRate(t) ==
  /\ Runs(t, "user")
  /\ program[t].open
  /\ \E freq \in Freqs \ {0} :
       ~Refused(freq) /\ SetPeriod(t, freq) /\ hz' = Rate(Least(freq, MaxFreq))
  /\ Result(t, 4)
  /\ UNCHANGED <<rtc_interrupt_flag, rtc_counter, rtc_initialized, sysCall_eax_save, seen>>

NewFrequency(t) ==
  /\ Runs(t, "user")
  /\ program[t].open
  /\ \E freq \in Freqs \ {0} :
       /\ ~Refused(freq) /\ SetPeriod(t, freq)
       /\ hz' = IF rtc_initialized THEN hz ELSE Rate(Least(freq, MaxFreq))
  /\ Result(t, 4)
  /\ UNCHANGED <<rtc_interrupt_flag, rtc_counter, rtc_initialized, sysCall_eax_save, seen>>

RTC_write(t) == BadArguments(t) \/ IgnoredFrequency(t) \/ DivideError(t) \/ NewFrequency(t)

-----------------------------------------------------------------------------
(* RTC_read: the flag is seen and cleared in two steps, between which the  *)
(* clock interrupts and other terminals read.  The counter is the          *)
(* terminal's own.                                                         *)
Counted(t, n) ==
  /\ rtc_counter' = [rtc_counter EXCEPT ![t] = n]
  /\ IF n < Need(t) THEN Goto(t, "spin") ELSE Result(t, 0)

(* Wrong on purpose: an interrupt from before the read counts.             *)
RTC_readKeepingFlag(t) ==
  /\ Runs(t, "user")
  /\ program[t].open
  /\ Counted(t, 0)
  /\ seen' = [seen EXCEPT ![t] = 0]
  /\ UNCHANGED <<hz, rtc_interrupt_flag, terminal_rtc, rtc_initialized, sysCall_eax_save>>

RTC_read(t) ==
  /\ Runs(t, "user")
  /\ program[t].open
  /\ rtc_interrupt_flag' = 0
  /\ Counted(t, 0)
  /\ seen' = [seen EXCEPT ![t] = 0]
  /\ UNCHANGED <<hz, terminal_rtc, rtc_initialized, sysCall_eax_save>>

Spin(t) ==
  /\ Runs(t, "spin")
  /\ rtc_interrupt_flag = 1
  /\ Goto(t, "take")
  /\ UNCHANGED <<hz, rtc_interrupt_flag, tables, sysCall_eax_save, seen>>

Take(t) ==
  /\ Runs(t, "take")
  /\ rtc_interrupt_flag' = 0
  /\ Counted(t, rtc_counter[t] + 1)
  /\ UNCHANGED <<hz, terminal_rtc, rtc_initialized, sysCall_eax_save, seen>>

-----------------------------------------------------------------------------
(* The way out of systemCall.                                              *)

Store(t) ==
  /\ Runs(t, "ret")
  /\ program[t].ret # -1
  /\ sysCall_eax_save' = program[t].ret
  /\ Goto(t, "finish")
  /\ UNCHANGED <<hz, rtc_interrupt_flag, tables, seen>>

(* What the program finds in eax when it goes on.                          *)
Eax(t) == IF program[t].pc = "finish" THEN sysCall_eax_save ELSE -1

Leave(t) ==
  /\ program' = [program EXCEPT ![t].pc = "user", ![t].ret = 0]
  /\ UNCHANGED <<hz, rtc_interrupt_flag, tables, sysCall_eax_save, seen>>

systemCall_finish(t) == Runs(t, "finish") /\ Leave(t)

(* Wrong on purpose: an error goes through the global like any result.     *)
systemCall_errorShared(t) ==
  /\ Runs(t, "ret")
  /\ program[t].ret = -1
  /\ sysCall_eax_save' = -1
  /\ Goto(t, "finish")
  /\ UNCHANGED <<hz, rtc_interrupt_flag, tables, seen>>

systemCall_error(t) == Runs(t, "ret") /\ program[t].ret = -1 /\ Leave(t)

-----------------------------------------------------------------------------
Kernel(t) ==
  \/ SetRate(t) \/ Opened(t)
  \/ Spin(t) \/ Take(t)
  \/ Store(t) \/ systemCall_finish(t) \/ systemCall_error(t)

Next ==
  \/ KeyboardRaises \/ PitIrq \/ KeyboardIrq \/ SwitchIrq \/ SwitchEnds \/ RtcIrq
  \/ \E t \in Terminals :
       \/ BadNumber(t) \/ Other(t) \/ RTC_open(t) \/ RTC_close(t) \/ RTC_write(t) \/ RTC_read(t)
       \/ Kernel(t)

(* The timer runs all the time.  In a turn of 11 ms the clock interrupts   *)
(* eleven times and the kernel executes many instructions, so neither can  *)
(* be enabled again and again in the turns of a terminal and never happen. *)
Executes(t) == Kernel(t) \/ (SwitchEnds /\ cur_execute_terminal = t)

Fairness ==
  /\ WF_vars(PitIrq) /\ WF_vars(KeyboardIrq \/ SwitchIrq)
  /\ \A t \in Terminals :
       SF_vars(Executes(t)) /\ SF_vars(RtcIrq /\ cur_execute_terminal = t)

Spec == Init /\ [][Next]_vars /\ Fairness

-----------------------------------------------------------------------------
Pcs == {"user", "rate", "open", "spin", "take", "ret", "finish"}

Results == OtherResults \cup {-1, 0, 4, ExceptionStatus}

(* The type invariant; no reader counts more interrupts than it waits for, *)
(* though the flag and the rate are shared (rtc.c:156).                    *)
TypeOK ==
  /\ pic \in [irr : SUBSET {1}, isr : SUBSET {1}, imr : {IRQs \ {0, 1, 2, 8}}]
  /\ hz \in {2, MaxFreq} /\ rtc_interrupt_flag \in {0, 1}
  /\ terminal_rtc \in [Terminals -> 0 .. MaxFreq]
  /\ \A t \in Terminals : rtc_counter[t] \in Nat /\ (Reading(t) => rtc_counter[t] <= Need(t))
  /\ rtc_initialized \in BOOLEAN
  /\ sysCall_eax_save \in Results \ {-1}
  /\ cur_execute_terminal \in Terminals /\ switching \in Terminals \cup {NoSwitch}
  /\ keys \in 0 .. MaxKeys
  /\ program \in [Terminals -> [pc : Pcs, ret : Results, open : BOOLEAN]]

(* A read returns no earlier than after half a period: every interrupt it  *)
(* has counted came after it began, none twice, whatever the other         *)
(* terminals do to the flag (rtc.c:153-165).                               *)
NeverEarly ==
  [][\A t \in Terminals :
       Reading(t) /\ program'[t].pc = "ret" => seen[t] >= Need(t)]_vars

(* The result of a call may be another's, because sysCall_eax_save is      *)
(* shared; but an error is reported as one and no success as an error      *)
(* (systemcall.S:46-63).                                                   *)
ErrorsSurvive ==
  [][\A t \in Terminals :
       program[t].pc \in {"ret", "finish"} /\ program'[t].pc = "user"
         => (Eax(t) = -1 <=> program[t].ret = -1)]_vars

(* Once a program has opened the clock, it stays at the one rate that the  *)
(* periods of all terminals are computed from (rtc.c:76-78).               *)
RateShared == rtc_initialized => hz = MaxFreq

(* Whichever handlers interrupt each other, no interrupt stays in service  *)
(* but that of a suspended keyboard handler (i8259.c:98, pit.c:36).        *)
ServiceOwned == pic.isr = IF switching = NoSwitch THEN {} ELSE {1}

(* A read of the clock returns, though other readers clear the flag that   *)
(* it waits for and a suspended keyboard handler blocks the clock          *)
(* (rtc.c:157).                                                            *)
ReadReturns == \A t \in Terminals : Reading(t) ~> ~Reading(t)
=============================================================================
