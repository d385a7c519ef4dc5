----------------------------- MODULE RtcProofs -----------------------------
(***************************************************************************)
(* Proofs about module Rtc, for every number of terminals, every set of    *)
(* frequencies and any number of key presses.  The four parts of the       *)
(* invariant, about the interrupts that are counted, the rate, the results *)
(* and the interrupts in service, need nothing of each other but types.    *)
(***************************************************************************)
EXTENDS Rtc, TLAPS

Programs == program \in [Terminals -> [pc : Pcs, ret : Int, open : BOOLEAN]]

Counters ==
  /\ rtc_counter \in [Terminals -> Int]
  /\ terminal_rtc \in [Terminals -> Int]
  /\ seen \in [Terminals -> Int]

(* What a reader has counted it has seen, and an interrupt whose flag is   *)
(* set, or was set when it was last looked at, is not counted yet.         *)
CountInv ==
  \A t \in Terminals :
    /\ Reading(t) => rtc_counter[t] < Need(t) /\ rtc_counter[t] <= seen[t]
    /\ Reading(t) /\ (rtc_interrupt_flag = 1 \/ program[t].pc = "take") => rtc_counter[t] < seen[t]

(* Nobody has the clock open, or is about to, before it has its rate.      *)
RateInv ==
  /\ RateShared
  /\ \A t \in Terminals :
       /\ program[t].pc = "open" => hz = MaxFreq
       /\ program[t].open => rtc_initialized

(* No error is on its way through the global.                              *)
ResultInv ==
  /\ sysCall_eax_save # -1
  /\ \A t \in Terminals : program[t].pc = "finish" => program[t].ret # -1

IsPic(p) == \E irr, isr, imr : p = [irr |-> irr, isr |-> isr, imr |-> imr]

Controllers ==
  /\ IsPic(pic)
  /\ cur_execute_terminal \in Terminals

(* The handlers, and what the program of a terminal does.                  *)
Interrupt == KeyboardRaises \/ PitIrq \/ KeyboardIrq \/ SwitchIrq \/ SwitchEnds

(* Steps that change no variable of the clock.                             *)
Plain(t) ==
  \/ BadNumber(t) \/ Other(t) \/ RTC_close(t) \/ BadArguments(t) \/ IgnoredFrequency(t)
  \/ DivideError(t) \/ Spin(t) \/ systemCall_finish(t) \/ systemCall_error(t) \/ Store(t)

Clock(t) ==
  RTC_open(t) \/ SetRate(t) \/ Opened(t) \/ NewFrequency(t) \/ RTC_read(t) \/ Take(t)

(* The steps of Next by what they have in common.                         *)
LEMMA StepCases ==
  ASSUME [Next]_vars
  PROVE  \/ UNCHANGED vars \/ Interrupt \/ RtcIrq
         \/ \E t \in Terminals : Plain(t) \/ Clock(t)
BY DEF Next, Kernel, RTC_write, Interrupt, Plain, Clock

USE NumTerminalsAssumption, MaxFreqAssumption, FreqsAssumption, OtherResultsAssumption,
    ExceptionStatusAssumption

-----------------------------------------------------------------------------
(* What the steps of a program do to it: a frame for the proofs below.     *)

(* Only the program of t goes on, from pc to another.                      *)
Moves(t) ==
  /\ program' = [program EXCEPT ![t] = program'[t]]
  /\ program'[t] \in [pc : Pcs, ret : Int, open : BOOLEAN]

(* A handler that returns moves its own program only.                     *)
LEMMA Returned ==
  ASSUME Programs, NEW t \in Terminals, NEW ret \in Int, Result(t, ret)
  PROVE  Moves(t)
<1>1. /\ program'[t].pc = "ret" /\ program'[t].ret = ret /\ program'[t].open = program[t].open
      /\ program'[t] = [pc |-> "ret", ret |-> ret, open |-> program[t].open]
  BY DEF Programs, Result, Pcs
<1>2. program' = [program EXCEPT ![t] = program'[t]]
  BY DEF Programs, Result
<1> QED
  BY <1>1, <1>2 DEF Moves, Programs, Pcs

LEMMA PlainMoves ==
  ASSUME Programs, NEW t \in Terminals, Plain(t)
  PROVE  /\ Moves(t)
         /\ UNCHANGED <<hz, rtc_interrupt_flag, tables, seen, pic, cur_execute_terminal, switching>>
         /\ program'[t].pc \in {"ret", "user", "finish"} \/ Spin(t)
         /\ program'[t].open => program[t].open \/ rtc_initialized
<1> USE DEF Programs, Moves, Runs, Goto, Result, Pcs, tables
<1>1. CASE BadNumber(t) \/ BadArguments(t) \/ IgnoredFrequency(t)
  BY <1>1, Returned DEF BadNumber, BadArguments, IgnoredFrequency
<1>2. CASE Other(t) \/ DivideError(t)
  BY <1>2 DEF Other, DivideError, GoesOn
<1>3. CASE RTC_close(t)
  BY <1>3 DEF RTC_close
<1>4. CASE Spin(t)
  BY <1>4 DEF Spin
<1>5. CASE systemCall_finish(t) \/ systemCall_error(t)
  BY <1>5 DEF systemCall_finish, systemCall_error, Leave
<1>6. CASE Store(t)
  BY <1>6 DEF Store
<1> QED
  BY <1>1, <1>2, <1>3, <1>4, <1>5, <1>6 DEF Plain

LEMMA ClockMoves ==
  ASSUME Programs, NEW t \in Terminals, Clock(t)
  PROVE  Moves(t) /\ UNCHANGED <<pic, cur_execute_terminal, switching, sysCall_eax_save>>
<1> USE DEF Programs, Moves, Runs, Goto, Result, Pcs
<1>1. CASE RTC_open(t)
  BY <1>1 DEF RTC_open
<1>2. CASE SetRate(t)
  BY <1>2 DEF SetRate
<1>5. CASE Opened(t)
  BY <1>5 DEF Opened
<1>3. CASE NewFrequency(t)
  <2>1. /\ program[t].pc = "user" /\ Result(t, 4)
        /\ UNCHANGED <<pic, cur_execute_terminal, switching, sysCall_eax_save>>
    BY <1>3 DEF NewFrequency
  <2> HIDE DEF Moves, Programs, Result
  <2>2. Moves(t)
    BY <2>1, Returned
  <2> QED
    BY <2>1, <2>2
<1>4. CASE RTC_read(t) \/ Take(t)
  BY <1>4 DEF RTC_read, Take, Counted
<1> QED
  BY <1>1, <1>2, <1>3, <1>4, <1>5 DEF Clock

LEMMA NextPrograms == Programs /\ [Next]_vars => Programs'
<1> SUFFICES ASSUME Programs, [Next]_vars PROVE Programs'
  OBVIOUS
<1>1. CASE UNCHANGED vars
  BY <1>1 DEF vars, Programs
<1>2. CASE Interrupt \/ RtcIrq
  BY <1>2 DEF Programs, Interrupt, KeyboardRaises, PitIrq, KeyboardIrq, SwitchIrq, SwitchEnds, RtcIrq
<1>3. CASE \E t \in Terminals : Plain(t) \/ Clock(t)
  <2>1. PICK t \in Terminals : Plain(t) \/ Clock(t)
    BY <1>3
  <2>2. Moves(t)
    BY <2>1, PlainMoves, ClockMoves
  <2> QED
    BY <2>2 DEF Moves, Programs
<1> QED
  BY <1>1, <1>2, <1>3, StepCases

-----------------------------------------------------------------------------
(* Counting. *)

(* The period of a frequency that change_rtc_freq does not refuse.         *)
LEMMA PeriodInt ==
  ASSUME NEW freq \in Int, freq > 0
  PROVE  MaxFreq \div Least(freq, MaxFreq) \in Int
BY DEF Least

LEMMA NextCounters == Counters /\ [Next]_vars => Counters'
<1> SUFFICES ASSUME Counters, [Next]_vars PROVE Counters'
  OBVIOUS
<1> USE DEF Counters, tables
<1>1. CASE UNCHANGED vars
  BY <1>1 DEF vars
<1>2. CASE Interrupt
  BY <1>2 DEF Interrupt, KeyboardRaises, PitIrq, KeyboardIrq, SwitchIrq, SwitchEnds
<1>3. CASE RtcIrq
  BY <1>3 DEF RtcIrq, Need, Least
<1>4. ASSUME NEW t \in Terminals, Plain(t) PROVE Counters'
  BY <1>4 DEF Plain, BadNumber, Other, RTC_close, BadArguments, IgnoredFrequency,
              DivideError, Spin, systemCall_finish, systemCall_error, Leave, Store
<1>5. ASSUME NEW t \in Terminals, Clock(t) PROVE Counters'
  <2>1. CASE RTC_open(t)
    BY <2>1, PeriodInt DEF RTC_open, SetPeriod
  <2>2. CASE SetRate(t)
    BY <2>2 DEF SetRate
  <2>3. CASE Opened(t)
    BY <2>3 DEF Opened
  <2>4. CASE NewFrequency(t)
    <3>1. PICK freq \in Freqs \ {0} : ~Refused(freq) /\ SetPeriod(t, freq)
      BY <2>4 DEF NewFrequency
    <3>2. freq \in Int /\ freq > 0
      BY <3>1 DEF Refused
    <3> QED
      BY <3>1, <3>2, <2>4, PeriodInt DEF SetPeriod, NewFrequency
  <2>5. CASE RTC_read(t)
    BY <2>5 DEF RTC_read, Counted
  <2>6. CASE Take(t)
    BY <2>6 DEF Take, Counted
  <2> QED
    BY <1>5, <2>1, <2>2, <2>3, <2>4, <2>5, <2>6 DEF Clock
<1> QED
  BY <1>1, <1>2, <1>3, <1>4, <1>5, StepCases

LEMMA NextCountInv == Programs /\ Counters /\ CountInv /\ [Next]_vars => CountInv'
<1> SUFFICES ASSUME Programs, Counters, CountInv, [Next]_vars PROVE CountInv'
  OBVIOUS
<1> USE DEF CountInv, Reading, Need
<1>1. CASE UNCHANGED vars
  BY <1>1 DEF vars, clock, tables
<1>2. CASE Interrupt
  BY <1>2 DEF Interrupt, KeyboardRaises, PitIrq, KeyboardIrq, SwitchIrq, SwitchEnds, clock, tables
<1>3. CASE RtcIrq
  BY <1>3 DEF RtcIrq, tables, Least, Counters
<1>4. ASSUME NEW t \in Terminals, Plain(t) PROVE CountInv'
  <2>1. Moves(t) /\ UNCHANGED <<rtc_interrupt_flag, tables, seen>>
    BY <1>4, PlainMoves
  <2>2. program'[t].pc \in {"ret", "user", "finish"} \/ Spin(t)
    BY <1>4, PlainMoves
  <2>3. CASE Spin(t)
    BY <2>1, <2>3 DEF Moves, Programs, Spin, Runs, Goto, tables
  <2>4. CASE program'[t].pc \in {"ret", "user", "finish"}
    BY <2>1, <2>4 DEF Moves, Programs, tables
  <2> QED
    BY <2>2, <2>3, <2>4
<1>5. ASSUME NEW t \in Terminals, Clock(t) PROVE CountInv'
  <2> Moves(t)
    BY <1>5, ClockMoves
  <2> USE DEF Moves, Programs
  <2>1. CASE RTC_open(t)
    BY <2>1 DEF RTC_open, Runs, SetPeriod, Goto, Counters
  <2>2. CASE SetRate(t)
    BY <2>2 DEF SetRate, Runs, Goto, tables
  <2>3. CASE Opened(t)
    BY <2>3 DEF Opened
  <2>4. CASE NewFrequency(t)
    BY <2>4 DEF NewFrequency, Runs, SetPeriod, Result, Counters
  <2>5. CASE RTC_read(t)
    BY <2>5 DEF RTC_read, Counted, Runs, Goto, Result, Counters
  <2>6. CASE Take(t)
    BY <2>6 DEF Take, Counted, Runs, Goto, Result, Counters
  <2> QED
    BY <1>5, <2>1, <2>2, <2>3, <2>4, <2>5, <2>6 DEF Clock
<1> QED
  BY <1>1, <1>2, <1>3, <1>4, <1>5, StepCases

-----------------------------------------------------------------------------
(* The rate and the results. *)

LEMMA NextRateInv == Programs /\ RateInv /\ [Next]_vars => RateInv'
<1> SUFFICES ASSUME Programs, RateInv, [Next]_vars PROVE RateInv'
  OBVIOUS
<1> USE DEF RateInv, RateShared
<1>1. CASE UNCHANGED vars
  BY <1>1 DEF vars, clock, tables
<1>2. CASE Interrupt \/ RtcIrq
  BY <1>2 DEF Interrupt, KeyboardRaises, PitIrq, KeyboardIrq, SwitchIrq, SwitchEnds, RtcIrq, clock, tables
<1>3. ASSUME NEW t \in Terminals, Plain(t) PROVE RateInv'
  <2>1. Moves(t) /\ UNCHANGED <<hz, tables>> /\ (program'[t].open => program[t].open \/ rtc_initialized)
    BY <1>3, PlainMoves
  <2>2. program'[t].pc # "open"
    BY <1>3, PlainMoves DEF Spin, Runs, Goto, Programs
  <2> QED
    BY <2>1, <2>2 DEF Moves, Programs, tables
<1>4. ASSUME NEW t \in Terminals, Clock(t) PROVE RateInv'
  <2> Moves(t)
    BY <1>4, ClockMoves
  <2> USE DEF Moves, Programs
  <2>1. CASE RTC_open(t)
    BY <2>1 DEF RTC_open, Runs, Goto
  <2>2. CASE SetRate(t)
    BY <2>2 DEF SetRate, Runs, Goto, tables
  <2>3. CASE Opened(t)
    BY <2>3 DEF Opened, Runs
  <2>4. CASE NewFrequency(t)
    BY <2>4 DEF NewFrequency, Runs, Result
  <2>5. CASE RTC_read(t)
    BY <2>5 DEF RTC_read, Counted, Runs, Goto, Result
  <2>6. CASE Take(t)
    BY <2>6 DEF Take, Counted, Runs, Goto, Result
  <2> QED
    BY <1>4, <2>1, <2>2, <2>3, <2>4, <2>5, <2>6 DEF Clock
<1> QED
  BY <1>1, <1>2, <1>3, <1>4, StepCases

LEMMA NextResultInv == Programs /\ ResultInv /\ [Next]_vars => ResultInv'
<1> SUFFICES ASSUME Programs, ResultInv, [Next]_vars PROVE ResultInv'
  OBVIOUS
<1> USE DEF ResultInv
<1>1. CASE UNCHANGED vars
  BY <1>1 DEF vars
<1>2. CASE Interrupt \/ RtcIrq
  BY <1>2 DEF Interrupt, KeyboardRaises, PitIrq, KeyboardIrq, SwitchIrq, SwitchEnds, RtcIrq
<1>3. ASSUME NEW t \in Terminals, Plain(t) PROVE ResultInv'
  <2> Moves(t)
    BY <1>3, PlainMoves
  <2>1. CASE Store(t)
    BY <2>1 DEF Store, Goto, Moves, Programs
  <2>2. CASE ~Store(t)
    <3>1. sysCall_eax_save' = sysCall_eax_save
      BY <1>3, <2>2 DEF Plain, BadNumber, Other, RTC_close, BadArguments, IgnoredFrequency, DivideError,
                        Spin, systemCall_finish, systemCall_error, Leave
    <3>2. program'[t].pc # "finish"
      BY <1>3, <2>2 DEF Plain, BadNumber, Other, GoesOn, RTC_close, BadArguments, IgnoredFrequency,
                        DivideError, Spin, systemCall_finish, systemCall_error, Leave, Result, Goto, Programs
    <3> QED
      BY <3>1, <3>2 DEF Moves, Programs
  <2> QED
    BY <2>1, <2>2
<1>4. ASSUME NEW t \in Terminals, Clock(t) PROVE ResultInv'
  <2>1. Moves(t) /\ UNCHANGED sysCall_eax_save
    BY <1>4, ClockMoves
  <2>2. program'[t].pc # "finish"
    BY <1>4 DEF Clock, RTC_open, SetRate, Opened, NewFrequency, RTC_read, Take, Counted, Goto, Result, Programs
  <2> QED
    BY <2>1, <2>2 DEF Moves, Programs
<1> QED
  BY <1>1, <1>2, <1>3, <1>4, StepCases

(* A terminal that leaves a call finds what its handler has returned, as   *)
(* far as errors go.                                                       *)
LEMMA ErrorStep ==
  ASSUME Programs, ResultInv, [Next]_vars,
         NEW t \in Terminals, program[t].pc \in {"ret", "finish"}, program'[t].pc = "user"
  PROVE  Eax(t) = -1 <=> program[t].ret = -1
<1>1. CASE UNCHANGED program
  BY <1>1
<1>2. ASSUME NEW u \in Terminals, Plain(u) PROVE Eax(t) = -1 <=> program[t].ret = -1
  <2>1. t = u
    BY <1>2, PlainMoves DEF Moves, Programs
  <2>2. systemCall_finish(t) \/ systemCall_error(t)
    BY <1>2, <2>1 DEF Plain, BadNumber, Other, RTC_close, BadArguments, IgnoredFrequency,
                      DivideError, Spin, Store, Runs, Goto, Programs
  <2> QED
    BY <2>2 DEF systemCall_finish, systemCall_error, Runs, Eax, ResultInv
<1>3. ASSUME NEW u \in Terminals, Clock(u) PROVE FALSE
  <2>1. t = u
    BY <1>3, ClockMoves DEF Moves, Programs
  <2> QED
    BY <1>3, <2>1 DEF Clock, RTC_open, SetRate, Opened, NewFrequency, RTC_read, Take, Runs
<1>4. CASE Interrupt \/ RtcIrq \/ UNCHANGED vars
  BY <1>4, <1>1 DEF Interrupt, KeyboardRaises, PitIrq, KeyboardIrq, SwitchIrq, SwitchEnds, RtcIrq, vars
<1> QED
  BY <1>2, <1>3, <1>4, StepCases

(* A reader that returns has seen what it needs.                           *)
LEMMA ReadStep ==
  ASSUME Programs, Counters, CountInv, [Next]_vars,
         NEW t \in Terminals, Reading(t), program'[t].pc = "ret"
  PROVE  seen[t] >= Need(t)
<1>1. CASE UNCHANGED program
  BY <1>1 DEF Reading
<1>2. ASSUME NEW u \in Terminals, Plain(u) PROVE FALSE
  <2>1. t = u
    BY <1>2, PlainMoves DEF Moves, Programs, Reading
  <2> QED
    BY <1>2, <2>1 DEF Plain, BadNumber, Other, RTC_close, BadArguments, IgnoredFrequency, DivideError,
                      Spin, systemCall_finish, systemCall_error, Store, Runs, Goto, Programs, Reading
<1>3. ASSUME NEW u \in Terminals, Clock(u) PROVE seen[t] >= Need(t)
  <2>1. t = u
    BY <1>3, ClockMoves DEF Moves, Programs, Reading
  <2>2. Take(t)
    BY <1>3, <2>1 DEF Clock, RTC_open, SetRate, Opened, NewFrequency, RTC_read, Runs, Reading
  <2>3. rtc_counter[t] + 1 >= Need(t)
    BY <2>2 DEF Take, Counted, Goto, Programs, Counters, Need
  <2>4. rtc_counter[t] < seen[t]
    BY <2>2 DEF CountInv, Take, Runs
  <2> QED
    BY <2>3, <2>4 DEF Counters, Need
<1>4. CASE Interrupt \/ RtcIrq \/ UNCHANGED vars
  BY <1>4, <1>1 DEF Interrupt, KeyboardRaises, PitIrq, KeyboardIrq, SwitchIrq, SwitchEnds, RtcIrq, vars
<1> QED
  BY <1>2, <1>3, <1>4, StepCases

-----------------------------------------------------------------------------
(* The interrupt controllers. *)

(* What the controllers and the commands do to the three sets.             *)
LEMMA Accepted ==
  ASSUME NEW p, IsPic(p), NEW n
  PROVE  /\ IsPic(Accept(p, n)) /\ Accept(p, n).isr = p.isr \cup Chain(n)
         /\ Accept(p, n).irr = p.irr \ {n} /\ Accept(p, n).imr = p.imr
         /\ IsPic(Request(p, n)) /\ Request(p, n).isr = p.isr
<1>1. PICK irr, isr, imr : p = [irr |-> irr, isr |-> isr, imr |-> imr]
  BY DEF IsPic
<1>f. p.irr = irr /\ p.isr = isr /\ p.imr = imr
  BY <1>1
<1>2. Accept(p, n) = [irr |-> irr \ {n}, isr |-> isr \cup Chain(n), imr |-> imr]
  <2> DEFINE a == irr \ {n}
             b == isr \cup Chain(n)
  <2>1. Accept(p, n) = [p EXCEPT !.irr = a, !.isr = b]
    BY <1>f DEF Accept
  <2> HIDE DEF a, b
  <2>2. Accept(p, n) = [irr |-> a, isr |-> b, imr |-> imr]
    BY <1>1, <2>1
  <2> QED
    BY <2>2 DEF a, b
<1>3. Request(p, n) = [irr |-> irr \cup {n}, isr |-> isr, imr |-> imr]
  BY <1>1 DEF Request
<1>4. IsPic(Accept(p, n))
  BY <1>2, Zenon DEF IsPic
<1>5. IsPic(Request(p, n))
  BY <1>3, Zenon DEF IsPic
<1> QED
  BY <1>1, <1>2, <1>3, <1>4, <1>5

LEMMA Ended ==
  ASSUME NEW p, IsPic(p), NEW n
  PROVE  /\ IsPic(send_eoi(p, n)) /\ send_eoi(p, n).isr = p.isr \ Chain(n)
         /\ send_eoi(p, n).irr = p.irr /\ send_eoi(p, n).imr = p.imr
<1>1. PICK irr, isr, imr : p = [irr |-> irr, isr |-> isr, imr |-> imr]
  BY DEF IsPic
<1>2. send_eoi(p, n) = [irr |-> irr, isr |-> isr \ Chain(n), imr |-> imr]
  BY <1>1 DEF send_eoi
<1>3. IsPic(send_eoi(p, n))
  BY <1>2, Zenon DEF IsPic
<1> QED
  BY <1>1, <1>2, <1>3

LEMMA Enabled ==
  ASSUME NEW p, IsPic(p), NEW n
  PROVE  /\ IsPic(enable_irq(p, n)) /\ enable_irq(p, n).isr = p.isr
         /\ enable_irq(p, n).irr = p.irr /\ enable_irq(p, n).imr = p.imr \ {n}
<1>1. PICK irr, isr, imr : p = [irr |-> irr, isr |-> isr, imr |-> imr]
  BY DEF IsPic
<1>2. enable_irq(p, n) = [irr |-> irr, isr |-> isr, imr |-> imr \ {n}]
  BY <1>1 DEF enable_irq
<1>3. IsPic(enable_irq(p, n))
  BY <1>2, Zenon DEF IsPic
<1> QED
  BY <1>1, <1>2, <1>3

LEMMA Chains == Chain(0) = {0} /\ Chain(1) = {1} /\ Chain(8) = {8, 2}
BY DEF Chain, Cascade, NUM_PIC_PORTS

LEMMA Booted ==
  IsPic(BootPic) /\ BootPic.irr = {} /\ BootPic.isr = {} /\ BootPic.imr = IRQs \ {0, 1, 2, 8}
<1> DEFINE masked == i8259_init([irr |-> {}, isr |-> {}, imr |-> {}])
<1>1. IsPic(masked) /\ masked.irr = {} /\ masked.isr = {} /\ masked.imr = IRQs
  BY DEF IsPic, i8259_init
<1> HIDE DEF masked
<1>2. BootPic = enable_irq(enable_irq(enable_irq(enable_irq(masked, 1), 2), 8), 0)
  BY DEF BootPic, masked
<1> QED
  BY <1>1, <1>2, Enabled

LEMMA NextServiceOwned ==
  Controllers /\ ServiceOwned /\ [Next]_vars => Controllers' /\ ServiceOwned'
<1> SUFFICES ASSUME Controllers, ServiceOwned, [Next]_vars PROVE Controllers' /\ ServiceOwned'
  OBVIOUS
<1>0. IsPic(pic) /\ cur_execute_terminal \in Terminals /\ pic.isr \in {{}, {1}}
  BY DEF Controllers, ServiceOwned
<1> SUFFICES IsPic(pic') /\ cur_execute_terminal' \in Terminals /\ ServiceOwned'
  BY DEF Controllers
(* A key is not accepted while one is in service.                          *)
<1>k. Deliverable(pic, 1) => pic.isr = {}
  BY <1>0, Chains DEF Deliverable, SamePic, NUM_PIC_PORTS
<1> USE <1>0, Accepted, Ended, Chains DEF ServiceOwned
<1>1. CASE UNCHANGED vars
  BY <1>1 DEF vars
<1>2. CASE KeyboardRaises
  BY <1>2 DEF KeyboardRaises
<1>3. CASE PitIrq
  <2>1. IsPic(pic') /\ pic'.isr = ((pic.isr \cup {0}) \ {0}) \ {0}
    BY <1>3 DEF PitIrq
  <2>2. pic'.isr = pic.isr
    BY <2>1
  <2>3. cur_execute_terminal' \in Terminals
    BY <1>3 DEF PitIrq, Terminals
  <2> QED
    BY <1>3, <2>1, <2>2, <2>3 DEF PitIrq
<1>4. CASE KeyboardIrq
  <2>1. IsPic(pic') /\ pic'.isr = (pic.isr \cup {1}) \ {1}
    BY <1>4 DEF KeyboardIrq
  <2>2. pic'.isr = {} /\ pic.isr = {}
    BY <2>1, <1>4, <1>k DEF KeyboardIrq
  <2> QED
    BY <1>4, <2>1, <2>2 DEF KeyboardIrq
<1>5. CASE SwitchIrq
  <2>1. IsPic(pic') /\ pic'.isr = pic.isr \cup {1}
    BY <1>5 DEF SwitchIrq
  <2>2. pic'.isr = {1}
    BY <2>1, <1>5, <1>k DEF SwitchIrq
  <2>3. switching' # NoSwitch
    BY <1>5 DEF SwitchIrq, Terminals, NoSwitch
  <2> QED
    BY <1>5, <2>1, <2>2, <2>3 DEF SwitchIrq
<1>6. CASE SwitchEnds
  BY <1>6 DEF SwitchEnds, Terminals, NoSwitch
<1>7. CASE RtcIrq
  <2>1. IsPic(pic') /\ pic'.isr = (pic.isr \cup {8, 2}) \ {8, 2}
    BY <1>7 DEF RtcIrq
  <2>2. pic'.isr = pic.isr
    BY <2>1
  <2> QED
    BY <1>7, <2>1, <2>2 DEF RtcIrq
<1>8. ASSUME NEW t \in Terminals, Plain(t) \/ Clock(t) PROVE UNCHANGED <<pic, cur_execute_terminal, switching>>
  BY <1>8 DEF Plain, Clock, BadNumber, Other, RTC_close, BadArguments, IgnoredFrequency, DivideError, Spin,
              systemCall_finish, systemCall_error, Store, RTC_open, SetRate, Opened, NewFrequency,
              RTC_read, Take, Runs
<1> QED
  BY <1>1, <1>2, <1>3, <1>4, <1>5, <1>6, <1>7, <1>8, StepCases DEF Interrupt

-----------------------------------------------------------------------------
(* The types of module Rtc.  They need the invariants: hz has no third     *)
(* value because of RateInv, no reader counts too far because of CountInv. *)

LEMMA Quotient ==
  ASSUME NEW a \in Nat, NEW b \in Nat \ {0}
  PROVE  a \div b \in 0 .. a
OBVIOUS

PicType == pic \in [irr : SUBSET {1}, isr : SUBSET {1}, imr : {IRQs \ {0, 1, 2, 8}}]

ClockType ==
  /\ hz \in {2, MaxFreq} /\ rtc_interrupt_flag \in {0, 1}
  /\ terminal_rtc \in [Terminals -> 0 .. MaxFreq]
  /\ \A t \in Terminals : rtc_counter[t] \in Nat
  /\ rtc_initialized \in BOOLEAN

ProgramType ==
  /\ sysCall_eax_save \in Results
  /\ program \in [Terminals -> [pc : Pcs, ret : Results, open : BOOLEAN]]

TurnType == switching \in Terminals \cup {NoSwitch} /\ keys \in 0 .. MaxKeys

LEMMA PicSet ==
  ASSUME NEW p, IsPic(p), p.irr \subseteq {1}, p.isr \subseteq {1}, NEW imr, p.imr = imr
  PROVE  p \in [irr : SUBSET {1}, isr : SUBSET {1}, imr : {imr}]
BY DEF IsPic

LEMMA PicRecords ==
  ASSUME PicType, NEW n \in {0, 1, 8}
  PROVE  /\ send_eoi(Accept(pic, n), n) \in [irr : SUBSET {1}, isr : SUBSET {1}, imr : {pic.imr}]
         /\ send_eoi(send_eoi(Accept(pic, n), n), n) \in [irr : SUBSET {1}, isr : SUBSET {1}, imr : {pic.imr}]
         /\ send_eoi(pic, n) \in [irr : SUBSET {1}, isr : SUBSET {1}, imr : {pic.imr}]
<1>1. IsPic(pic)
  BY Zenon DEF PicType, IsPic
<1>2. pic.irr \subseteq {1} /\ pic.isr \subseteq {1}
  BY DEF PicType
<1> DEFINE a == Accept(pic, n)
           e == send_eoi(a, n)
           f == send_eoi(e, n)
           g == send_eoi(pic, n)
<1>3. /\ IsPic(a) /\ a.irr = pic.irr \ {n} /\ a.isr = pic.isr \cup Chain(n) /\ a.imr = pic.imr
      /\ IsPic(g) /\ g.irr = pic.irr /\ g.isr = pic.isr \ Chain(n) /\ g.imr = pic.imr
  BY <1>1, Accepted, Ended
<1> HIDE DEF a, g
<1>4. IsPic(e) /\ e.irr = a.irr /\ e.isr = a.isr \ Chain(n) /\ e.imr = a.imr
  BY <1>3, Ended
<1> HIDE DEF e
<1>5. IsPic(f) /\ f.irr = e.irr /\ f.isr = e.isr \ Chain(n) /\ f.imr = e.imr
  BY <1>4, Ended
<1> HIDE DEF f
<1>6. /\ e.irr \subseteq {1} /\ f.irr \subseteq {1} /\ g.irr \subseteq {1}
      /\ e.isr \subseteq {1} /\ f.isr \subseteq {1} /\ g.isr \subseteq {1}
  BY <1>2, <1>3, <1>4, <1>5
<1>7. \A p \in {e, f, g} : p \in [irr : SUBSET {1}, isr : SUBSET {1}, imr : {pic.imr}]
  BY <1>3, <1>4, <1>5, <1>6, PicSet
<1> QED
  BY <1>7 DEF a, e, f, g

LEMMA NextPicType == PicType /\ ServiceOwned /\ Controllers /\ [Next]_vars => PicType'
<1> SUFFICES ASSUME PicType, ServiceOwned, Controllers, [Next]_vars PROVE PicType'
  OBVIOUS
<1>1. CASE UNCHANGED vars
  BY <1>1 DEF vars, PicType
<1>2. CASE KeyboardRaises
  BY <1>2 DEF KeyboardRaises, PicType, Request
<1>3. CASE PitIrq \/ KeyboardIrq \/ SwitchEnds \/ RtcIrq
  BY <1>3, PicRecords DEF PitIrq, KeyboardIrq, SwitchEnds, RtcIrq, PicType
<1>4. CASE SwitchIrq
  BY <1>4, Chains DEF SwitchIrq, Accept, PicType
<1>5. ASSUME NEW t \in Terminals, Plain(t) \/ Clock(t) PROVE pic' = pic
  BY <1>5 DEF Plain, Clock, BadNumber, Other, RTC_close, BadArguments, IgnoredFrequency, DivideError, Spin,
              systemCall_finish, systemCall_error, Store, RTC_open, SetRate, Opened, NewFrequency,
              RTC_read, Take, Runs
<1> QED
  BY <1>1, <1>2, <1>3, <1>4, <1>5, StepCases DEF Interrupt, PicType

LEMMA NextTurnType == TurnType /\ Controllers /\ [Next]_vars => TurnType'
<1> SUFFICES ASSUME TurnType, Controllers, [Next]_vars PROVE TurnType'
  OBVIOUS
<1>1. CASE UNCHANGED vars
  BY <1>1 DEF vars, TurnType
<1>2. CASE Interrupt \/ RtcIrq
  BY <1>2, MaxKeysAssumption
     DEF Interrupt, KeyboardRaises, PitIrq, KeyboardIrq, SwitchIrq, SwitchEnds, RtcIrq, TurnType, Controllers
<1>3. ASSUME NEW t \in Terminals, Plain(t) \/ Clock(t) PROVE UNCHANGED <<switching, keys>>
  BY <1>3 DEF Plain, Clock, BadNumber, Other, RTC_close, BadArguments, IgnoredFrequency, DivideError, Spin,
              systemCall_finish, systemCall_error, Store, RTC_open, SetRate, Opened, NewFrequency,
              RTC_read, Take, Runs
<1> QED
  BY <1>1, <1>2, <1>3, StepCases DEF TurnType

LEMMA NextClockType ==
  ClockType /\ Programs /\ RateInv /\ Counters /\ [Next]_vars => ClockType'
<1> SUFFICES ASSUME ClockType, Programs, RateInv, Counters, [Next]_vars PROVE ClockType'
  OBVIOUS
<1> USE DEF ClockType, tables, clock
<1>1. CASE UNCHANGED vars
  BY <1>1 DEF vars
<1>2. CASE Interrupt \/ RtcIrq
  BY <1>2 DEF Interrupt, KeyboardRaises, PitIrq, KeyboardIrq, SwitchIrq, SwitchEnds, RtcIrq
<1>3. ASSUME NEW t \in Terminals, Plain(t) PROVE ClockType'
  BY <1>3, PlainMoves
<1>4. ASSUME NEW t \in Terminals, Clock(t) PROVE ClockType'
  <2>1. CASE RTC_open(t)
    BY <2>1, Quotient DEF RTC_open, SetPeriod, Least
  <2>2. CASE SetRate(t)
    BY <2>2 DEF SetRate
  <2>3. CASE Opened(t)
    BY <2>3 DEF Opened
  <2>4. CASE NewFrequency(t)
    <3>1. PICK freq \in Freqs \ {0} : ~Refused(freq) /\ SetPeriod(t, freq)
      BY <2>4 DEF NewFrequency
    <3>2. Least(freq, MaxFreq) \in Nat \ {0}
      BY <3>1 DEF Refused, Least
    <3>3. terminal_rtc' \in [Terminals -> 0 .. MaxFreq]
      BY <3>1, <3>2, Quotient DEF SetPeriod
    <3>4. hz' = hz
      BY <2>4 DEF NewFrequency, RateInv
    <3> QED
      BY <2>4, <3>3, <3>4 DEF NewFrequency
  <2>5. CASE RTC_read(t) \/ Take(t)
    <3>1. rtc_counter' = [rtc_counter EXCEPT ![t] = 0] \/ rtc_counter' = [rtc_counter EXCEPT ![t] = @ + 1]
      BY <2>5 DEF RTC_read, Take, Counted
    <3> QED
      BY <2>5, <3>1 DEF RTC_read, Take, Counters
  <2> QED
    BY <1>4, <2>1, <2>2, <2>3, <2>4, <2>5 DEF Clock
<1> QED
  BY <1>1, <1>2, <1>3, <1>4, StepCases

LEMMA NextProgramType == ProgramType /\ [Next]_vars => ProgramType'
<1> SUFFICES ASSUME ProgramType, [Next]_vars PROVE ProgramType'
  OBVIOUS
<1> USE DEF ProgramType, Results, Pcs
<1>1. CASE UNCHANGED vars
  BY <1>1 DEF vars
<1>2. CASE Interrupt \/ RtcIrq
  BY <1>2 DEF Interrupt, KeyboardRaises, PitIrq, KeyboardIrq, SwitchIrq, SwitchEnds, RtcIrq
<1>3. ASSUME NEW t \in Terminals, BadNumber(t) \/ BadArguments(t) \/ IgnoredFrequency(t) \/ NewFrequency(t)
      PROVE  ProgramType'
  <2>1. sysCall_eax_save' = sysCall_eax_save /\ (Result(t, -1) \/ Result(t, 4))
    BY <1>3 DEF BadNumber, BadArguments, IgnoredFrequency, NewFrequency
  <2> QED
    BY <2>1 DEF Result
<1>4. ASSUME NEW t \in Terminals, Other(t) \/ DivideError(t) PROVE ProgramType'
  BY <1>4 DEF Other, DivideError, GoesOn
<1>5. ASSUME NEW t \in Terminals, RTC_close(t) \/ Opened(t) PROVE ProgramType'
  <2>1. /\ sysCall_eax_save' = sysCall_eax_save
        /\ \E open \in BOOLEAN :
             program' = [program EXCEPT ![t] = [pc |-> "ret", ret |-> 0, open |-> open]]
    BY <1>5 DEF RTC_close, Opened
  <2> QED
    BY <2>1
<1>6. ASSUME NEW t \in Terminals, Spin(t) \/ Store(t) PROVE ProgramType'
  BY <1>6 DEF Spin, Store, Goto
<1>7. ASSUME NEW t \in Terminals, systemCall_finish(t) \/ systemCall_error(t) PROVE ProgramType'
  BY <1>7 DEF systemCall_finish, systemCall_error, Leave
<1>8. ASSUME NEW t \in Terminals, RTC_open(t) \/ SetRate(t) PROVE ProgramType'
  BY <1>8 DEF RTC_open, SetRate, Goto
<1>9. ASSUME NEW t \in Terminals, RTC_read(t) \/ Take(t) PROVE ProgramType'
  BY <1>9 DEF RTC_read, Take, Counted, Goto, Result
<1> QED
  BY <1>1, <1>2, <1>3, <1>4, <1>5, <1>6, <1>7, <1>8, <1>9, StepCases DEF Plain, Clock

-----------------------------------------------------------------------------
(* Theorems *)

(* The invariant: an interrupt is counted once and only by a read that it  *)
(* has come to, and errors, the rate and the service bits as above.        *)
RtcInv ==
  /\ Programs /\ Counters /\ Controllers
  /\ CountInv /\ RateInv /\ ResultInv /\ ServiceOwned

LEMMA InitRtcInv == Init => RtcInv
<1> SUFFICES ASSUME Init PROVE RtcInv
  OBVIOUS
<1>1. Programs /\ Counters /\ CountInv /\ RateInv /\ ResultInv
  BY DEF Init, User, Programs, Pcs, Counters, CountInv, Reading, RateInv, RateShared, ResultInv
<1>2. IsPic(BootPic) /\ BootPic.isr = {}
  BY Booted
<1>3. Controllers /\ ServiceOwned
  BY <1>2 DEF Init, Controllers, ServiceOwned, Terminals
<1> QED
  BY <1>1, <1>3 DEF RtcInv

LEMMA NextRtcInv == RtcInv /\ [Next]_vars => RtcInv'
BY NextPrograms, NextCounters, NextCountInv, NextRateInv, NextResultInv, NextServiceOwned DEF RtcInv

(* The invariant holds in every behaviour of the clock, its interrupts and *)
(* the programs that use it (rtc.c, systemcall.S, i8259.c).                *)
THEOREM InvariantHolds == Spec => []RtcInv
BY InitRtcInv, NextRtcInv, PTL DEF Spec

(* A read of the clock never returns early (rtc.c:153-165).                *)
THEOREM NeverEarlyHolds == Spec => NeverEarly
<1>1. RtcInv /\ [Next]_vars =>
        [\A t \in Terminals : Reading(t) /\ program'[t].pc = "ret" => seen[t] >= Need(t)]_vars
  BY ReadStep DEF RtcInv
<1> QED
  BY <1>1, InvariantHolds, PTL DEF Spec, NeverEarly

(* The result of a call is an error for its program exactly if it is one,  *)
(* though results pass through one global (systemcall.S:46-63).            *)
THEOREM ErrorsSurviveHolds == Spec => ErrorsSurvive
<1>1. RtcInv /\ [Next]_vars =>
        [\A t \in Terminals :
           program[t].pc \in {"ret", "finish"} /\ program'[t].pc = "user"
             => (Eax(t) = -1 <=> program[t].ret = -1)]_vars
  BY ErrorStep DEF RtcInv
<1> QED
  BY <1>1, InvariantHolds, PTL DEF Spec, ErrorsSurvive

(* The clock keeps the rate that all periods are computed from             *)
(* (rtc.c:76-78).                                                          *)
THEOREM RateSharedHolds == Spec => []RateShared
<1>1. RtcInv => RateShared
  BY DEF RtcInv, RateInv
<1> QED
  BY <1>1, InvariantHolds, PTL

(* No interrupt stays in service but that of a suspended handler           *)
(* (i8259.c:98, pit.c:36).                                                 *)
THEOREM ServiceOwnedHolds == Spec => []ServiceOwned
<1>1. RtcInv => ServiceOwned
  BY DEF RtcInv
<1> QED
  BY <1>1, InvariantHolds, PTL

(* The type invariant, and that no reader counts more interrupts than it   *)
(* waits for (rtc.c:156).                                                  *)
THEOREM TypeCorrect == Spec => []TypeOK
<1> DEFINE Inv == RtcInv /\ PicType /\ ClockType /\ ProgramType /\ TurnType
<1>1. Init => Inv
  <2> SUFFICES ASSUME Init PROVE PicType /\ ClockType /\ ProgramType /\ TurnType
    BY InitRtcInv
  <2>1. PicType
    BY Booted, PicSet DEF Init, PicType
  <2>2. ClockType
    <3>1. 0 \in 0 .. MaxFreq
      OBVIOUS
    <3>2. terminal_rtc \in [Terminals -> 0 .. MaxFreq]
      BY <3>1, Zenon DEF Init
    <3> QED
      BY <3>2 DEF Init, ClockType
  <2>3. ProgramType
    <3>1. User \in [pc : Pcs, ret : Results, open : BOOLEAN]
      BY DEF User, Pcs, Results
    <3> QED
      BY <3>1 DEF Init, ProgramType, Results
  <2>4. TurnType
    BY MaxKeysAssumption DEF Init, TurnType
  <2> QED
    BY <2>1, <2>2, <2>3, <2>4
<1>2. Inv /\ [Next]_vars => Inv'
  BY NextRtcInv, NextPicType, NextClockType, NextProgramType, NextTurnType DEF RtcInv
<1>3. Inv => TypeOK
  <2> SUFFICES ASSUME Inv PROVE TypeOK
    OBVIOUS
  <2>1. \A t \in Terminals : Reading(t) => rtc_counter[t] <= Need(t)
    BY DEF RtcInv, CountInv, Counters, Need
  <2> QED
    BY <2>1 DEF RtcInv, PicType, ClockType, ProgramType, TurnType, Controllers, ResultInv, TypeOK
<1> QED
  BY <1>1, <1>2, <1>3, PTL DEF Spec
=============================================================================
