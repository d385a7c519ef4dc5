------------------------------ MODULE Console ------------------------------
(***************************************************************************)
(* The input side of FuzzyOS's terminals: the keyboard interrupt           *)
(* (keyboard.c), terminal_read (Terminal.c) and what a switch of the       *)
(* displayed terminal does to the line buffers (system_call.c).            *)
(*                                                                         *)
(* There is one keyboard_buf; a terminal that is not displayed keeps its   *)
(* line in _keyboard_buf.  The keyboard handler runs with interrupts off   *)
(* and is one step, except for the switch of terminals, which enables them *)
(* before it is done.  terminal_read is preempted anywhere but between its *)
(* cli and sti.  What the keys show on the screen is in module Screen.     *)
(***************************************************************************)
EXTENDS Integers, Sequences

CONSTANTS
  NumTerminals,  \* NUM_TERMINALS
  BufLen,        \* length of keyboard_buf; buffer_size is one more
  ReadSizes,     \* the numbers of bytes that programs ask for
  Races          \* the coincidences that may happen, of RaceNames

(* typeahead: a key for a terminal whose finished line is not read yet;    *)
(* elsewhere: the user leaves an unfinished line at the terminal that was  *)
(* displayed when the read of another terminal began;                      *)
(* copy: a switch between the end of terminal_read's loop and its cli;     *)
(* tick: a timer interrupt between sti and the end of a switch;            *)
(* lastbyte: a switch while a line uses the byte behind keyboard_buf;      *)
(* tab: a tab when the line is full.                                       *)
RaceNames == {"typeahead", "elsewhere", "copy", "tick", "lastbyte", "tab"}

ASSUME NumTerminalsAssumption == NumTerminals \in Nat \ {0}
ASSUME BufLenAssumption == BufLen \in Nat \ {0}
ASSUME ReadSizesAssumption == ReadSizes \subseteq Nat \ {0}
ASSUME RacesAssumption == Races \subseteq RaceNames

Terminals == 0 .. NumTerminals - 1

VARIABLES
  cur_display_terminal,
  cur_execute_terminal,
  keyboard_buf,   \* 0 .. BufLen; the last one is the byte behind the array
  terminal_data,  \* terminal -> its terminal_t: buf, loc, enter, caps
  caps_flag,
  program,        \* terminal -> what its program does: pc and its locals
  switching,      \* the handler that is in the middle of a switch, or none
  received        \* history: the line that has just been handed over

vars == <<cur_display_terminal, cur_execute_terminal, keyboard_buf, terminal_data,
          caps_flag, program, switching, received>>

turns == <<cur_display_terminal, cur_execute_terminal>>

-----------------------------------------------------------------------------
BufferSize == BufLen + 1                       \* buffer_size
NoSwitch   == [on |-> -1, to |-> -1]
User       == [pc |-> "user", at |-> -1, n |-> 0]

Blank      == [buf |-> [i \in 0 .. BufLen - 1 |-> "nul"], loc |-> 0, enter |-> FALSE, caps |-> FALSE]

(* The state in which all shells run: the boot branches have displayed and *)
(* executed terminal 0 last.                                               *)
Init ==
  /\ cur_display_terminal = 0
  /\ cur_execute_terminal = 0
  /\ keyboard_buf = [i \in 0 .. BufLen |-> "nul"]
  /\ terminal_data = [t \in Terminals |-> Blank]
  /\ caps_flag = FALSE
  /\ program = [t \in Terminals |-> User]
  /\ switching = NoSwitch
  /\ received = <<>>

Displayed == terminal_data[cur_display_terminal]

-----------------------------------------------------------------------------
(* The keyboard interrupt.  IRQ 1 stays in service, and the next key       *)
(* waits, until a switch has sent its EOI.                                 *)

KeyboardIrq == switching = NoSwitch /\ received' = <<>>

(* No finished line waits at the displayed terminal.                       *)
InTime == Displayed.enter => "typeahead" \in Races

Store(c) == keyboard_buf' = [i \in 0 .. BufLen |-> IF i = Displayed.loc THEN c ELSE keyboard_buf[i]]

SetLoc(l) == terminal_data' = [terminal_data EXCEPT ![cur_display_terminal].loc = l]

(* There is no test for a full buffer.                                     *)
TabKey ==
  /\ KeyboardIrq /\ InTime
  /\ Displayed.loc >= BufferSize => "tab" \in Races
  /\ Store("c")
  /\ SetLoc(Displayed.loc + 1)
  /\ UNCHANGED <<turns, caps_flag, program, switching>>

(* Both branches move the position back unless it is 0.                    *)
BackspaceKey ==
  /\ KeyboardIrq
  /\ SetLoc(IF Displayed.loc > 0 THEN Displayed.loc - 1 ELSE 0)
  /\ UNCHANGED <<turns, keyboard_buf, caps_flag, program, switching>>

CapsLock ==
  /\ KeyboardIrq
  /\ caps_flag' = ~caps_flag
  /\ UNCHANGED <<turns, keyboard_buf, terminal_data, program, switching>>

(* Wrong on purpose: off by one at the end of the buffer.                  *)
CharKeyTooLong ==
  /\ KeyboardIrq /\ InTime
  /\ Displayed.loc <= BufferSize
  /\ Store("c")
  /\ SetLoc(Displayed.loc + 1)
  /\ UNCHANGED <<turns, caps_flag, program, switching>>

CharKey ==
  /\ KeyboardIrq /\ InTime
  /\ Displayed.loc < BufferSize
  /\ Store("c")
  /\ SetLoc(Displayed.loc + 1)
  /\ UNCHANGED <<turns, caps_flag, program, switching>>

EnterKey ==
  /\ KeyboardIrq /\ InTime
  /\ Displayed.loc < BufferSize
  /\ Store("\n")
  /\ terminal_data' = [terminal_data EXCEPT ![cur_display_terminal].enter = TRUE,
                                            ![cur_display_terminal].loc = 0]
  /\ UNCHANGED <<turns, caps_flag, program, switching>>

ClearKey ==
  /\ KeyboardIrq
  /\ SetLoc(0)
  /\ UNCHANGED <<turns, keyboard_buf, caps_flag, program, switching>>

-----------------------------------------------------------------------------
(* The switch of the displayed terminal: change_display_terminal exchanges *)
(* the buffers and enables interrupts; the rest of the handler, on the     *)
(* stack of the terminal it has interrupted, makes the new terminal the    *)
(* displayed one and sends the EOI.                                        *)

(* Wrong on purpose: the line is saved, but that of the new terminal is    *)
(* not loaded.                                                             *)
ExchangeWithoutLoad(from, to) ==
  /\ terminal_data' = [terminal_data EXCEPT
       ![from].buf = [i \in 0 .. BufLen - 1 |-> keyboard_buf[i]],
       ![from].caps = caps_flag,
       ![to].buf = Blank.buf,
       ![to].caps = Blank.caps]
  /\ caps_flag' = terminal_data[to].caps
  /\ UNCHANGED keyboard_buf

(* The copies that the displayed terminal has in terminal_data are not     *)
(* read before they are written again; they are blank here.                *)
Exchange(from, to) ==
  /\ terminal_data' = [terminal_data EXCEPT
       ![from].buf = [i \in 0 .. BufLen - 1 |-> keyboard_buf[i]],
       ![from].caps = caps_flag,
       ![to].buf = Blank.buf,
       ![to].caps = Blank.caps]
  /\ keyboard_buf' = [i \in 0 .. BufLen |->
       IF i < BufLen THEN terminal_data[to].buf[i] ELSE keyboard_buf[i]]
  /\ caps_flag' = terminal_data[to].caps

LineUsesLastByte ==
  \/ Displayed.loc > BufLen
  \/ Displayed.enter /\ \A i \in 0 .. BufLen - 1 : keyboard_buf[i] # "\n"

SwitchAllowed ==
  /\ "elsewhere" \in Races \/ Displayed.loc = 0
     \/ \A t \in Terminals \ {cur_display_terminal} : program[t].at # cur_display_terminal
  /\ "copy" \in Races \/ \A t \in Terminals : program[t].pc # "copy"
  /\ "lastbyte" \in Races \/ ~LineUsesLastByte

FunctionKey(to) ==
  /\ KeyboardIrq /\ SwitchAllowed
  /\ to # cur_display_terminal
  /\ Exchange(cur_display_terminal, to)
  /\ switching' = [on |-> cur_execute_terminal, to |-> to]
  /\ UNCHANGED <<turns, program>>

SetDisplayTerm ==
  /\ switching.on = cur_execute_terminal
  /\ cur_display_terminal' = switching.to
  /\ switching' = NoSwitch
  /\ received' = <<>>
  /\ UNCHANGED <<cur_execute_terminal, keyboard_buf, terminal_data, caps_flag, program>>

-----------------------------------------------------------------------------
(* terminal_read.  The program of the terminal that has the turn executes, *)
(* unless the handler of the keyboard interrupt is on top of its stack.    *)

Runs(t, pc) ==
  /\ t = cur_execute_terminal /\ switching.on # t
  /\ program[t].pc = pc

(* Up to the loop: the terminal whose position the call is going to reset  *)
(* is the one displayed now.                                               *)
Read(t, n) ==
  /\ Runs(t, "user")
  /\ program' = [program EXCEPT ![t] =
       [pc |-> "wait", at |-> cur_display_terminal, n |-> IF n > BufferSize THEN BufferSize ELSE n]]
  /\ received' = <<>>
  /\ UNCHANGED <<turns, keyboard_buf, terminal_data, caps_flag, switching>>

(* Wrong on purpose: waits for the terminal that was displayed at first.   *)
AwakeAtStart(t) ==
  /\ Runs(t, "wait")
  /\ terminal_data[program[t].at].enter /\ cur_display_terminal = program[t].at
  /\ program' = [program EXCEPT ![t].pc = "copy"]
  /\ received' = <<>>
  /\ UNCHANGED <<turns, keyboard_buf, terminal_data, caps_flag, switching>>

(* The loop ends.                                                          *)
Awake(t) ==
  /\ Runs(t, "wait")
  /\ terminal_data[t].enter /\ cur_display_terminal = t
  /\ program' = [program EXCEPT ![t].pc = "copy"]
  /\ received' = <<>>
  /\ UNCHANGED <<turns, keyboard_buf, terminal_data, caps_flag, switching>>

(* Up to n bytes of a buffer, up to and including a newline.               *)
Line(buf, n) ==
  LET stops == {i \in 0 .. n - 1 : buf[i] = "\n"}
      len   == IF stops = {} THEN n
               ELSE 1 + CHOOSE i \in stops : \A j \in stops : i <= j
  IN  [i \in 1 .. len |-> buf[i - 1]]

(* From cli to sti, and the return.                                        *)
Copy(t) ==
  /\ Runs(t, "copy")
  /\ received' = <<t>> \o Line(keyboard_buf, program[t].n)
  /\ terminal_data' = [terminal_data EXCEPT ![program[t].at].loc = 0, ![t].enter = FALSE]
  /\ program' = [program EXCEPT ![t] = User]
  /\ UNCHANGED <<turns, keyboard_buf, caps_flag, switching>>

-----------------------------------------------------------------------------
(* The timer: the next terminal has the turn.                              *)
Tick ==
  /\ "tick" \in Races \/ switching = NoSwitch
  /\ cur_execute_terminal' = (cur_execute_terminal + 1) % NumTerminals
  /\ received' = <<>>
  /\ UNCHANGED <<cur_display_terminal, keyboard_buf, terminal_data, caps_flag, program, switching>>

-----------------------------------------------------------------------------
Keyboard ==
  \/ TabKey \/ BackspaceKey \/ CharKey \/ EnterKey \/ ClearKey \/ CapsLock
  \/ \E to \in Terminals : FunctionKey(to)

Next ==
  \/ Keyboard \/ SetDisplayTerm \/ Tick
  \/ \E t \in Terminals : Awake(t) \/ Copy(t) \/ \E n \in ReadSizes : Read(t, n)

Spec == Init /\ [][Next]_vars

(* A slice of the timer is long enough for some steps of the kernel, and   *)
(* the timer fires for ever.  Nobody has to type.                          *)
Fairness ==
  /\ WF_vars(Tick)
  /\ SF_vars(SetDisplayTerm)
  /\ \A t \in Terminals : SF_vars(Awake(t)) /\ SF_vars(Copy(t))

FairSpec == Spec /\ Fairness

-----------------------------------------------------------------------------
(* Properties *)

(* Every variable has its type; a line never gets longer than buffer_size  *)
(* (keyboard.c:201).                                                       *)
TypeOK ==
  /\ {cur_display_terminal, cur_execute_terminal} \subseteq Terminals
  /\ keyboard_buf \in [0 .. BufLen -> {"nul", "c", "\n"}]
  /\ DOMAIN terminal_data = Terminals
  /\ \A t \in Terminals : terminal_data[t].loc \in 0 .. BufferSize
  /\ program \in [Terminals -> [pc : {"user", "wait", "copy"}, at : -1 .. NumTerminals - 1,
                                n : 0 .. BufferSize]]

(* The terminal whose line keyboard_buf holds.                             *)
Shown == IF switching = NoSwitch THEN cur_display_terminal ELSE switching.to

Buffer(t) ==
  [i \in 0 .. BufLen |-> IF t = Shown \/ i = BufLen THEN keyboard_buf[i]
                                                    ELSE terminal_data[t].buf[i]]

Prompted == INSTANCE Lines WITH
  Limit    <- BufferSize,
  shown    <- Shown,
  caps     <- [t \in Terminals |-> IF t = Shown THEN caps_flag ELSE terminal_data[t].caps],
  typing   <- [t \in Terminals |-> [i \in 1 .. terminal_data[t].loc |-> Buffer(t)[i - 1]]],
  finished <- [t \in Terminals |->
                 IF terminal_data[t].enter THEN Line(Buffer(t), BufferSize) ELSE <<>>]

(* A line goes to the terminal it was typed at, whole and once, in the     *)
(* case its own caps lock says, however reads, switches of the display and *)
(* of the turn interleave around the one keyboard_buf (keyboard.c:85,      *)
(* Terminal.c:24, system_call.c:518).                                      *)
LinesSpec == Prompted!Spec

(* A program that waits for a line gets it once it is finished, unless the *)
(* user switches to another terminal (Terminal.c:37).                      *)
LineDelivered ==
  \A t \in Terminals :
    (program[t].pc = "wait" /\ terminal_data[t].enter)
      ~> (program[t].pc # "wait" \/ cur_display_terminal # t)
=============================================================================
