------------------------------- MODULE Screen -------------------------------
(***************************************************************************)
(* The output side of FuzzyOS's terminals: what keys and terminal_write    *)
(* put on the screens (keyboard.c, Terminal.c, lib.c), how a switch of the *)
(* displayed terminal moves them between the video memory and the memory   *)
(* of a terminal (system_call.c), and what a program reaches of them       *)
(* through the page that vidmap and the scheduler map.                     *)
(*                                                                         *)
(* Interrupts happen as in module Console; terminal_write is interrupted   *)
(* between characters.                                                     *)
(***************************************************************************)
EXTENDS Paging, Library

CONSTANTS
  Rows, Cols,    \* NUM_ROWS, NUM_COLS
  MaxLine,       \* length of the line that is typed: buffer_size
  Outputs,       \* what programs write: sequences of characters, as numbers
  Prompt,        \* what ctrl-L prints
  Races          \* the coincidences that may happen, of RaceNames

(* putc: a switch inside terminal_putc, between its choice of a memory and *)
(* its last write; tick: a timer interrupt between sti and the end of a    *)
(* switch; limit: a backspace at a deletion limit that is out of date.     *)
RaceNames == {"putc", "tick", "limit"}

ASSUME ScreenAssumption == {Rows, Cols, MaxLine} \subseteq Nat \ {0}
ASSUME RacesAssumption == Races \subseteq RaceNames
ASSUME TextsAssumption == Prompt \in Seq(Nat) /\ Outputs \subseteq Seq(Nat)

NEWLINE == 10
TAB     == 9

VARIABLES
  cur_display_terminal,
  cur_execute_terminal,
  video,          \* memory -> its bytes, a character and its colour in turn
  terminal_data,  \* terminal -> x, y, save_y
  cursor,         \* the position the hardware shows
  line,           \* terminal -> the line that is being typed, TAB or SPACE + 1
  program,        \* terminal -> pc and what is left to write
  switching,      \* the handler that is in the middle of a switch, or none
  paging,         \* the directory and the table of module Paging
  stale,          \* history: a switch or vidmap since the last timer tick
  paper           \* history: terminal -> the text from its first row on

vars == <<cur_display_terminal, cur_execute_terminal, video, terminal_data, cursor, line,
          program, switching, paging, stale, paper>>

turns == <<cur_display_terminal, cur_execute_terminal>>

-----------------------------------------------------------------------------
colors   == [t \in Terminals |-> <<23, 78, 159>>[(t % 3) + 1]]
NoSwitch == [on |-> -1, to |-> -1]
User     == [pc |-> "user", left |-> <<>>]

Wiped(colour) == [i \in 0 .. 2 * Rows * Cols - 1 |-> IF i % 2 = 0 THEN SPACE ELSE colour]

(* Every boot branch has cleared its terminal; terminal 0 was the last.    *)
Init ==
  /\ cur_display_terminal = 0
  /\ cur_execute_terminal = 0
  /\ video = [m \in Memories |-> Wiped(colors[IF m = VIDEO THEN 0 ELSE m])]
  /\ terminal_data = [t \in Terminals |-> [x |-> 0, y |-> 0, save_y |-> 0]]
  /\ cursor = 0
  /\ line = [t \in Terminals |-> <<>>]
  /\ program = [t \in Terminals |-> User]
  /\ switching = NoSwitch
  /\ paging = InitPaging
  /\ stale = TRUE
  /\ paper = [t \in Terminals |-> <<>>]

Shown       == IF switching = NoSwitch THEN cur_display_terminal ELSE switching.to
MemoryOf(t) == IF t = Shown THEN VIDEO ELSE t

-----------------------------------------------------------------------------
(* lib.c.  A screen is a memory and the position in it.                    *)

Position(d) == Cols * d.y + d.x

(* The rows move up, the last one gets blank characters.                   *)
ScrollDown(mem) ==
  LET up == memcpy(mem, 0, 2 * Cols, 2 * Cols * (Rows - 1))
  IN  [i \in DOMAIN mem |-> IF i >= 2 * Cols * (Rows - 1) /\ i % 2 = 0 THEN SPACE ELSE up[i]]

(* putc and terminal_putc up to the test for the end of the screen.        *)
Advanced(s, c, colour) ==
  IF c = NEWLINE THEN [s EXCEPT !.x = 0, !.y = @ + 1]
  ELSE LET w == [s EXCEPT !.mem = Store(@, 2 * Position(s), <<c, colour>>)]
       IN  IF s.x + 1 = Cols THEN [w EXCEPT !.x = 0, !.y = @ + 1] ELSE [w EXCEPT !.x = @ + 1]

(* Wrong on purpose: never scrolls.                                        *)
putcWithoutScroll(s, c, colour) == Advanced(s, c, colour)

putc(s, c, colour) ==
  LET a == Advanced(s, c, colour)
  IN  IF a.y = Rows THEN [a EXCEPT !.mem = ScrollDown(@), !.x = 0, !.y = Rows - 1] ELSE a

putAll(s, text, colour) == FoldLeft(LAMBDA r, c : putc(r, c, colour), s, text)

deletec(s) ==
  LET d == IF s.x > 0 THEN [s EXCEPT !.x = @ - 1]
           ELSE IF s.y > s.save_y THEN [s EXCEPT !.x = Cols - 1, !.y = @ - 1]
           ELSE s
  IN  [d EXCEPT !.mem = [@ EXCEPT ![2 * Position(d)] = SPACE]]

deleteAll(s, n) == FoldLeft(LAMBDA r, i : deletec(r), s, [i \in 1 .. n |-> i])

(* deletec n times meets the limit.                                        *)
Stuck(d, n) == n > d.x + (IF d.y > d.save_y THEN Cols * (d.y - d.save_y) ELSE 0)

(* The text on an endless roll of paper, of which the rows that have left  *)
(* the screen are cut off.                                                 *)
Printed(text, c) ==
  LET longer == IF c = NEWLINE THEN text \o [i \in 1 .. Cols - (Len(text) % Cols) |-> SPACE]
                ELSE Append(text, c)
  IN  IF Len(longer) = Rows * Cols THEN SubSeq(longer, Cols + 1, Len(longer)) ELSE longer

-----------------------------------------------------------------------------
(* The keyboard interrupt: it echoes at the terminal that is displayed.    *)

Display == terminal_data[cur_display_terminal]
Typed   == line[cur_display_terminal]
Paper   == paper[cur_display_terminal]

DisplayScreen == [mem |-> video[VIDEO], x |-> Display.x, y |-> Display.y, save_y |-> Display.save_y]

SetScreen(s) ==
  /\ video' = [video EXCEPT ![VIDEO] = s.mem]
  /\ terminal_data' = [terminal_data EXCEPT ![cur_display_terminal] =
                         [x |-> s.x, y |-> s.y, save_y |-> s.save_y]]
  /\ cursor' = Position(s)                     \* update_cursor

KeyboardIrq == switching = NoSwitch /\ UNCHANGED <<turns, program, switching, paging, stale>>

SetLine(l) == line' = [line EXCEPT ![cur_display_terminal] = l]

SetPaper(p) == paper' = [paper EXCEPT ![cur_display_terminal] = p]

Echo(text) ==
  /\ SetScreen(putAll(DisplayScreen, text, colors[cur_display_terminal]))
  /\ SetPaper(FoldLeft(Printed, Paper, text))

CharKey ==
  /\ KeyboardIrq /\ Len(Typed) < MaxLine
  /\ Echo(<<SPACE + 1>>)
  /\ SetLine(Append(Typed, SPACE + 1))

TabKey ==
  /\ KeyboardIrq /\ Len(Typed) < MaxLine
  /\ Echo(<<SPACE, SPACE, SPACE, SPACE>>)
  /\ SetLine(Append(Typed, TAB))

(* The newline, and the row it leads to as the limit of deletions.         *)
EnterKey ==
  /\ KeyboardIrq /\ Len(Typed) < MaxLine
  /\ LET s == putc(DisplayScreen, NEWLINE, colors[cur_display_terminal])
     IN  SetScreen([s EXCEPT !.save_y = s.y])
  /\ SetPaper(Printed(Paper, NEWLINE))
  /\ SetLine(<<>>)

(* With an empty line nothing happens, unless the byte in front of         *)
(* keyboard_buf happens to be a tab.                                       *)
BackspaceKey ==
  /\ KeyboardIrq /\ Typed # <<>>
  /\ LET n == IF Last(Typed) = TAB THEN 4 ELSE 1
     IN  /\ "limit" \in Races \/ ~Stuck(Display, n)
         /\ SetScreen(deleteAll(DisplayScreen, n))
         /\ SetPaper(SubSeq(Paper, 1, Len(Paper) - n))
  /\ SetLine(Front(Typed))

(* clear, reset_cursor, puts; keyboard_puts prints nothing of the line.    *)
ClearKey ==
  /\ KeyboardIrq
  /\ LET colour == colors[cur_display_terminal]
         s == putAll([mem |-> Wiped(colour), x |-> 0, y |-> 0, save_y |-> 0],
                     Prompt \o keyboard_puts(Typed), colour)
     IN  SetScreen([s EXCEPT !.save_y = 0])
  /\ SetPaper(FoldLeft(Printed, <<>>, Prompt))
  /\ SetLine(<<>>)

-----------------------------------------------------------------------------
(* The switch of the displayed terminal.                                   *)

(* Wrong on purpose: the screen is saved when it is already the new one.   *)
ExchangeTooLate(from, to) ==
  video' = [video EXCEPT ![VIDEO] = video[to], ![from] = video[to]]

ExchangeMemories(from, to) ==
  video' = [video EXCEPT ![from] = video[VIDEO], ![VIDEO] = video[to]]

FunctionKey(to) ==
  /\ switching = NoSwitch
  /\ to # cur_display_terminal
  /\ ExchangeMemories(cur_display_terminal, to)
  /\ switching' = [on |-> cur_execute_terminal, to |-> to]
  /\ stale' = TRUE
  /\ UNCHANGED <<turns, terminal_data, cursor, line, program, paging, paper>>

(* Wrong on purpose: the cursor stays where it was.                        *)
SetDisplayTermOnly ==
  /\ switching.on = cur_execute_terminal
  /\ cur_display_terminal' = switching.to
  /\ switching' = NoSwitch
  /\ UNCHANGED <<cursor, cur_execute_terminal, video, terminal_data, line, program, paging, stale, paper>>

(* Back in the handler: setDisplayTerm, update_cursor.                     *)
SetDisplayTerm ==
  /\ switching.on = cur_execute_terminal
  /\ cur_display_terminal' = switching.to
  /\ cursor' = Position(terminal_data[switching.to])
  /\ switching' = NoSwitch
  /\ UNCHANGED <<cur_execute_terminal, video, terminal_data, line, program, paging, stale, paper>>

-----------------------------------------------------------------------------
(* System calls of the terminal that has the turn.                         *)

Runs(t, pc) ==
  /\ t = cur_execute_terminal /\ switching.on # t
  /\ program[t].pc = pc

(* terminal_write: NULs are left out, a tab is four spaces.                *)
Expanded(text) ==
  FoldLeft(LAMBDA r, c : r \o (IF c = NUL THEN <<>>
                               ELSE IF c = TAB THEN <<SPACE, SPACE, SPACE, SPACE>> ELSE <<c>>),
           <<>>, text)

Write(t, text) ==
  /\ Runs(t, "user")
  /\ program' = [program EXCEPT ![t] = [pc |-> "write", left |-> Expanded(text)]]
  /\ UNCHANGED <<turns, video, terminal_data, cursor, line, switching, paging, stale, paper>>

(* What terminal_putc writes to; after a switch it may be what was right   *)
(* before.                                                                 *)
Chosen(t) == {IF t = cur_display_terminal THEN VIDEO ELSE t} \cup (IF "putc" \in Races THEN {VIDEO, t} ELSE {})

(* terminal_putc.  scroll_down sets the position of the terminal that is   *)
(* displayed if the memory is the one on the screen.                       *)
WriteChar(t) ==
  /\ Runs(t, "write") /\ program[t].left # <<>>
  /\ \E m \in Chosen(t) :
       LET c == Head(program[t].left)
           d == terminal_data[t]
           a == Advanced([mem |-> video[m], x |-> d.x, y |-> d.y], c, colors[t])
           moved == [terminal_data EXCEPT ![t].x = a.x, ![t].y = a.y]
           owner == IF m = VIDEO THEN cur_display_terminal ELSE t
       IN  /\ IF a.y = Rows
                THEN /\ video' = [video EXCEPT ![m] = ScrollDown(a.mem)]
                     /\ terminal_data' = [moved EXCEPT ![owner].x = 0, ![owner].y = Rows - 1]
                ELSE /\ video' = [video EXCEPT ![m] = a.mem]
                     /\ terminal_data' = moved
           /\ paper' = [paper EXCEPT ![t] = Printed(@, c)]
  /\ program' = [program EXCEPT ![t].left = Tail(@)]
  /\ UNCHANGED <<turns, cursor, line, switching, paging, stale>>

(* store_deleted_line and update_cursor, for the terminal displayed now.   *)
WriteReturns(t) ==
  /\ Runs(t, "write") /\ program[t].left = <<>>
  /\ terminal_data' = [terminal_data EXCEPT ![cur_display_terminal].save_y = Display.y]
  /\ cursor' = Position(Display)
  /\ program' = [program EXCEPT ![t] = User]
  /\ UNCHANGED <<turns, video, line, switching, paging, stale, paper>>

(* The page gets the memory on the screen, whoever calls.                  *)
Vidmap(t) ==
  /\ Runs(t, "user")
  /\ paging' = Map4kbPage(paging, VIDEO)
  /\ stale' = TRUE
  /\ UNCHANGED <<turns, video, terminal_data, cursor, line, program, switching, paper>>

(* scheduler: the turn, and the page of the new terminal.                  *)
Tick ==
  /\ "tick" \in Races \/ switching = NoSwitch
  /\ LET next == (cur_execute_terminal + 1) % NumTerminals
     IN  /\ cur_execute_terminal' = next
         /\ paging' = Map4kbPage(paging, IF cur_display_terminal = next THEN VIDEO ELSE next)
  /\ stale' = FALSE
  /\ UNCHANGED <<cur_display_terminal, video, terminal_data, cursor, line, program, switching, paper>>

-----------------------------------------------------------------------------
Next ==
  \/ CharKey \/ TabKey \/ EnterKey \/ BackspaceKey \/ ClearKey
  \/ \E to \in Terminals : FunctionKey(to)
  \/ SetDisplayTerm \/ Tick
  \/ \E t \in Terminals :
       \/ WriteChar(t) \/ WriteReturns(t) \/ Vidmap(t)
       \/ \E text \in Outputs : Write(t, text)

Spec == Init /\ [][Next]_vars

-----------------------------------------------------------------------------
(* Properties *)

(* Every variable has its type; in particular no position leaves its       *)
(* screen, so that nothing is written behind a memory.                     *)
TypeOK ==
  /\ {cur_display_terminal, cur_execute_terminal} \subseteq Terminals
  /\ DOMAIN video = Memories
  /\ \A m \in Memories : video[m] \in [0 .. 2 * Rows * Cols - 1 -> Nat]
  /\ terminal_data \in [Terminals -> [x : 0 .. Cols - 1, y : 0 .. Rows - 1, save_y : 0 .. Rows - 1]]
  /\ cursor \in 0 .. Rows * Cols - 1
  /\ \A t \in Terminals : program[t].pc \in {"user", "write"}

(* The screen of every terminal, displayed or not, shows the end of what   *)
(* was typed and written there, in its colour and with its position behind *)
(* it, however output, echo, scrolling, deletion and switches interleave   *)
(* (lib.c:182, :218, :274, :330, system_call.c:529).                       *)
ShowsText ==
  \A t \in Terminals :
    LET mem == video[MemoryOf(t)] IN
    /\ \A i \in 0 .. Rows * Cols - 1 :
         /\ mem[2 * i] = IF i < Len(paper[t]) THEN paper[t][i + 1] ELSE SPACE
         /\ mem[2 * i + 1] = colors[t]
    /\ Position(terminal_data[t]) = Len(paper[t])

(* The hardware cursor is that of the terminal on the screen, except while *)
(* its program is writing or the screen is being switched: output in the   *)
(* background does not move it (lib.c:307, Terminal.c:89).                 *)
CursorShown ==
  (switching = NoSwitch /\ program[cur_display_terminal].pc = "user") => cursor = Position(Display)

(* From a timer tick to the next switch or vidmap a program reaches no     *)
(* video memory but its own screen; user mode never reaches the others     *)
(* through the table that both slots share, and the kernel always does     *)
(* (paging.c:94, :110, scheduler.c:70).                                    *)
UserReach ==
  /\ Reaches(paging, "low", TRUE) = {}
  /\ Memories \subseteq Reaches(paging, "low", FALSE)
  /\ ~stale => Reaches(paging, "above", TRUE) = {MemoryOf(cur_execute_terminal)}
=============================================================================
