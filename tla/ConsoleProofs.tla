--------------------------- MODULE ConsoleProofs ---------------------------
(***************************************************************************)
(* Proofs about module Console: its type invariant, and that it implements *)
(* the lines of module Lines.                                              *)
(***************************************************************************)
EXTENDS Console, InductionProofs, SequenceTheorems

-----------------------------------------------------------------------------
(* Part 1.  Types.                                                         *)

Chars == {"nul", "c", "\n"}

Records == [buf : [0 .. BufLen - 1 -> Chars], loc : 0 .. BufferSize,
            enter : BOOLEAN, caps : BOOLEAN]

Programs == [pc : {"user", "wait", "copy"}, at : -1 .. NumTerminals - 1, n : 0 .. BufferSize]

Switches == {NoSwitch} \cup [on : Terminals, to : Terminals]

Typed ==
  /\ cur_display_terminal \in Terminals
  /\ cur_execute_terminal \in Terminals
  /\ keyboard_buf \in [0 .. BufLen -> Chars]
  /\ terminal_data \in [Terminals -> Records]
  /\ caps_flag \in BOOLEAN
  /\ program \in [Terminals -> Programs]
  /\ switching \in Switches

(* The constants are naturals, and there is a terminal.                    *)
LEMMA Constants ==
  /\ NumTerminals \in Nat \ {0} /\ BufLen \in Nat \ {0}
  /\ BufferSize \in Nat \ {0} /\ BufferSize = BufLen + 1
  /\ 0 \in Terminals /\ Terminals \subseteq Nat /\ Terminals \subseteq -1 .. NumTerminals - 1
  /\ ReadSizes \subseteq Nat \ {0}
BY NumTerminalsAssumption, BufLenAssumption, ReadSizesAssumption DEF BufferSize, Terminals

(* The parts of the record of a terminal.                                  *)
LEMMA Parts ==
  ASSUME Typed, NEW t \in Terminals
  PROVE  /\ terminal_data[t] \in Records
         /\ terminal_data[t].buf \in [0 .. BufLen - 1 -> Chars]
         /\ terminal_data[t].loc \in 0 .. BufferSize
         /\ terminal_data[t].enter \in BOOLEAN
         /\ terminal_data[t].caps \in BOOLEAN
BY DEF Typed, Records

(* Moving the position of a terminal's line.                               *)
LEMMA SetLocTyped ==
  ASSUME Typed, NEW l \in 0 .. BufferSize, SetLoc(l)
  PROVE  /\ terminal_data' \in [Terminals -> Records]
         /\ terminal_data'[cur_display_terminal].loc = l
         /\ terminal_data'[cur_display_terminal].enter = Displayed.enter
         /\ terminal_data'[cur_display_terminal].caps = Displayed.caps
         /\ terminal_data'[cur_display_terminal].buf = Displayed.buf
         /\ \A t \in Terminals \ {cur_display_terminal} : terminal_data'[t] = terminal_data[t]
BY DEF Typed, SetLoc, Records, Displayed

(* Storing a character.                                                    *)
LEMMA StoreTyped ==
  ASSUME Typed, NEW c \in Chars, Store(c)
  PROVE  keyboard_buf' \in [0 .. BufLen -> Chars]
BY DEF Typed, Store

(* Enter sets the flag and the position of the displayed terminal.         *)
LEMMA EnterFacts ==
  ASSUME Typed, EnterKey
  PROVE  /\ terminal_data' \in [Terminals -> Records]
         /\ terminal_data'[cur_display_terminal].loc = 0
         /\ terminal_data'[cur_display_terminal].enter
         /\ terminal_data'[cur_display_terminal].caps = Displayed.caps
         /\ terminal_data'[cur_display_terminal].buf = Displayed.buf
         /\ \A t \in Terminals \ {cur_display_terminal} : terminal_data'[t] = terminal_data[t]
<1>1. PICK r : r = [[Displayed EXCEPT !.enter = TRUE] EXCEPT !.loc = 0]
  OBVIOUS
<1>2. r \in Records /\ r.loc = 0 /\ r.enter /\ r.caps = Displayed.caps /\ r.buf = Displayed.buf
  <2>1. Displayed \in Records /\ 0 \in 0 .. BufferSize
    BY Constants DEF Typed, Displayed
  <2> QED BY <1>1, <2>1 DEF Records
<1>3. terminal_data' = [terminal_data EXCEPT ![cur_display_terminal] = r]
  BY <1>1 DEF EnterKey, Typed, Displayed
<1> QED BY <1>2, <1>3 DEF Typed

(* A switch exchanges the buffers of two terminals and their caps locks.   *)
LEMMA ExchangeFacts ==
  ASSUME Typed, NEW from \in Terminals, NEW to \in Terminals, from # to, Exchange(from, to)
  PROVE  /\ terminal_data' \in [Terminals -> Records]
         /\ keyboard_buf' \in [0 .. BufLen -> Chars]
         /\ caps_flag' = terminal_data[to].caps /\ caps_flag' \in BOOLEAN
         /\ \A t \in Terminals : /\ terminal_data'[t].loc = terminal_data[t].loc
                                 /\ terminal_data'[t].enter = terminal_data[t].enter
         /\ terminal_data'[from].buf = [i \in 0 .. BufLen - 1 |-> keyboard_buf[i]]
         /\ terminal_data'[from].caps = caps_flag
         /\ \A t \in Terminals \ {from, to} : terminal_data'[t] = terminal_data[t]
         /\ keyboard_buf' = [i \in 0 .. BufLen |->
              IF i < BufLen THEN terminal_data[to].buf[i] ELSE keyboard_buf[i]]
<1>1. PICK b : b = [i \in 0 .. BufLen - 1 |-> keyboard_buf[i]]
  OBVIOUS
<1>2. b \in [0 .. BufLen - 1 -> Chars]
  BY <1>1, Constants DEF Typed
<1>3. PICK e : e = Blank.buf
  OBVIOUS
<1>4. e \in [0 .. BufLen - 1 -> Chars]
  BY <1>3 DEF Blank, Chars
<1>5. PICK r : r = [[terminal_data[from] EXCEPT !.buf = b] EXCEPT !.caps = caps_flag]
  OBVIOUS
<1>6. /\ r \in Records /\ r.buf = b /\ r.caps = caps_flag
      /\ r.loc = terminal_data[from].loc /\ r.enter = terminal_data[from].enter
  BY <1>2, <1>5, Parts DEF Typed, Records
<1>7. PICK q : q = [[terminal_data[to] EXCEPT !.buf = e] EXCEPT !.caps = FALSE]
  OBVIOUS
<1>8. /\ q \in Records
      /\ q.loc = terminal_data[to].loc /\ q.enter = terminal_data[to].enter
  BY <1>4, <1>7, Parts DEF Typed, Records
<1>9. terminal_data' = [terminal_data EXCEPT ![from].buf = b, ![from].caps = caps_flag,
                                             ![to].buf = e, ![to].caps = FALSE]
  BY <1>1, <1>3 DEF Exchange, Blank
<1>10. PICK d : d = [[terminal_data EXCEPT ![from].buf = b] EXCEPT ![from].caps = caps_flag]
  OBVIOUS
<1>11. terminal_data' = [[d EXCEPT ![to].buf = e] EXCEPT ![to].caps = FALSE]
  BY <1>9, <1>10, Zenon
<1>12. d \in [Terminals -> Records] /\ d[from] = r /\ d[to] = terminal_data[to]
       /\ \A t \in Terminals \ {from, to} : d[t] = terminal_data[t]
  BY <1>5, <1>6, <1>10 DEF Typed
<1>13. /\ terminal_data' \in [Terminals -> Records]
       /\ terminal_data'[from] = r /\ terminal_data'[to] = q
       /\ \A t \in Terminals \ {from, to} : terminal_data'[t] = terminal_data[t]
  BY <1>6, <1>7, <1>8, <1>11, <1>12
<1>14. caps_flag' = terminal_data[to].caps /\ caps_flag' \in BOOLEAN
  BY Parts DEF Exchange
<1>15. keyboard_buf' = [i \in 0 .. BufLen |->
         IF i < BufLen THEN terminal_data[to].buf[i] ELSE keyboard_buf[i]]
  BY DEF Exchange
<1>16. keyboard_buf' \in [0 .. BufLen -> Chars]
  <2>1. terminal_data[to].buf \in [0 .. BufLen - 1 -> Chars]
    BY Parts
  <2>2. keyboard_buf \in [0 .. BufLen -> Chars]
    BY DEF Typed
  <2>3. \A i \in 0 .. BufLen : i < BufLen => i \in 0 .. BufLen - 1
    BY Constants
  <2> QED BY <1>15, <2>1, <2>2, <2>3
<1> QED BY <1>1, <1>6, <1>8, <1>13, <1>16, <1>14, <1>15

(* The end of a read resets the position of one terminal and the flag of   *)
(* another; they may be the same.                                          *)
LEMMA CopyFacts ==
  ASSUME Typed, NEW t \in Terminals, Copy(t), program[t].at \in Terminals
  PROVE  /\ terminal_data' \in [Terminals -> Records]
         /\ terminal_data'[program[t].at].loc = 0 /\ terminal_data'[t].enter = FALSE
         /\ \A u \in Terminals :
              /\ u # program[t].at => terminal_data'[u].loc = terminal_data[u].loc
              /\ u # t => terminal_data'[u].enter = terminal_data[u].enter
              /\ terminal_data'[u].caps = terminal_data[u].caps
              /\ terminal_data'[u].buf = terminal_data[u].buf
<1>1. PICK a \in Terminals : a = program[t].at
  OBVIOUS
<1>2. PICK d : d = [terminal_data EXCEPT ![a].loc = 0]
  OBVIOUS
<1>3. 0 \in 0 .. BufferSize
  BY Constants
<1>4. /\ d \in [Terminals -> Records] /\ d[a].loc = 0
      /\ \A u \in Terminals : /\ u # a => d[u].loc = terminal_data[u].loc
                              /\ d[u].enter = terminal_data[u].enter
                              /\ d[u].caps = terminal_data[u].caps
                              /\ d[u].buf = terminal_data[u].buf
  BY <1>2, <1>3 DEF Typed, Records
<1>5. terminal_data' = [terminal_data EXCEPT ![a].loc = 0, ![t].enter = FALSE]
  BY <1>1 DEF Copy
<1>6. terminal_data' = [d EXCEPT ![t].enter = FALSE]
  BY <1>2, <1>5, Zenon
<1>7. PICK e : e = [d[t] EXCEPT !.enter = FALSE]
  OBVIOUS
<1>8. /\ e \in Records /\ e.enter = FALSE
      /\ e.loc = d[t].loc /\ e.caps = d[t].caps /\ e.buf = d[t].buf
  BY <1>4, <1>7 DEF Records
<1>9. terminal_data' = [d EXCEPT ![t] = e]
  BY <1>4, <1>6, <1>7
<1>10. /\ terminal_data' \in [Terminals -> Records] /\ terminal_data'[t].enter = FALSE
      /\ \A u \in Terminals : /\ terminal_data'[u].loc = d[u].loc
                              /\ u # t => terminal_data'[u].enter = d[u].enter
                              /\ terminal_data'[u].caps = d[u].caps
                              /\ terminal_data'[u].buf = d[u].buf
  BY <1>4, <1>8, <1>9
<1> QED BY <1>1, <1>4, <1>10

(* A program is one that waits, that copies, or that is in user mode.      *)
LEMMA ReadTyped ==
  ASSUME Typed, NEW t \in Terminals, NEW n \in ReadSizes, Read(t, n)
  PROVE  \E p \in Programs :
           /\ program' = [program EXCEPT ![t] = p]
           /\ p.pc = "wait" /\ p.at = cur_display_terminal /\ p.n \in 1 .. BufferSize
<1>1. PICK p : p = [pc |-> "wait", at |-> cur_display_terminal,
                    n |-> IF n > BufferSize THEN BufferSize ELSE n]
  OBVIOUS
<1>2. p.n \in 1 .. BufferSize /\ p.n \in 0 .. BufferSize
  BY <1>1, Constants
<1>3. cur_display_terminal \in -1 .. NumTerminals - 1
  BY Constants DEF Typed
<1> QED BY <1>1, <1>2, <1>3 DEF Read, Programs

(* The programs stay typed, whatever the turn does.                        *)
LEMMA AwakeTyped ==
  ASSUME Typed, NEW t \in Terminals, Awake(t)
  PROVE  /\ program' \in [Terminals -> Programs]
         /\ program'[t].pc = "copy" /\ program'[t].at = program[t].at
         /\ program'[t].n = program[t].n
         /\ \A u \in Terminals \ {t} : program'[u] = program[u]
BY DEF Typed, Awake, Programs

(* In user mode a program waits for nothing.                               *)
LEMMA UserTyped == User \in Programs /\ User.pc = "user" /\ User.at = -1
BY Constants DEF User, Programs

(* A program that reads waits for a terminal.                              *)
TypeInv ==
  /\ Typed
  /\ \A t \in Terminals : program[t].pc # "user" => program[t].at \in Terminals

(* A key moves the position of the displayed terminal within the line and  *)
(* its buffer; only a tab does not look at the limit.                      *)
LEMMA KeyTyped ==
  ASSUME "tab" \notin Races, Typed, Keyboard, switching = NoSwitch,
         ~\E to \in Terminals : FunctionKey(to)
  PROVE  Typed'
<1>1. Displayed \in Records /\ cur_display_terminal \in Terminals
  BY DEF Typed, Displayed
<1>2. Displayed.loc \in 0 .. BufferSize
  BY <1>1 DEF Records
<1>3. \A l \in 0 .. BufferSize : SetLoc(l) => terminal_data' \in [Terminals -> Records]
  BY SetLocTyped
<1>4. \A c \in Chars : Store(c) => keyboard_buf' \in [0 .. BufLen -> Chars]
  BY StoreTyped
<1>5. "c" \in Chars /\ "\n" \in Chars
  BY DEF Chars
<1>6. CASE TabKey \/ CharKey
  <2>1. Displayed.loc < BufferSize
    BY <1>2, <1>6, Constants DEF TabKey, CharKey
  <2>2. Displayed.loc + 1 \in 0 .. BufferSize
    BY <1>2, <2>1, Constants
  <2>3. /\ Store("c") /\ SetLoc(Displayed.loc + 1)
        /\ UNCHANGED <<turns, caps_flag, program, switching>>
    BY <1>6 DEF TabKey, CharKey
  <2>4. terminal_data' \in [Terminals -> Records] /\ keyboard_buf' \in [0 .. BufLen -> Chars]
    BY <1>3, <1>4, <1>5, <2>2, <2>3
  <2> QED BY <2>3, <2>4 DEF Typed, turns
<1>7. CASE BackspaceKey \/ ClearKey
  <2>1. PICK l \in 0 .. BufferSize : SetLoc(l)
    <3>1. 0 \in 0 .. BufferSize /\ (Displayed.loc > 0 => Displayed.loc - 1 \in 0 .. BufferSize)
      BY <1>2, Constants
    <3> QED BY <1>7, <3>1 DEF BackspaceKey, ClearKey
  <2>2. terminal_data' \in [Terminals -> Records]
    BY <1>3, <2>1
  <2>3. UNCHANGED <<turns, keyboard_buf, caps_flag, program, switching>>
    BY <1>7 DEF BackspaceKey, ClearKey
  <2> QED BY <2>2, <2>3 DEF Typed, turns
<1>8. CASE EnterKey
  <2>1. terminal_data' \in [Terminals -> Records] /\ keyboard_buf' \in [0 .. BufLen -> Chars]
    BY <1>4, <1>5, <1>8, EnterFacts DEF EnterKey
  <2> QED BY <1>8, <2>1 DEF Typed, turns, EnterKey
<1>9. CASE CapsLock
  BY <1>9 DEF CapsLock, Typed, turns
<1> QED BY <1>6, <1>7, <1>8, <1>9 DEF Keyboard

(* The type invariant is inductive.                                        *)
LEMMA TypeStepInv ==
  ASSUME "tab" \notin Races, TypeInv, [Next]_vars
  PROVE  TypeInv'
<1>1. ASSUME UNCHANGED program, Typed' PROVE TypeInv'
  BY <1>1 DEF TypeInv
<1>2. CASE Keyboard /\ ~\E to \in Terminals : FunctionKey(to)
  <2>1. switching = NoSwitch /\ UNCHANGED program
    BY <1>2 DEF Keyboard, TabKey, BackspaceKey, CharKey, EnterKey, ClearKey, CapsLock, KeyboardIrq
  <2> QED BY <1>1, <1>2, <2>1, KeyTyped DEF TypeInv
<1>3. CASE \E to \in Terminals : FunctionKey(to)
  <2>1. PICK to \in Terminals : FunctionKey(to)
    BY <1>3
  <2>2. /\ terminal_data' \in [Terminals -> Records]
        /\ keyboard_buf' \in [0 .. BufLen -> Chars] /\ caps_flag' \in BOOLEAN
    <3>1. cur_display_terminal \in Terminals /\ cur_display_terminal # to /\ Typed
      BY <2>1 DEF TypeInv, Typed, FunctionKey
    <3>2. Exchange(cur_display_terminal, to)
      BY <2>1 DEF FunctionKey
    <3> QED BY <3>1, <3>2, ExchangeFacts
  <2>3. switching' \in Switches
    BY <2>1 DEF TypeInv, Typed, FunctionKey, Switches
  <2>4. Typed' /\ UNCHANGED program
    BY <2>1, <2>2, <2>3 DEF TypeInv, Typed, FunctionKey, turns
  <2> QED BY <1>1, <2>4
<1>4. CASE SetDisplayTerm
  <2>1. switching \in Switches /\ cur_execute_terminal \in Terminals /\ NoSwitch.on = -1
    BY DEF TypeInv, Typed, NoSwitch
  <2>2. switching # NoSwitch
    BY <1>4, <2>1, Constants DEF SetDisplayTerm
  <2>3. switching.to \in Terminals
    BY <2>1, <2>2 DEF Switches
  <2> QED BY <1>1, <1>4, <2>3 DEF SetDisplayTerm, TypeInv, Typed, Switches
<1>5. CASE Tick
  <2>1. (cur_execute_terminal + 1) % NumTerminals \in Terminals
    BY Constants DEF TypeInv, Typed, Terminals
  <2> QED BY <1>1, <1>5, <2>1 DEF Tick, TypeInv, Typed
<1>6. ASSUME NEW t \in Terminals, Awake(t) PROVE TypeInv'
  <2>1. /\ program' \in [Terminals -> Programs]
        /\ program'[t].at = program[t].at
        /\ \A u \in Terminals \ {t} : program'[u] = program[u]
    BY <1>6, AwakeTyped DEF TypeInv
  <2>2. program[t].pc # "user"
    BY <1>6 DEF Awake, Runs
  <2> QED BY <1>6, <2>1, <2>2 DEF TypeInv, Typed, Awake, turns
<1>7. ASSUME NEW t \in Terminals, Copy(t) PROVE TypeInv'
  <2>1. program[t].at \in Terminals
    BY <1>7 DEF TypeInv, Copy, Runs
  <2>2. terminal_data' \in [Terminals -> Records]
    BY <1>7, <2>1, CopyFacts DEF TypeInv
  <2>3. program' = [program EXCEPT ![t] = User]
    BY <1>7 DEF Copy
  <2> QED BY <1>7, <2>2, <2>3, UserTyped DEF TypeInv, Typed, Copy, turns
<1>8. ASSUME NEW t \in Terminals, NEW n \in ReadSizes, Read(t, n) PROVE TypeInv'
  <2>1. PICK p \in Programs : /\ program' = [program EXCEPT ![t] = p]
                              /\ p.at = cur_display_terminal
    BY <1>8, ReadTyped DEF TypeInv
  <2> QED BY <1>8, <2>1 DEF TypeInv, Typed, Read, turns
<1>9. CASE UNCHANGED vars
  BY <1>9 DEF TypeInv, Typed, vars
<1> QED BY <1>2, <1>3, <1>4, <1>5, <1>6, <1>7, <1>8, <1>9 DEF Next, Keyboard

(* At the start every terminal has an empty line.                          *)
LEMMA TypeInit == Init => TypeInv
<1> SUFFICES ASSUME Init PROVE TypeInv
  OBVIOUS
<1>1. Blank \in Records
  BY Constants DEF Blank, Records, Chars
<1> QED BY <1>1, Constants, UserTyped DEF Init, TypeInv, Typed, Chars, Switches

(* So it holds, unless a tab is typed at a full line.                      *)
LEMMA TypeInvHolds == ASSUME "tab" \notin Races PROVE Spec => []TypeInv
<1>1. TypeInv /\ [Next]_vars => TypeInv'
  BY TypeStepInv
<1> QED BY <1>1, TypeInit, PTL DEF Spec

(* Every variable has its type: no line gets longer than buffer_size, so   *)
(* that nothing is stored more than one byte behind keyboard_buf, however  *)
(* keys, reads, switches and ticks interleave, unless a tab is typed at a  *)
(* full line (keyboard.c:201).                                             *)
THEOREM TypeOKHolds == ASSUME "tab" \notin Races PROVE Spec => []TypeOK
<1>1. TypeInv => TypeOK
  BY DEF TypeInv, Typed, TypeOK, Records, Programs, Chars
<1> QED BY <1>1, TypeInvHolds, PTL

-----------------------------------------------------------------------------
(* Part 2.  Lines in a buffer.                                             *)

Buffers == [0 .. BufLen -> Chars]

(* The first n characters of a buffer.                                     *)
Text(buf, n) == [i \in 1 .. n |-> buf[i - 1]]

(* A text is a sequence of characters.                                     *)
LEMMA TextType ==
  ASSUME NEW buf \in Buffers, NEW n \in 0 .. BufferSize
  PROVE  /\ Text(buf, n) \in Seq(Chars)
         /\ Len(Text(buf, n)) = n
         /\ \A i \in 1 .. n : Text(buf, n)[i] = buf[i - 1] /\ i - 1 \in 0 .. BufLen
<1>1. \A i \in 1 .. n : i - 1 \in 0 .. BufLen
  BY Constants
<1>2. Text(buf, n) \in [1 .. n -> Chars]
  BY <1>1 DEF Text, Buffers
<1>3. n \in Nat
  BY Constants
<1>4. Text(buf, n) \in Seq(Chars)
  BY <1>2, <1>3, SeqDef
<1>5. Len(Text(buf, n)) = n
  BY <1>2, <1>3, <1>4, LenProperties
<1> QED BY <1>1, <1>4, <1>5 DEF Text

(* Texts of buffers that agree are equal.                                  *)
LEMMA TextSame ==
  ASSUME NEW b, NEW d, NEW n, \A i \in 1 .. n : b[i - 1] = d[i - 1]
  PROVE  Text(b, n) = Text(d, n)
BY DEF Text

(* The text that nothing is typed of.                                      *)
LEMMA TextEmpty ==
  ASSUME NEW buf \in Buffers
  PROVE  Text(buf, 0) = <<>>
<1>1. 0 \in 0 .. BufferSize
  BY Constants
<1> QED BY <1>1, TextType, EmptySeq

(* One more character.                                                     *)
LEMMA TextAppend ==
  ASSUME NEW b \in Buffers, NEW d \in Buffers, NEW n \in 0 .. BufferSize - 1, NEW c \in Chars,
         \A i \in 0 .. n - 1 : d[i] = b[i], d[n] = c
  PROVE  Text(d, n + 1) = Append(Text(b, n), c)
<1>1. n \in 0 .. BufferSize /\ n + 1 \in 0 .. BufferSize /\ n \in Nat
  BY Constants
<1>2. PICK s \in Seq(Chars) : s = Text(b, n) /\ Len(s) = n /\ \A i \in 1 .. n : s[i] = b[i - 1]
  BY <1>1, TextType
<1>3. PICK r \in Seq(Chars) : /\ r = Text(d, n + 1) /\ Len(r) = n + 1
                              /\ \A i \in 1 .. n + 1 : r[i] = d[i - 1]
  BY <1>1, TextType
<1>4. /\ Append(s, c) \in Seq(Chars) /\ Len(Append(s, c)) = n + 1
      /\ Append(s, c)[n + 1] = c
      /\ \A i \in 1 .. n : Append(s, c)[i] = s[i]
  BY <1>1, <1>2, LenProperties
<1>5. \A i \in 1 .. n + 1 : r[i] = Append(s, c)[i]
  <2>1. ASSUME NEW i \in 1 .. n + 1 PROVE r[i] = Append(s, c)[i]
    <3>1. CASE i = n + 1
      BY <1>1, <1>3, <1>4, <3>1
    <3>2. CASE i # n + 1
      <4>1. i \in 1 .. n /\ i - 1 \in 0 .. n - 1
        BY <1>1, <3>2
      <4> QED BY <1>2, <1>3, <1>4, <4>1
    <3> QED BY <3>1, <3>2
  <2> QED BY <2>1
<1>6. r = Append(s, c)
  BY <1>3, <1>4, <1>5, SeqEqual
<1> QED BY <1>2, <1>3, <1>6

(* The beginning of a text.                                                *)
LEMMA TextPrefix ==
  ASSUME NEW b \in Buffers, NEW n \in 0 .. BufferSize, NEW m \in 0 .. n
  PROVE  SubSeq(Text(b, n), 1, m) = Text(b, m)
<1>1. m \in 0 .. BufferSize /\ m \in Nat /\ n \in Nat /\ m \in Int /\ 1 \in Int
  BY Constants
<1>2. PICK s \in Seq(Chars) : s = Text(b, n) /\ Len(s) = n /\ \A i \in 1 .. n : s[i] = b[i - 1]
  BY TextType
<1>3. PICK r \in Seq(Chars) : r = Text(b, m) /\ Len(r) = m /\ \A i \in 1 .. m : r[i] = b[i - 1]
  BY <1>1, TextType
<1>4. \A i \in 1 .. m : s[i] \in Chars
  BY <1>1, <1>2, ElementOfSeq
<1>5. /\ SubSeq(s, 1, m) \in Seq(Chars)
      /\ Len(SubSeq(s, 1, m)) = IF 1 <= m THEN m - 1 + 1 ELSE 0
      /\ \A i \in 1 .. m - 1 + 1 : SubSeq(s, 1, m)[i] = s[1 + i - 1]
  BY <1>1, <1>4, SubSeqProperties
<1>6. Len(SubSeq(s, 1, m)) = m /\ \A i \in 1 .. m : SubSeq(s, 1, m)[i] = r[i]
  BY <1>1, <1>2, <1>3, <1>5
<1>7. SubSeq(s, 1, m) = r
  BY <1>3, <1>5, <1>6, SeqEqual
<1> QED BY <1>2, <1>3, <1>7

(* The length of a line: up to and including the first newline, or n.      *)
Ends(buf, n, len) ==
  /\ len \in 1 .. n
  /\ \A i \in 0 .. len - 2 : buf[i] # "\n"
  /\ len = n \/ buf[len - 1] = "\n"

(* A line is the text up to its end.                                       *)
LEMMA LineEnds ==
  ASSUME NEW buf, NEW n \in 1 .. BufferSize
  PROVE  \E len \in 1 .. n : Ends(buf, n, len) /\ Line(buf, n) = Text(buf, len)
<1> DEFINE stops == {i \in 0 .. n - 1 : buf[i] = "\n"}
           first == CHOOSE i \in stops : \A j \in stops : i <= j
<1>0. n \in Nat \ {0}
  BY Constants
<1>1. CASE stops = {}
  <2>1. Line(buf, n) = Text(buf, n)
    BY <1>1 DEF Line, Text
  <2>2. Ends(buf, n, n)
    <3>1. \A i \in 0 .. n - 2 : i \in 0 .. n - 1
      BY <1>0
    <3> QED BY <1>0, <1>1, <3>1 DEF Ends
  <2> QED BY <1>0, <2>1, <2>2
<1>2. CASE stops # {}
  <2>1. \E i \in stops : \A j \in stops : i <= j
    <3>1. stops \subseteq Nat
      BY <1>0
    <3> QED BY <1>2, <3>1, LeastNatural
  <2>2. first \in stops /\ \A j \in stops : first <= j
    BY <2>1
  <2>3. Line(buf, n) = Text(buf, 1 + first)
    BY <1>2 DEF Line, Text
  <2>4. PICK f \in stops : f = first /\ \A j \in stops : f <= j
    BY <2>2
  <2>5. f \in 0 .. n - 1 /\ buf[f] = "\n"
    BY <2>4
  <2>6. \A i \in 0 .. 1 + f - 2 : buf[i] # "\n"
    <3>1. ASSUME NEW i \in 0 .. 1 + f - 2, buf[i] = "\n" PROVE FALSE
      <4>1. i \in 0 .. n - 1 /\ i < f
        BY <1>0, <2>5
      <4>2. i \in stops
        BY <3>1, <4>1
      <4> QED BY <2>4, <2>5, <4>1, <4>2
    <3> QED BY <3>1
  <2>7. 1 + f \in 1 .. n /\ 1 + f - 1 = f
    BY <1>0, <2>5
  <2>8. Ends(buf, n, 1 + f)
    BY <2>5, <2>6, <2>7 DEF Ends
  <2> QED BY <2>3, <2>4, <2>7, <2>8
<1> QED BY <1>1, <1>2

(* A buffer has one such length.                                           *)
LEMMA EndUnique ==
  ASSUME NEW buf, NEW n \in 1 .. BufferSize, NEW k, NEW m, Ends(buf, n, k), Ends(buf, n, m)
  PROVE  k = m
<1>0. n \in Nat /\ k \in 1 .. n /\ m \in 1 .. n
  BY Constants DEF Ends
<1>1. ~(k < m)
  <2>1. ASSUME k < m PROVE FALSE
    <3>1. k # n /\ k - 1 \in 0 .. m - 2
      BY <1>0, <2>1
    <3> QED BY <3>1 DEF Ends
  <2> QED BY <2>1
<1>2. ~(m < k)
  <2>1. ASSUME m < k PROVE FALSE
    <3>1. m # n /\ m - 1 \in 0 .. k - 2
      BY <1>0, <2>1
    <3> QED BY <3>1 DEF Ends
  <2> QED BY <2>1
<1> QED BY <1>0, <1>1, <1>2

(* So a text that ends like a line is the line.                            *)
LEMMA LineIs ==
  ASSUME NEW buf, NEW n \in 1 .. BufferSize, NEW len, Ends(buf, n, len)
  PROVE  Line(buf, n) = Text(buf, len)
BY LineEnds, EndUnique

(* Lines of buffers that agree up to the end of the line are equal.        *)
LEMMA LineSame ==
  ASSUME NEW b, NEW d, NEW n \in 1 .. BufferSize, NEW len, Ends(b, n, len),
         \A i \in 0 .. len - 1 : b[i] = d[i]
  PROVE  Line(b, n) = Line(d, n)
<1>0. len \in 1 .. n /\ n \in Nat
  BY Constants DEF Ends
<1>1. Ends(d, n, len)
  <2>1. \A i \in 0 .. len - 2 : i \in 0 .. len - 1
    BY <1>0
  <2>2. len - 1 \in 0 .. len - 1
    BY <1>0
  <2> QED BY <2>1, <2>2 DEF Ends
<1>2. Text(b, len) = Text(d, len)
  <2>1. \A i \in 1 .. len : i - 1 \in 0 .. len - 1
    BY <1>0
  <2> QED BY <2>1, TextSame
<1> QED BY <1>1, <1>2, LineIs

(* A reader that asks for n characters gets the beginning of the line.     *)
LEMMA LinePrefix ==
  ASSUME NEW buf \in Buffers, NEW n \in 1 .. BufferSize
  PROVE  /\ Line(buf, BufferSize) # <<>>
         /\ Line(buf, BufferSize) \in Seq(Chars)
         /\ Line(buf, n) = SubSeq(Line(buf, BufferSize), 1,
              IF n < Len(Line(buf, BufferSize)) THEN n ELSE Len(Line(buf, BufferSize)))
<1>0. BufferSize \in 1 .. BufferSize /\ n \in Nat
  BY Constants
<1>1. PICK k \in 1 .. BufferSize : Ends(buf, BufferSize, k) /\ Line(buf, BufferSize) = Text(buf, k)
  BY <1>0, LineEnds
<1>2. k \in 0 .. BufferSize /\ k \in Nat \ {0}
  BY Constants
<1>3. PICK m : m = IF n < k THEN n ELSE k
  OBVIOUS
<1>4. m \in 1 .. n /\ m \in 0 .. k /\ m <= k /\ (m = n \/ m = k)
  BY <1>0, <1>2, <1>3
<1>5. Ends(buf, n, m)
  <2>1. \A i \in 0 .. m - 2 : i \in 0 .. k - 2
    BY <1>0, <1>2, <1>4
  <2>2. m = n \/ buf[m - 1] = "\n"
    <3>1. CASE m = n
      BY <3>1
    <3>2. CASE m # n /\ m = k
      <4>1. k # BufferSize
        BY <1>0, <1>3, <3>2
      <4> QED BY <1>1, <3>2, <4>1 DEF Ends
    <3> QED BY <1>4, <3>1, <3>2
  <2> QED BY <1>1, <1>4, <2>1, <2>2 DEF Ends
<1>6. Line(buf, n) = Text(buf, m)
  BY <1>5, LineIs
<1>7. SubSeq(Text(buf, k), 1, m) = Text(buf, m)
  BY <1>2, <1>4, TextPrefix
<1>8. Text(buf, k) \in Seq(Chars) /\ Len(Text(buf, k)) = k
  BY <1>2, TextType
<1>9. Text(buf, k) # <<>>
  BY <1>2, <1>8, EmptySeq
<1> QED BY <1>1, <1>3, <1>6, <1>7, <1>8, <1>9

-----------------------------------------------------------------------------
(* Part 3.  The invariant.                                                 *)

(* A switch is over before the turn changes.                               *)
SwitchInTurn == switching # NoSwitch => switching.on = cur_execute_terminal

(* The line of terminal t: what is typed is characters; a finished line    *)
(* has its newline, and nothing is typed behind it; the lines of terminals *)
(* that are not shown do without the byte behind keyboard_buf.             *)
LineOK(t) ==
  /\ \A i \in 0 .. terminal_data[t].loc - 1 : Buffer(t)[i] = "c"
  /\ terminal_data[t].enter =>
       terminal_data[t].loc = 0 /\ \E i \in 0 .. BufLen : Buffer(t)[i] = "\n"
  /\ t # Shown =>
       /\ terminal_data[t].loc <= BufLen
       /\ terminal_data[t].enter => \E i \in 0 .. BufLen - 1 : Buffer(t)[i] = "\n"

(* The read of terminal t: the position that it is going to reset is 0, or *)
(* that of its own line, or that of the terminal shown; once it copies it  *)
(* is displayed and has its line.                                          *)
ReadOK(t) ==
  LET p == program[t] IN
  /\ p.pc # "user" =>
       /\ p.at \in Terminals /\ p.n \in 1 .. BufferSize
       /\ p.at # t /\ p.at # Shown => terminal_data[p.at].loc = 0
  /\ p.pc = "copy" =>
       switching = NoSwitch /\ cur_display_terminal = t /\ terminal_data[t].enter

LineInv ==
  /\ SwitchInTurn
  /\ \A t \in Terminals : LineOK(t) /\ ReadOK(t)

IInv == Typed /\ LineInv

(* The buffer of a terminal, as it is and after a step.                    *)
LEMMA BufferFacts ==
  ASSUME Typed
  PROVE  /\ Shown \in Terminals
         /\ Buffer(Shown) = keyboard_buf
         /\ \A t \in Terminals : Buffer(t) \in Buffers
         /\ \A t \in Terminals \ {Shown} : \A i \in 0 .. BufLen - 1 :
              Buffer(t)[i] = terminal_data[t].buf[i]
<1>1. Shown \in Terminals
  BY DEF Typed, Switches, Shown
<1>2. keyboard_buf \in [0 .. BufLen -> Chars]
  BY DEF Typed
<1>3. Buffer(Shown) = keyboard_buf
  BY <1>2 DEF Buffer
<1>4. ASSUME NEW t \in Terminals PROVE Buffer(t) \in Buffers
  <2>1. terminal_data[t].buf \in [0 .. BufLen - 1 -> Chars]
    BY Parts
  <2>2. \A i \in 0 .. BufLen : i = BufLen \/ i \in 0 .. BufLen - 1
    BY Constants
  <2> QED BY <1>2, <2>1, <2>2 DEF Buffer, Buffers
<1>5. \A i \in 0 .. BufLen - 1 : i \in 0 .. BufLen /\ i # BufLen
  BY Constants
<1> QED BY <1>1, <1>3, <1>4, <1>5 DEF Buffer

(* The same after a step.                                                  *)
LEMMA BufferFactsNext ==
  ASSUME Typed'
  PROVE  /\ Shown' \in Terminals
         /\ \A t \in Terminals : t = Shown' => Buffer(t)' = keyboard_buf'
         /\ \A t \in Terminals : Buffer(t)' \in Buffers
         /\ \A t \in Terminals : t # Shown' => \A i \in 0 .. BufLen - 1 :
              Buffer(t)'[i] = terminal_data'[t].buf[i]
<1>1. Shown' \in Terminals
  BY DEF Typed, Switches, Shown
<1>2. keyboard_buf' \in [0 .. BufLen -> Chars]
  BY DEF Typed
<1>3. \A t \in Terminals : t = Shown' => Buffer(t)' = keyboard_buf'
  BY <1>2 DEF Buffer
<1>4. ASSUME NEW t \in Terminals PROVE Buffer(t)' \in Buffers
  <2>1. terminal_data'[t].buf \in [0 .. BufLen - 1 -> Chars]
    BY DEF Typed, Records
  <2>2. \A i \in 0 .. BufLen : i = BufLen \/ i \in 0 .. BufLen - 1
    BY Constants
  <2> QED BY <1>2, <2>1, <2>2 DEF Buffer, Buffers
<1>5. \A i \in 0 .. BufLen - 1 : i \in 0 .. BufLen /\ i # BufLen
  BY Constants
<1> QED BY <1>1, <1>3, <1>4, <1>5 DEF Buffer

(* What the lines of module Lines are here.                                *)
Caps     == [t \in Terminals |-> IF t = Shown THEN caps_flag ELSE terminal_data[t].caps]
Typing   == [t \in Terminals |-> Text(Buffer(t), terminal_data[t].loc)]
Finished == [t \in Terminals |->
               IF terminal_data[t].enter THEN Line(Buffer(t), BufferSize) ELSE <<>>]

(* A step that leaves the buffers and the flags alone, and moves the       *)
(* positions of no line, leaves the lines alone.                           *)
LEMMA SameLines ==
  ASSUME \A t \in Terminals : /\ Buffer(t)' = Buffer(t)
                              /\ terminal_data'[t].loc = terminal_data[t].loc
                              /\ terminal_data'[t].enter = terminal_data[t].enter
  PROVE  Typing' = Typing /\ Finished' = Finished
BY DEF Typing, Finished, Text, Line

(* The lines of the terminals that are not shown keep, whatever a key      *)
(* does to the buffer of the one that is.                                  *)
LEMMA OthersKeep ==
  ASSUME IInv, Typed', switching = NoSwitch, UNCHANGED <<cur_display_terminal, switching>>,
         NEW t \in Terminals, t # cur_display_terminal, terminal_data'[t] = terminal_data[t]
  PROVE  /\ Typing'[t] = Typing[t] /\ Finished'[t] = Finished[t]
         /\ LineOK(t)'
<1>1. Shown = cur_display_terminal /\ Shown' = cur_display_terminal
  BY DEF Shown
<1>2. /\ Buffer(t) \in Buffers /\ Buffer(t)' \in Buffers
      /\ \A i \in 0 .. BufLen - 1 : Buffer(t)'[i] = Buffer(t)[i]
  BY <1>1, BufferFacts, BufferFactsNext DEF IInv
<1>3. terminal_data[t].loc \in 0 .. BufLen /\ terminal_data[t].enter \in BOOLEAN
  BY <1>1, Parts, Constants DEF IInv, LineInv, LineOK
<1>4. PICK l : l = terminal_data[t].loc
  OBVIOUS
<1>5. Text(Buffer(t)', l) = Text(Buffer(t), l)
  <2>1. \A i \in 1 .. l : i - 1 \in 0 .. BufLen - 1
    BY <1>3, <1>4, Constants
  <2> QED BY <1>2, <2>1, TextSame
<1>6. Typing'[t] = Typing[t]
  BY <1>4, <1>5 DEF Typing, Text
<1>7. terminal_data[t].enter => \E i \in 0 .. BufLen - 1 : Buffer(t)[i] = "\n"
  BY <1>1 DEF IInv, LineInv, LineOK
<1>8. ASSUME terminal_data[t].enter PROVE Line(Buffer(t)', BufferSize) = Line(Buffer(t), BufferSize)
  <2>1. BufferSize \in 1 .. BufferSize
    BY Constants
  <2>2. PICK k \in 1 .. BufferSize : Ends(Buffer(t), BufferSize, k)
    BY <2>1, LineEnds
  <2>3. PICK i \in 0 .. BufLen - 1 : Buffer(t)[i] = "\n"
    BY <1>7, <1>8
  <2>4. k \in 1 .. BufLen
    <3>1. ASSUME k = BufferSize PROVE FALSE
      <4>1. i \in 0 .. k - 2
        BY <3>1, Constants
      <4> QED BY <2>2, <2>3, <4>1 DEF Ends
    <3> QED BY <3>1, Constants
  <2>5. \A j \in 0 .. k - 1 : Buffer(t)[j] = Buffer(t)'[j]
    <3>1. \A j \in 0 .. k - 1 : j \in 0 .. BufLen - 1
      BY <2>4, Constants
    <3> QED BY <1>2, <3>1
  <2> QED BY <2>1, <2>2, <2>5, LineSame
<1>9. Finished'[t] = Finished[t]
  BY <1>8 DEF Finished, Line
<1>10. LineOK(t)'
  <2>1. \A i \in 0 .. l - 1 : i \in 0 .. BufLen - 1
    BY <1>3, <1>4, Constants
  <2>2. \A i \in 0 .. l - 1 : Buffer(t)'[i] = "c"
    BY <1>2, <1>4, <2>1 DEF IInv, LineInv, LineOK
  <2>3. terminal_data[t].enter =>
          l = 0 /\ \E i \in 0 .. BufLen - 1 : Buffer(t)'[i] = "\n"
    BY <1>2, <1>4, <1>7 DEF IInv, LineInv, LineOK
  <2>4. l <= BufLen /\ \A i \in 0 .. BufLen - 1 : i \in 0 .. BufLen
    BY <1>3, <1>4, Constants
  <2> QED BY <1>1, <1>4, <2>2, <2>3, <2>4 DEF LineOK
<1> QED BY <1>6, <1>9, <1>10

-----------------------------------------------------------------------------
(* The steps of Lines.                                                     *)

(* The steps of Lines, in terms of these.                                  *)
SameShown == received' = <<>> /\ Shown' = Shown /\ Caps' = Caps

(* A character.                                                            *)
LEMMA TypeIs ==
  Prompted!Type("c") <=>
    /\ Finished[Shown] = <<>> /\ Len(Typing[Shown]) < BufferSize
    /\ Typing' = [Typing EXCEPT ![Shown] = Append(Typing[Shown], "c")]
    /\ Finished' = Finished /\ SameShown
BY Zenon DEF Prompted!Type, Prompted!Room, Caps, Typing, Finished, Text, SameShown

(* The end of a line.                                                      *)
LEMMA EnterIs ==
  Prompted!Enter <=>
    /\ Finished[Shown] = <<>> /\ Len(Typing[Shown]) < BufferSize
    /\ Finished' = [Finished EXCEPT ![Shown] = Append(Typing[Shown], "\n")]
    /\ Typing' = [Typing EXCEPT ![Shown] = <<>>]
    /\ SameShown
BY Zenon DEF Prompted!Enter, Prompted!Room, Caps, Typing, Finished, Text, SameShown

(* Backspace.                                                              *)
LEMMA EraseIs ==
  Prompted!Erase <=>
    /\ Typing[Shown] # <<>>
    /\ Typing' = [Typing EXCEPT ![Shown] = SubSeq(Typing[Shown], 1, Len(Typing[Shown]) - 1)]
    /\ Finished' = Finished /\ SameShown
BY Zenon DEF Prompted!Erase, Caps, Typing, Finished, Text, SameShown

(* The whole line.                                                         *)
LEMMA KillIs ==
  Prompted!Kill <=>
    /\ Typing' = [Typing EXCEPT ![Shown] = <<>>]
    /\ Finished' = Finished /\ SameShown
BY Zenon DEF Prompted!Kill, Caps, Typing, Finished, Text, SameShown

(* Caps lock.                                                              *)
LEMMA CapsLockIs ==
  Prompted!CapsLock <=>
    /\ Caps' = [Caps EXCEPT ![Shown] = ~Caps[Shown]]
    /\ received' = <<>> /\ Shown' = Shown /\ Typing' = Typing /\ Finished' = Finished
BY Zenon DEF Prompted!CapsLock, Caps, Typing, Finished, Text

(* A step that no reader sees.                                             *)
LEMMA ForgetIs ==
  Prompted!Forget <=> Typing' = Typing /\ Finished' = Finished /\ SameShown
BY Zenon DEF Prompted!Forget, Caps, Typing, Finished, Text, SameShown

(* Another terminal on the screen.                                         *)
LEMMA ShowIs ==
  ASSUME NEW t
  PROVE  Prompted!Show(t) <=>
           /\ Shown' = t /\ received' = <<>>
           /\ Caps' = Caps /\ Typing' = Typing /\ Finished' = Finished
BY Zenon DEF Prompted!Show, Caps, Typing, Finished, Text

(* A line, or the beginning of it, for a reader.                           *)
LEMMA TakeIs ==
  ASSUME NEW t, NEW n
  PROVE  Prompted!Take(t, n) <=>
           /\ Finished[t] # <<>>
           /\ received' = <<t>> \o SubSeq(Finished[t], 1,
                                          IF n < Len(Finished[t]) THEN n ELSE Len(Finished[t]))
           /\ Finished' = [Finished EXCEPT ![t] = <<>>]
           /\ Shown' = Shown /\ Caps' = Caps /\ Typing' = Typing
BY Zenon DEF Prompted!Take, Caps, Typing, Finished, Text

-----------------------------------------------------------------------------
(* Part 4.  The keys.                                                      *)

(* A key of the displayed terminal: what all of them leave alone.          *)
Key ==
  /\ KeyboardIrq
  /\ UNCHANGED <<turns, program, switching, caps_flag>>
  /\ \A t \in Terminals \ {cur_display_terminal} : terminal_data'[t] = terminal_data[t]
  /\ terminal_data'[cur_display_terminal].caps = Displayed.caps
  /\ Displayed.enter => terminal_data'[cur_display_terminal].enter

(* So the other lines stay, and all reads.                                 *)
LEMMA KeyKeeps ==
  ASSUME IInv, Typed', Key
  PROVE  /\ Shown = cur_display_terminal /\ Shown' = Shown /\ SameShown
         /\ \A t \in Terminals \ {Shown} :
              Typing'[t] = Typing[t] /\ Finished'[t] = Finished[t] /\ LineOK(t)'
         /\ \A t \in Terminals : ReadOK(t)'
         /\ SwitchInTurn'
<1>0. switching = NoSwitch /\ UNCHANGED <<cur_display_terminal, switching>>
  BY DEF Key, KeyboardIrq, turns
<1>1. Shown = cur_display_terminal /\ Shown' = Shown
  BY <1>0 DEF Shown
<1>2. ASSUME NEW t \in Terminals \ {Shown}
      PROVE  Typing'[t] = Typing[t] /\ Finished'[t] = Finished[t] /\ LineOK(t)'
  BY <1>0, <1>1, OthersKeep DEF Key
<1>3. ASSUME NEW t \in Terminals PROVE ReadOK(t)'
  <2>1. ReadOK(t) /\ UNCHANGED program[t] /\ UNCHANGED <<cur_display_terminal, switching>>
    BY DEF Key, IInv, LineInv, turns
  <2>2. \A u \in Terminals : u # Shown => terminal_data'[u] = terminal_data[u]
    BY <1>1 DEF Key
  <2>3. terminal_data[t].enter => terminal_data'[t].enter
    BY <1>1, <2>2 DEF Key, Displayed
  <2> QED BY <1>1, <2>1, <2>2, <2>3 DEF ReadOK
<1>4. SwitchInTurn'
  BY DEF Key, KeyboardIrq, SwitchInTurn
<1>5. Caps' = Caps
  BY <1>1 DEF Key, Caps
<1> QED BY <1>1, <1>2, <1>3, <1>4, <1>5 DEF SameShown, Key, KeyboardIrq

(* The values of the lines for one terminal.                               *)
LEMMA LineValues ==
  ASSUME NEW t \in Terminals
  PROVE  /\ Typing[t] = Text(Buffer(t), terminal_data[t].loc)
         /\ Typing'[t] = Text(Buffer(t)', terminal_data'[t].loc)
         /\ Finished[t] = IF terminal_data[t].enter THEN Line(Buffer(t), BufferSize) ELSE <<>>
         /\ Finished'[t] = IF terminal_data'[t].enter THEN Line(Buffer(t)', BufferSize) ELSE <<>>
BY DEF Typing, Finished, Text, Line

(* How Typing and Finished change, from their values.                      *)
LEMMA TypingChanged ==
  ASSUME NEW v, NEW s \in Terminals, Typing'[s] = v,
         \A t \in Terminals \ {s} : Typing'[t] = Typing[t]
  PROVE  Typing' = [Typing EXCEPT ![s] = v]
BY DEF Typing

(* The same for Finished.                                                  *)
LEMMA FinishedChanged ==
  ASSUME NEW v, NEW s \in Terminals, Finished'[s] = v,
         \A t \in Terminals \ {s} : Finished'[t] = Finished[t]
  PROVE  Finished' = [Finished EXCEPT ![s] = v]
BY DEF Finished

(* And if no value changes.                                                *)
LEMMA FinishedSame ==
  ASSUME \A t \in Terminals : Finished'[t] = Finished[t]
  PROVE  Finished' = Finished
BY DEF Finished

(* A character, or a tab.                                                  *)
LEMMA TypeStep ==
  ASSUME IInv, KeyboardIrq, UNCHANGED <<turns, caps_flag, program, switching>>,
         ~Displayed.enter, Displayed.loc < BufferSize,
         Store("c"), SetLoc(Displayed.loc + 1)
  PROVE  IInv' /\ Prompted!Type("c")
<1>1. Displayed \in Records /\ cur_display_terminal \in Terminals
  BY DEF IInv, Typed, Displayed
<1>2. PICK l : l = Displayed.loc
  OBVIOUS
<1>3. l \in 0 .. BufLen /\ l \in 0 .. BufferSize - 1 /\ l + 1 \in 0 .. BufferSize /\ "c" \in Chars
  BY <1>1, <1>2, Constants DEF Records, Chars
<1>4. /\ terminal_data' \in [Terminals -> Records]
      /\ terminal_data'[cur_display_terminal].loc = l + 1
      /\ terminal_data'[cur_display_terminal].enter = Displayed.enter
      /\ terminal_data'[cur_display_terminal].caps = Displayed.caps
      /\ \A t \in Terminals \ {cur_display_terminal} : terminal_data'[t] = terminal_data[t]
  BY <1>2, <1>3, SetLocTyped DEF IInv
<1>5. keyboard_buf' \in [0 .. BufLen -> Chars]
  BY <1>3, StoreTyped DEF IInv
<1>6. Typed'
  BY <1>4, <1>5 DEF IInv, Typed, turns
<1>7. Key
  BY <1>4 DEF Key
<1>8. /\ Shown = cur_display_terminal /\ Shown' = Shown /\ SameShown
      /\ \A t \in Terminals \ {Shown} :
           Typing'[t] = Typing[t] /\ Finished'[t] = Finished[t] /\ LineOK(t)'
      /\ \A t \in Terminals : ReadOK(t)'
      /\ SwitchInTurn'
  BY <1>6, <1>7, KeyKeeps
<1>9. PICK s \in Terminals : s = Shown
  BY <1>1, <1>8
<1>10. PICK b \in Buffers : b = keyboard_buf /\ b = Buffer(s)
  BY <1>9, BufferFacts DEF IInv
<1>11. PICK d \in Buffers : d = keyboard_buf' /\ d = Buffer(s)'
  BY <1>6, <1>8, <1>9, BufferFactsNext
<1>12. d[l] = "c" /\ \A i \in 0 .. l - 1 : d[i] = b[i]
  <2>1. d = [i \in 0 .. BufLen |-> IF i = l THEN "c" ELSE b[i]]
    BY <1>2, <1>10, <1>11 DEF Store
  <2>2. \A i \in 0 .. l - 1 : i \in 0 .. BufLen /\ i # l
    BY <1>3, Constants
  <2> QED BY <1>3, <2>1, <2>2
<1>13. /\ terminal_data[s].loc = l /\ terminal_data'[s].loc = l + 1
       /\ ~terminal_data[s].enter /\ ~terminal_data'[s].enter
  BY <1>2, <1>4, <1>8, <1>9 DEF Displayed
<1>14. /\ Typing[s] = Text(b, l) /\ Typing'[s] = Text(d, l + 1)
       /\ Finished[s] = <<>> /\ Finished'[s] = <<>>
  BY <1>10, <1>11, <1>13, LineValues
<1>15. Text(d, l + 1) = Append(Text(b, l), "c")
  BY <1>3, <1>12, TextAppend
<1>16. Len(Typing[s]) < BufferSize
  <2>1. l \in 0 .. BufferSize /\ l < BufferSize
    BY <1>3, Constants
  <2> QED BY <1>14, <2>1, TextType
<1>17. Typing' = [Typing EXCEPT ![s] = Append(Typing[s], "c")]
  BY <1>8, <1>9, <1>14, <1>15, TypingChanged
<1>18. Finished' = Finished
  BY <1>8, <1>9, <1>14, FinishedSame
<1>19. LineOK(s)'
  <2>1. \A i \in 0 .. l - 1 : b[i] = "c"
    BY <1>10, <1>13 DEF IInv, LineInv, LineOK
  <2>2. \A i \in 0 .. terminal_data'[s].loc - 1 : Buffer(s)'[i] = "c"
    <3>1. ASSUME NEW i \in 0 .. terminal_data'[s].loc - 1 PROVE d[i] = "c"
      <4>1. i = l \/ i \in 0 .. l - 1
        BY <1>3, <1>13, Constants
      <4> QED BY <1>12, <2>1, <4>1
    <3> QED BY <1>11, <3>1
  <2> QED BY <1>8, <1>9, <1>13, <2>2 DEF LineOK
<1>20. LineInv'
  BY <1>8, <1>9, <1>19 DEF LineInv
<1> QED BY <1>6, <1>8, <1>9, <1>14, <1>16, <1>17, <1>18, <1>20, TypeIs DEF IInv

(* The Enter key.                                                          *)
LEMMA EnterStep ==
  ASSUME IInv, EnterKey, ~Displayed.enter
  PROVE  IInv' /\ Prompted!Enter
<1>1. Displayed \in Records /\ cur_display_terminal \in Terminals
  BY DEF IInv, Typed, Displayed
<1>2. PICK l : l = Displayed.loc
  OBVIOUS
<1>3. l \in 0 .. BufLen /\ l \in 0 .. BufferSize - 1 /\ l + 1 \in 1 .. BufferSize /\ "\n" \in Chars
  BY <1>1, <1>2, Constants DEF Records, Chars, EnterKey
<1>4. /\ terminal_data' \in [Terminals -> Records]
      /\ terminal_data'[cur_display_terminal].loc = 0
      /\ terminal_data'[cur_display_terminal].enter
      /\ terminal_data'[cur_display_terminal].caps = Displayed.caps
      /\ \A t \in Terminals \ {cur_display_terminal} : terminal_data'[t] = terminal_data[t]
  BY EnterFacts DEF IInv
<1>5. keyboard_buf' \in [0 .. BufLen -> Chars]
  BY <1>3, StoreTyped DEF IInv, EnterKey
<1>6. Typed'
  BY <1>4, <1>5 DEF IInv, Typed, turns, EnterKey
<1>7. Key
  BY <1>4 DEF Key, EnterKey
<1>8. /\ Shown = cur_display_terminal /\ Shown' = Shown /\ SameShown
      /\ \A t \in Terminals \ {Shown} :
           Typing'[t] = Typing[t] /\ Finished'[t] = Finished[t] /\ LineOK(t)'
      /\ \A t \in Terminals : ReadOK(t)'
      /\ SwitchInTurn'
  BY <1>6, <1>7, KeyKeeps
<1>9. PICK s \in Terminals : s = Shown
  BY <1>1, <1>8
<1>10. PICK b \in Buffers : b = keyboard_buf /\ b = Buffer(s)
  BY <1>9, BufferFacts DEF IInv
<1>11. PICK d \in Buffers : d = keyboard_buf' /\ d = Buffer(s)'
  BY <1>6, <1>8, <1>9, BufferFactsNext
<1>12. d[l] = "\n" /\ \A i \in 0 .. l - 1 : d[i] = b[i]
  <2>1. d = [i \in 0 .. BufLen |-> IF i = l THEN "\n" ELSE b[i]]
    BY <1>2, <1>10, <1>11 DEF Store, EnterKey
  <2>2. \A i \in 0 .. l - 1 : i \in 0 .. BufLen /\ i # l
    BY <1>3, Constants
  <2> QED BY <1>3, <2>1, <2>2
<1>13. /\ terminal_data[s].loc = l /\ terminal_data'[s].loc = 0
       /\ ~terminal_data[s].enter /\ terminal_data'[s].enter
  BY <1>2, <1>4, <1>8, <1>9 DEF Displayed
<1>14. /\ Typing[s] = Text(b, l) /\ Typing'[s] = Text(d, 0)
       /\ Finished[s] = <<>> /\ Finished'[s] = Line(d, BufferSize)
  BY <1>10, <1>11, <1>13, LineValues
<1>15. Text(d, l + 1) = Append(Text(b, l), "\n")
  BY <1>3, <1>12, TextAppend
<1>16. Line(d, BufferSize) = Text(d, l + 1)
  <2>1. \A i \in 0 .. l - 1 : b[i] = "c"
    BY <1>10, <1>13 DEF IInv, LineInv, LineOK
  <2>2. \A i \in 0 .. l + 1 - 2 : i \in 0 .. l - 1
    BY <1>3, Constants
  <2>3. l + 1 - 1 = l
    BY <1>3, Constants
  <2>4. Ends(d, BufferSize, l + 1)
    BY <1>3, <1>12, <2>1, <2>2, <2>3 DEF Ends
  <2>5. BufferSize \in 1 .. BufferSize
    BY Constants
  <2> QED BY <2>4, <2>5, LineIs
<1>17. Len(Typing[s]) < BufferSize
  <2>1. l \in 0 .. BufferSize /\ l < BufferSize
    BY <1>3, Constants
  <2> QED BY <1>14, <2>1, TextType
<1>18. Typing' = [Typing EXCEPT ![s] = <<>>]
  BY <1>8, <1>9, <1>14, TextEmpty, TypingChanged
<1>19. Finished' = [Finished EXCEPT ![s] = Append(Typing[s], "\n")]
  BY <1>8, <1>9, <1>14, <1>15, <1>16, FinishedChanged
<1>20. LineOK(s)'
  <2>1. \A i \in 0 .. terminal_data'[s].loc - 1 : Buffer(s)'[i] = "c"
    BY <1>13
  <2>2. \E i \in 0 .. BufLen : Buffer(s)'[i] = "\n"
    BY <1>3, <1>11, <1>12
  <2> QED BY <1>8, <1>9, <1>13, <2>1, <2>2 DEF LineOK
<1>21. LineInv'
  BY <1>8, <1>9, <1>20 DEF LineInv
<1> QED BY <1>6, <1>8, <1>9, <1>14, <1>17, <1>18, <1>19, <1>21, EnterIs DEF IInv

(* Backspace with a line to erase from.                                    *)
LEMMA EraseStep ==
  ASSUME IInv, BackspaceKey, Displayed.loc > 0
  PROVE  IInv' /\ Prompted!Erase
<1>1. Displayed \in Records /\ cur_display_terminal \in Terminals
  BY DEF IInv, Typed, Displayed
<1>2. PICK l : l = Displayed.loc
  OBVIOUS
<1>3. l \in 0 .. BufferSize /\ l \in Nat \ {0} /\ l - 1 \in 0 .. BufferSize /\ l - 1 \in 0 .. l
  BY <1>1, <1>2, Constants DEF Records
<1>4. SetLoc(l - 1)
  BY <1>2, <1>3 DEF BackspaceKey
<1>5. /\ terminal_data' \in [Terminals -> Records]
      /\ terminal_data'[cur_display_terminal].loc = l - 1
      /\ terminal_data'[cur_display_terminal].enter = Displayed.enter
      /\ terminal_data'[cur_display_terminal].caps = Displayed.caps
      /\ \A t \in Terminals \ {cur_display_terminal} : terminal_data'[t] = terminal_data[t]
  BY <1>3, <1>4, SetLocTyped DEF IInv
<1>6. Typed'
  BY <1>5 DEF IInv, Typed, turns, BackspaceKey
<1>7. Key
  BY <1>5 DEF Key, BackspaceKey
<1>8. /\ Shown = cur_display_terminal /\ Shown' = Shown /\ SameShown
      /\ \A t \in Terminals \ {Shown} :
           Typing'[t] = Typing[t] /\ Finished'[t] = Finished[t] /\ LineOK(t)'
      /\ \A t \in Terminals : ReadOK(t)'
      /\ SwitchInTurn'
  BY <1>6, <1>7, KeyKeeps
<1>9. PICK s \in Terminals : s = Shown
  BY <1>1, <1>8
<1>10. PICK b \in Buffers : b = Buffer(s) /\ b = Buffer(s)'
  BY <1>6, <1>8, <1>9, BufferFacts, BufferFactsNext DEF IInv, BackspaceKey
<1>11. /\ terminal_data[s].loc = l /\ terminal_data'[s].loc = l - 1
       /\ ~terminal_data[s].enter /\ ~terminal_data'[s].enter
  <2>1. terminal_data[s].loc = l /\ l # 0
    BY <1>2, <1>3, <1>8, <1>9 DEF Displayed
  <2>2. ~terminal_data[s].enter
    BY <2>1 DEF IInv, LineInv, LineOK
  <2> QED BY <1>5, <1>8, <1>9, <2>1, <2>2 DEF Displayed
<1>12. /\ Typing[s] = Text(b, l) /\ Typing'[s] = Text(b, l - 1)
       /\ Finished[s] = <<>> /\ Finished'[s] = <<>>
  BY <1>10, <1>11, LineValues
<1>13. Text(b, l) \in Seq(Chars) /\ Len(Text(b, l)) = l
  BY <1>3, TextType
<1>14. Typing[s] # <<>> /\ Text(b, l - 1) = SubSeq(Typing[s], 1, Len(Typing[s]) - 1)
  BY <1>3, <1>12, <1>13, EmptySeq, TextPrefix
<1>15. Typing' = [Typing EXCEPT ![s] = SubSeq(Typing[s], 1, Len(Typing[s]) - 1)]
  BY <1>8, <1>9, <1>12, <1>14, TypingChanged
<1>16. Finished' = Finished
  BY <1>8, <1>9, <1>12, FinishedSame
<1>17. LineOK(s)'
  <2>1. \A i \in 0 .. l - 1 : b[i] = "c"
    BY <1>10, <1>11 DEF IInv, LineInv, LineOK
  <2>2. \A i \in 0 .. l - 1 - 1 : i \in 0 .. l - 1
    BY <1>3
  <2>3. \A i \in 0 .. terminal_data'[s].loc - 1 : Buffer(s)'[i] = "c"
    BY <1>10, <1>11, <2>1, <2>2
  <2> QED BY <1>8, <1>9, <1>11, <2>3 DEF LineOK
<1>18. LineInv'
  BY <1>8, <1>9, <1>17 DEF LineInv
<1> QED BY <1>6, <1>8, <1>9, <1>14, <1>15, <1>16, <1>18, EraseIs DEF IInv

(* The position set to 0: ctrl-L, or backspace without a line.             *)
LEMMA KillStep ==
  ASSUME IInv, KeyboardIrq, UNCHANGED <<turns, keyboard_buf, caps_flag, program, switching>>,
         SetLoc(0)
  PROVE  IInv' /\ Prompted!Kill
<1>1. Displayed \in Records /\ cur_display_terminal \in Terminals
  BY DEF IInv, Typed, Displayed
<1>2. 0 \in 0 .. BufferSize
  BY Constants
<1>3. /\ terminal_data' \in [Terminals -> Records]
      /\ terminal_data'[cur_display_terminal].loc = 0
      /\ terminal_data'[cur_display_terminal].enter = Displayed.enter
      /\ terminal_data'[cur_display_terminal].caps = Displayed.caps
      /\ \A t \in Terminals \ {cur_display_terminal} : terminal_data'[t] = terminal_data[t]
  BY <1>2, SetLocTyped DEF IInv
<1>4. Typed'
  BY <1>3 DEF IInv, Typed, turns
<1>5. Key
  BY <1>3 DEF Key
<1>6. /\ Shown = cur_display_terminal /\ Shown' = Shown /\ SameShown
      /\ \A t \in Terminals \ {Shown} :
           Typing'[t] = Typing[t] /\ Finished'[t] = Finished[t] /\ LineOK(t)'
      /\ \A t \in Terminals : ReadOK(t)'
      /\ SwitchInTurn'
  BY <1>4, <1>5, KeyKeeps
<1>7. PICK s \in Terminals : s = Shown
  BY <1>1, <1>6
<1>8. PICK b \in Buffers : b = Buffer(s) /\ b = Buffer(s)'
  BY <1>4, <1>6, <1>7, BufferFacts, BufferFactsNext DEF IInv
<1>9. terminal_data'[s].loc = 0 /\ terminal_data'[s].enter = terminal_data[s].enter
  BY <1>3, <1>6, <1>7 DEF Displayed
<1>10. Typing'[s] = Text(b, 0) /\ Finished'[s] = Finished[s]
  BY <1>8, <1>9, LineValues
<1>11. Typing' = [Typing EXCEPT ![s] = <<>>]
  BY <1>6, <1>7, <1>10, TextEmpty, TypingChanged
<1>12. Finished' = Finished
  BY <1>6, <1>7, <1>10, FinishedSame
<1>13. LineOK(s)'
  <2>1. \A i \in 0 .. terminal_data'[s].loc - 1 : Buffer(s)'[i] = "c"
    BY <1>9
  <2>2. terminal_data'[s].enter => \E i \in 0 .. BufLen : Buffer(s)'[i] = "\n"
    <3>1. terminal_data[s].enter => \E i \in 0 .. BufLen : Buffer(s)[i] = "\n"
      BY DEF IInv, LineInv, LineOK
    <3> QED BY <1>8, <1>9, <3>1, Zenon
  <2> QED BY <1>6, <1>7, <1>9, <2>1, <2>2 DEF LineOK
<1>14. LineInv'
  BY <1>6, <1>7, <1>13 DEF LineInv
<1> QED BY <1>4, <1>6, <1>7, <1>11, <1>12, <1>14, KillIs DEF IInv

(* Caps lock changes the case of the terminal that is shown.               *)
LEMMA CapsLockStep ==
  ASSUME IInv, CapsLock
  PROVE  IInv' /\ Prompted!CapsLock
<1>1. Typed'
  BY DEF IInv, Typed, CapsLock, turns
<1>2. Shown \in Terminals /\ Shown' = Shown /\ switching = NoSwitch /\ received' = <<>>
  BY BufferFacts DEF IInv, CapsLock, KeyboardIrq, turns, Shown
<1>3. \A t \in Terminals : Buffer(t)' = Buffer(t)
  BY <1>2 DEF Buffer, CapsLock
<1>4. Typing' = Typing /\ Finished' = Finished
  BY <1>3, SameLines DEF CapsLock
<1>5. Caps' = [Caps EXCEPT ![Shown] = ~Caps[Shown]]
  BY <1>2 DEF Caps, CapsLock
<1>6. LineInv'
  BY <1>2, <1>3 DEF IInv, LineInv, LineOK, ReadOK, SwitchInTurn, CapsLock, turns
<1> QED BY <1>1, <1>2, <1>4, <1>5, <1>6, CapsLockIs DEF IInv

-----------------------------------------------------------------------------
(* Part 5.  Switches, reads and ticks.                                     *)

NoRaces == Races = {}

(* Between two switches nothing of the display changes.                    *)
Still == UNCHANGED <<keyboard_buf, terminal_data, caps_flag>> /\ Shown' = Shown /\ received' = <<>>

(* So the lines stay and nothing is received.                              *)
LEMMA StillStep ==
  ASSUME Still
  PROVE  /\ Prompted!Forget
         /\ \A t \in Terminals : Buffer(t)' = Buffer(t) /\ (LineOK(t) => LineOK(t)')
<1>1. \A t \in Terminals : Buffer(t)' = Buffer(t)
  BY DEF Still, Buffer
<1>2. Typing' = Typing /\ Finished' = Finished
  BY <1>1, SameLines DEF Still
<1>3. Caps' = Caps
  BY DEF Still, Caps
<1>4. \A t \in Terminals : LineOK(t) => LineOK(t)'
  BY <1>1 DEF Still, LineOK
<1> QED BY <1>1, <1>2, <1>3, <1>4, ForgetIs DEF SameShown, Still

(* The first half of a switch shows another terminal: its line and its     *)
(* caps lock come to the screen with it.                                   *)
LEMMA FunctionKeyStep ==
  ASSUME NoRaces, IInv, Typed', NEW to \in Terminals, FunctionKey(to)
  PROVE  LineInv' /\ Prompted!Show(to)
<1>1. PICK from \in Terminals : from = cur_display_terminal
  BY DEF IInv, Typed
<1>2. from # to /\ Exchange(from, to)
  BY <1>1 DEF FunctionKey
<1>3. /\ caps_flag' = terminal_data[to].caps
      /\ \A t \in Terminals : /\ terminal_data'[t].loc = terminal_data[t].loc
                              /\ terminal_data'[t].enter = terminal_data[t].enter
      /\ terminal_data'[from].buf = [i \in 0 .. BufLen - 1 |-> keyboard_buf[i]]
      /\ terminal_data'[from].caps = caps_flag
      /\ \A t \in Terminals \ {from, to} : terminal_data'[t] = terminal_data[t]
      /\ keyboard_buf' = [i \in 0 .. BufLen |->
           IF i < BufLen THEN terminal_data[to].buf[i] ELSE keyboard_buf[i]]
  BY <1>2, ExchangeFacts DEF IInv
<1>4. switching = NoSwitch /\ Shown = from /\ received' = <<>>
  BY <1>1 DEF FunctionKey, KeyboardIrq, Shown
<1>5. /\ switching' = [on |-> cur_execute_terminal, to |-> to]
      /\ UNCHANGED <<cur_display_terminal, cur_execute_terminal, program>>
  BY DEF FunctionKey, turns
<1>6. Shown' = to
  <2>1. switching'.to # -1
    BY <1>5, Constants
  <2>2. switching' # NoSwitch
    BY <2>1 DEF NoSwitch
  <2> QED BY <1>5, <2>2 DEF Shown
<1>7. \A t \in Terminals : Buffer(t)' = Buffer(t)
  <2>1. \A i \in 0 .. BufLen : /\ i = BufLen => ~(i < BufLen)
                               /\ i # BufLen => i < BufLen /\ i \in 0 .. BufLen - 1
    BY Constants
  <2>2. keyboard_buf'[BufLen] = keyboard_buf[BufLen]
    BY <1>3, Constants
  <2>3. ASSUME NEW t \in Terminals, t # from, t # to PROVE Buffer(t)' = Buffer(t)
    BY <1>3, <1>4, <1>6, <2>2, <2>3 DEF Buffer
  <2>4. Buffer(from)' = Buffer(from)
    <3>1. Buffer(from) = [i \in 0 .. BufLen |-> keyboard_buf[i]]
      BY <1>4 DEF Buffer
    <3>2. Buffer(from)' = [i \in 0 .. BufLen |->
                             IF i = BufLen THEN keyboard_buf'[i] ELSE terminal_data'[from].buf[i]]
      BY <1>2, <1>6 DEF Buffer
    <3>3. \A i \in 0 .. BufLen : i # BufLen => terminal_data'[from].buf[i] = keyboard_buf[i]
      BY <1>3, <2>1
    <3> QED BY <2>2, <3>1, <3>2, <3>3
  <2>5. Buffer(to)' = Buffer(to)
    <3>1. Buffer(to) = [i \in 0 .. BufLen |->
                          IF i = BufLen THEN keyboard_buf[i] ELSE terminal_data[to].buf[i]]
      BY <1>2, <1>4 DEF Buffer
    <3>2. Buffer(to)' = [i \in 0 .. BufLen |-> keyboard_buf'[i]]
      BY <1>6 DEF Buffer
    <3>3. \A i \in 0 .. BufLen : i # BufLen => keyboard_buf'[i] = terminal_data[to].buf[i]
      BY <1>3, <2>1
    <3> QED BY <2>2, <3>1, <3>2, <3>3
  <2> QED BY <2>3, <2>4, <2>5
<1>8. Typing' = Typing /\ Finished' = Finished
  BY <1>3, <1>7, SameLines
<1>9. Caps' = Caps
  BY <1>2, <1>3, <1>4, <1>6 DEF Caps
<1>10. Prompted!Show(to)
  BY <1>4, <1>6, <1>8, <1>9, ShowIs
<1>11. /\ Displayed = terminal_data[from]
       /\ Displayed.loc = 0 \/ \A t \in Terminals \ {from} : program[t].at # from
       /\ \A t \in Terminals : program[t].pc # "copy"
       /\ ~LineUsesLastByte
  BY <1>1 DEF FunctionKey, SwitchAllowed, NoRaces, Displayed
<1>12. SwitchInTurn'
  BY <1>5 DEF SwitchInTurn
<1>13. ASSUME NEW t \in Terminals, t # from PROVE LineOK(t)'
  BY <1>3, <1>4, <1>7, <1>13 DEF IInv, LineInv, LineOK
<1>14. LineOK(from)'
  <2>1. LineOK(from) /\ terminal_data[from].loc \in 0 .. BufferSize /\ terminal_data[from].enter \in BOOLEAN
    BY Parts DEF IInv, LineInv
  <2>2. terminal_data[from].loc <= BufLen
    BY <1>11, <2>1, Constants DEF LineUsesLastByte
  <2>3. Buffer(from) = keyboard_buf
    BY <1>4, BufferFacts DEF IInv
  <2>4. terminal_data[from].enter => \E i \in 0 .. BufLen - 1 : Buffer(from)[i] = "\n"
    BY <1>11, <2>1, <2>3 DEF LineUsesLastByte
  <2> QED BY <1>3, <1>7, <2>1, <2>2, <2>4 DEF LineOK
<1>15. ASSUME NEW t \in Terminals PROVE ReadOK(t)'
  <2>1. ReadOK(t) /\ program[t].pc # "copy" /\ program'[t] = program[t]
    BY <1>5, <1>11 DEF IInv, LineInv
  <2>2. ASSUME program[t].pc # "user", program[t].at # t, program[t].at # to
        PROVE  terminal_data'[program[t].at].loc = 0
    <3>1. program[t].at \in Terminals /\ (program[t].at # from => terminal_data[program[t].at].loc = 0)
      BY <1>4, <2>1, <2>2 DEF ReadOK
    <3>2. CASE program[t].at = from
      BY <1>3, <1>11, <2>2, <3>1, <3>2
    <3> QED BY <1>3, <3>1, <3>2
  <2> QED BY <1>6, <2>1, <2>2 DEF ReadOK
<1> QED BY <1>10, <1>12, <1>13, <1>14, <1>15 DEF LineInv

(* Its second half shows nothing new.                                      *)
LEMMA SetDisplayTermStep ==
  ASSUME IInv, SetDisplayTerm
  PROVE  LineInv' /\ Prompted!Forget
<1>1. switching # NoSwitch /\ Shown = switching.to
  <2>1. NoSwitch.on = -1 /\ cur_execute_terminal # -1
    BY Constants DEF NoSwitch, IInv, Typed
  <2> QED BY <2>1 DEF SetDisplayTerm, Shown
<1>2. Still
  BY <1>1 DEF Still, SetDisplayTerm, Shown
<1>3. ASSUME NEW t \in Terminals PROVE ReadOK(t)'
  <2>1. ReadOK(t) /\ program'[t] = program[t]
    BY DEF IInv, LineInv, SetDisplayTerm
  <2> QED BY <1>1, <1>2, <2>1 DEF ReadOK, Still
<1>4. SwitchInTurn'
  BY DEF SwitchInTurn, SetDisplayTerm
<1> QED BY <1>2, <1>3, <1>4, StillStep DEF IInv, LineInv

(* A read begins: the terminal whose position it will reset is shown.      *)
LEMMA ReadStep ==
  ASSUME IInv, NEW t \in Terminals, NEW n \in ReadSizes, Read(t, n)
  PROVE  LineInv' /\ Prompted!Forget
<1>1. PICK p \in Programs : /\ program' = [program EXCEPT ![t] = p]
                            /\ p.pc = "wait" /\ p.at = cur_display_terminal
                            /\ p.n \in 1 .. BufferSize
  BY ReadTyped DEF IInv
<1>2. switching = NoSwitch
  BY DEF IInv, LineInv, SwitchInTurn, Read, Runs
<1>3. Still
  BY DEF Still, Read, turns, Shown
<1>4. p.at = Shown /\ p.at \in Terminals
  BY <1>1, <1>2 DEF Shown, IInv, Typed
<1>5. program'[t] = p /\ \A u \in Terminals \ {t} : program'[u] = program[u]
  BY <1>1 DEF IInv, Typed
<1>6. ASSUME NEW u \in Terminals PROVE ReadOK(u)'
  <2>1. CASE u = t
    BY <1>1, <1>3, <1>4, <1>5, <2>1 DEF ReadOK, Still
  <2>2. CASE u # t
    BY <1>3, <1>5, <2>2 DEF ReadOK, Still, IInv, LineInv, Read, turns
  <2> QED BY <2>1, <2>2
<1>7. SwitchInTurn'
  BY <1>2 DEF SwitchInTurn, Read
<1> QED BY <1>3, <1>6, <1>7, StillStep DEF IInv, LineInv

(* The loop ends: the line is there and the terminal displayed.            *)
LEMMA AwakeStep ==
  ASSUME IInv, NEW t \in Terminals, Awake(t)
  PROVE  LineInv' /\ Prompted!Forget
<1>1. switching = NoSwitch
  BY DEF IInv, LineInv, SwitchInTurn, Awake, Runs
<1>2. Still
  BY DEF Still, Awake, turns, Shown
<1>3. /\ program'[t].pc = "copy" /\ program'[t].at = program[t].at
      /\ program'[t].n = program[t].n
      /\ \A u \in Terminals \ {t} : program'[u] = program[u]
  BY AwakeTyped DEF IInv
<1>4. /\ program[t].pc = "wait" /\ terminal_data[t].enter /\ cur_display_terminal = t
      /\ UNCHANGED <<cur_display_terminal, cur_execute_terminal, switching>>
  BY DEF Awake, Runs, turns
<1>5. ASSUME NEW u \in Terminals PROVE ReadOK(u)'
  <2>1. ReadOK(u)
    BY DEF IInv, LineInv
  <2>2. CASE u = t
    BY <1>1, <1>2, <1>3, <1>4, <2>1, <2>2 DEF ReadOK, Still
  <2>3. CASE u # t
    BY <1>2, <1>3, <1>4, <2>1, <2>3 DEF ReadOK, Still
  <2> QED BY <2>2, <2>3
<1>6. SwitchInTurn'
  BY <1>1, <1>4 DEF SwitchInTurn
<1> QED BY <1>2, <1>5, <1>6, StillStep DEF IInv, LineInv

(* The line is handed over: it is the finished one of the reader's own     *)
(* terminal, and no position is lost.                                      *)
LEMMA CopyStep ==
  ASSUME IInv, Typed', NEW t \in Terminals, Copy(t)
  PROVE  LineInv' /\ \E n \in 1 .. BufferSize : Prompted!Take(t, n)
<1>1. program[t].pc = "copy"
  BY DEF Copy, Runs
<1>2. PICK n \in 1 .. BufferSize : n = program[t].n
  BY <1>1 DEF IInv, LineInv, ReadOK
<1>3. PICK a \in Terminals : a = program[t].at /\ (a # t /\ a # Shown => terminal_data[a].loc = 0)
  BY <1>1 DEF IInv, LineInv, ReadOK
<1>4. switching = NoSwitch /\ Shown = t /\ terminal_data[t].enter /\ terminal_data[t].loc = 0
  BY <1>1 DEF IInv, LineInv, ReadOK, LineOK, Shown
<1>5. /\ terminal_data'[a].loc = 0 /\ terminal_data'[t].enter = FALSE
      /\ \A u \in Terminals :
           /\ u # a => terminal_data'[u].loc = terminal_data[u].loc
           /\ u # t => terminal_data'[u].enter = terminal_data[u].enter
           /\ terminal_data'[u].caps = terminal_data[u].caps
           /\ terminal_data'[u].buf = terminal_data[u].buf
  BY <1>3, CopyFacts DEF IInv
<1>6. \A u \in Terminals : terminal_data'[u].loc = terminal_data[u].loc
  BY <1>3, <1>4, <1>5
<1>7. /\ UNCHANGED <<cur_display_terminal, cur_execute_terminal, keyboard_buf, caps_flag, switching>>
      /\ received' = <<t>> \o Line(keyboard_buf, n)
      /\ program' = [program EXCEPT ![t] = User]
  BY <1>2 DEF Copy, turns
<1>8. Shown' = Shown
  BY <1>7 DEF Shown
<1>9. \A u \in Terminals : Buffer(u)' = Buffer(u)
  BY <1>5, <1>7, <1>8 DEF Buffer
<1>10. Typing' = Typing
  BY <1>6, <1>9 DEF Typing, Text
<1>11. Caps' = Caps
  BY <1>5, <1>7, <1>8 DEF Caps
<1>12. PICK b \in Buffers : b = keyboard_buf /\ b = Buffer(t)
  BY <1>4, BufferFacts DEF IInv
<1>13. Finished[t] = Line(b, BufferSize)
  BY <1>4, <1>12, LineValues
<1>14. /\ Line(b, BufferSize) # <<>>
       /\ Line(b, n) = SubSeq(Line(b, BufferSize), 1,
            IF n < Len(Line(b, BufferSize)) THEN n ELSE Len(Line(b, BufferSize)))
  BY LinePrefix
<1>15. /\ Finished[t] # <<>>
       /\ received' = <<t>> \o SubSeq(Finished[t], 1,
                                      IF n < Len(Finished[t]) THEN n ELSE Len(Finished[t]))
  BY <1>7, <1>12, <1>13, <1>14
<1>16. Finished'[t] = <<>>
  BY <1>5, LineValues
<1>17. \A u \in Terminals \ {t} : Finished'[u] = Finished[u]
  BY <1>5, <1>9, LineValues
<1>18. Finished' = [Finished EXCEPT ![t] = <<>>]
  BY <1>16, <1>17, FinishedChanged
<1>19. Prompted!Take(t, n)
  BY <1>8, <1>10, <1>11, <1>15, <1>18, TakeIs
<1>20. ASSUME NEW u \in Terminals PROVE LineOK(u)'
  <2>1. LineOK(u)
    BY DEF IInv, LineInv
  <2>2. CASE u = t
    BY <1>4, <1>5, <1>6, <1>8, <2>1, <2>2 DEF LineOK
  <2>3. CASE u # t
    BY <1>5, <1>6, <1>8, <1>9, <2>1, <2>3 DEF LineOK
  <2> QED BY <2>2, <2>3
<1>21. ASSUME NEW u \in Terminals PROVE ReadOK(u)'
  <2>1. ReadOK(u)
    BY DEF IInv, LineInv
  <2>2. CASE u = t
    <3>1. program'[u].pc = "user"
      BY <1>7, <2>2, UserTyped DEF IInv, Typed
    <3> QED BY <3>1 DEF ReadOK
  <2>3. CASE u # t
    <3>1. program'[u] = program[u]
      BY <1>7, <2>3 DEF IInv, Typed
    <3> QED BY <1>5, <1>6, <1>7, <1>8, <2>1, <2>3, <3>1 DEF ReadOK
  <2> QED BY <2>2, <2>3
<1>22. SwitchInTurn'
  BY <1>4, <1>7 DEF SwitchInTurn
<1> QED BY <1>19, <1>20, <1>21, <1>22 DEF LineInv

(* The turn changes: not within a switch.                                  *)
LEMMA TickStep ==
  ASSUME NoRaces, IInv, Tick
  PROVE  LineInv' /\ Prompted!Forget
<1>1. switching = NoSwitch
  BY DEF Tick, NoRaces
<1>2. Still
  BY DEF Still, Tick, Shown
<1>3. ASSUME NEW t \in Terminals PROVE ReadOK(t)'
  BY <1>2 DEF ReadOK, Still, IInv, LineInv, Tick
<1>4. SwitchInTurn'
  BY <1>1 DEF SwitchInTurn, Tick
<1> QED BY <1>2, <1>3, <1>4, StillStep DEF IInv, LineInv

-----------------------------------------------------------------------------
(* Part 6.  The refinement.                                                *)

(* The invariant holds at the start and is kept, and every step is one of  *)
(* Lines.                                                                  *)
LEMMA LinesInit == Init => LineInv /\ Prompted!Init
<1> SUFFICES ASSUME Init PROVE LineInv /\ Prompted!Init
  OBVIOUS
<1>1. Typed
  BY TypeInit DEF TypeInv
<1>2. \A t \in Terminals : terminal_data[t].loc = 0 /\ ~terminal_data[t].enter
  BY DEF Init, Blank
<1>3. \A t \in Terminals : program[t].pc = "user"
  BY UserTyped DEF Init
<1>4. switching = NoSwitch /\ Shown = 0
  BY DEF Init, Shown
<1>5. ASSUME NEW t \in Terminals PROVE LineOK(t)
  <2>1. terminal_data[t].loc = 0 /\ ~terminal_data[t].enter /\ 0 <= BufLen
    BY <1>2, Constants
  <2>2. \A i \in 0 .. terminal_data[t].loc - 1 : FALSE
    BY <2>1
  <2> QED BY <2>1, <2>2 DEF LineOK
<1>6. LineInv
  BY <1>3, <1>4, <1>5 DEF LineInv, ReadOK, SwitchInTurn
<1>7. \A t \in Terminals : Typing[t] = <<>> /\ Finished[t] = <<>>
  BY <1>1, <1>2, LineValues, BufferFacts, TextEmpty
<1>8. Typing = [t \in Terminals |-> <<>>] /\ Finished = [t \in Terminals |-> <<>>]
  BY <1>7 DEF Typing, Finished
<1>9. Caps = [t \in Terminals |-> FALSE]
  BY DEF Init, Caps, Blank
<1>10. received = <<>> /\ Shown \in Terminals
  BY <1>1, BufferFacts DEF Init
<1>11. Prompted!Init <=>
         /\ Shown \in Terminals /\ Caps = [t \in Terminals |-> FALSE]
         /\ Typing = [t \in Terminals |-> <<>>] /\ Finished = [t \in Terminals |-> <<>>]
         /\ received = <<>>
  BY Zenon DEF Prompted!Init, Caps, Typing, Finished, Text
<1> QED BY <1>6, <1>8, <1>9, <1>10, <1>11

(* Every step keeps the invariant and is a step of Lines.                  *)
LEMMA LinesStep ==
  ASSUME NoRaces, IInv, Typed', [Next]_vars
  PROVE  LineInv' /\ [Prompted!Next]_<<Shown, Caps, Typing, Finished, received>>
<1>1. ASSUME KeyboardIrq, InTime PROVE ~Displayed.enter
  BY <1>1 DEF InTime, NoRaces
<1>2. CASE TabKey \/ CharKey
  <2>1. Displayed.loc \in 0 .. BufferSize
    BY DEF IInv, Typed, Displayed, Records
  <2>2. Displayed.loc < BufferSize
    BY <1>2, <2>1, Constants DEF TabKey, CharKey, NoRaces
  <2>3. /\ KeyboardIrq /\ InTime /\ UNCHANGED <<turns, caps_flag, program, switching>>
        /\ Store("c") /\ SetLoc(Displayed.loc + 1)
    BY <1>2 DEF TabKey, CharKey
  <2> QED BY <1>1, <2>2, <2>3, TypeStep DEF IInv, Prompted!Next
<1>3. CASE EnterKey
  BY <1>1, <1>3, EnterStep DEF EnterKey, IInv, Prompted!Next
<1>4. CASE BackspaceKey
  <2>1. CASE Displayed.loc > 0
    BY <1>4, <2>1, EraseStep DEF IInv, Prompted!Next
  <2>2. CASE ~(Displayed.loc > 0)
    BY <1>4, <2>2, KillStep DEF BackspaceKey, IInv, Prompted!Next
  <2> QED BY <2>1, <2>2
<1>5. CASE ClearKey
  BY <1>5, KillStep DEF ClearKey, IInv, Prompted!Next
<1>6. CASE CapsLock
  BY <1>6, CapsLockStep DEF IInv, Prompted!Next
<1>7. ASSUME NEW to \in Terminals, FunctionKey(to)
      PROVE  LineInv' /\ Prompted!Next
  BY <1>7, FunctionKeyStep DEF Prompted!Next
<1>8. CASE SetDisplayTerm
  BY <1>8, SetDisplayTermStep DEF Prompted!Next
<1>9. CASE Tick
  BY <1>9, TickStep DEF Prompted!Next
<1>10. ASSUME NEW t \in Terminals, Awake(t) PROVE LineInv' /\ Prompted!Next
  BY <1>10, AwakeStep DEF Prompted!Next
<1>11. ASSUME NEW t \in Terminals, Copy(t) PROVE LineInv' /\ Prompted!Next
  BY <1>11, CopyStep DEF Prompted!Next
<1>12. ASSUME NEW t \in Terminals, NEW n \in ReadSizes, Read(t, n)
       PROVE  LineInv' /\ Prompted!Next
  BY <1>12, ReadStep DEF Prompted!Next
<1>13. CASE UNCHANGED vars
  <2>1. \A t \in Terminals : Buffer(t)' = Buffer(t)
    BY <1>13 DEF vars, Buffer, Shown
  <2>2. Typing' = Typing /\ Finished' = Finished
    BY <1>13, <2>1, SameLines DEF vars
  <2>3. Shown' = Shown /\ Caps' = Caps /\ received' = received
    BY <1>13 DEF vars, Shown, Caps
  <2>4. LineInv'
    BY <1>13, <2>1, <2>3 DEF vars, IInv, LineInv, LineOK, ReadOK, SwitchInTurn
  <2> QED BY <2>2, <2>3, <2>4
<1> QED BY <1>2, <1>3, <1>4, <1>5, <1>6, <1>7, <1>8, <1>9, <1>10, <1>11, <1>12, <1>13
        DEF Next, Keyboard

(* The inductive invariant of the lines: a switch is over before the turn  *)
(* changes, every buffer holds what its terminal's line says, and no read  *)
(* will reset the position of a line that is being typed elsewhere.        *)
THEOREM LineInvHolds == ASSUME NoRaces PROVE Spec => []IInv
<1>1. "tab" \notin Races
  BY DEF NoRaces
<1>2. TypeInv /\ TypeInv' /\ LineInv /\ [Next]_vars => LineInv'
  BY LinesStep DEF TypeInv, IInv
<1>3. Init => LineInv
  BY LinesInit
<1>4. Spec => []TypeInv
  BY <1>1, TypeInvHolds
<1>5. TypeInv /\ LineInv => IInv
  BY DEF TypeInv, IInv
<1> QED BY <1>2, <1>3, <1>4, <1>5, PTL DEF Spec

(* A line goes to the terminal it was typed at, whole and once, in the     *)
(* case its own caps lock says: the one keyboard_buf, its copies, flags    *)
(* and positions implement a line for each terminal, for any number of     *)
(* terminals, length of the buffer and sizes of reads, as long as none of  *)
(* the coincidences in RaceNames happens (keyboard.c:85, Terminal.c:24,    *)
(* system_call.c:518).                                                     *)
THEOREM LinesSpecHolds == ASSUME NoRaces PROVE Spec => LinesSpec
<1>1. IInv /\ IInv' /\ [Next]_vars => [Prompted!Next]_<<Shown, Caps, Typing, Finished, received>>
  BY LinesStep DEF IInv
<1>2. Init => Prompted!Init
  BY LinesInit
<1>3. Spec => []IInv
  BY LineInvHolds
<1>4. IInv /\ IInv' /\ [Next]_vars => [Prompted!Next]_Prompted!vars
  BY <1>1, Zenon DEF Prompted!vars, Caps, Typing, Finished, Text
<1> QED BY <1>2, <1>3, <1>4, PTL DEF Spec, LinesSpec, Prompted!Spec

=============================================================================
