# FuzzyOS in TLA+

FuzzyOS is a small x86 teaching kernel (`src/student-distrib`): three text
terminals on one CPU, each with a shell and a stack of programs, a round-robin
scheduler on the PIT interrupt, ten system calls, a read-only file system, a
keyboard, a virtualised real-time clock and one 4 MB page of memory per
process. This directory holds its TLA+ models, the TLC configurations that
check them, and TLAPS proofs.

## 1. Inventory

All paths are below `src/student-distrib`.

| Component | State | Operations | Model |
|---|---|---|---|
| Process management, `system_call.c` | `pid` (a counter, not an id), `terminal_process_num[]`, `exception_flag`, the pcb at the bottom of every kernel stack, `tss.esp0` | `execute`, `halt` | `Processes` |
| Scheduler and timer, `scheduler.c`, `pit.c` | `terminal_esp[]`/`terminal_ebp[]`, `cur_execute_terminal` | `pit_irq` -> `scheduler`: three boot branches, then round robin | `Processes` |
| Exception handlers, `create_handler.c` | `exception_flag` | `handler`, `page_fault_handler`: set the flag, `halt(0)` | `Processes` |
| Paging, `paging.c` | the page-directory entry at 128 MB (user page) and the page-table entry at 132 MB (video page) | `map_virtual_addr_to_physical`, `remove_page`, the 4 KB variants | user page in `Processes`; video pages in `Paging` |
| System call linkage, `systemcall.S` | `sysCall_eax_save`, one global | enable interrupts, dispatch 1..10, save and reload the result | `Rtc` |
| File descriptors, `system_call.c` | `fda[8]` of each pcb | `open`, `close`, `read`, `write`, the close loop of `halt`, stdin/stdout in `execute` | `Descriptors`, abstract `OpenFiles` |
| File system, `filesys.c` | the boot block, inodes, data blocks; the position in each descriptor | `read_dentry_by_name/_index`, `read_data`, `file_*`, `dir_*` | `FileSystem`, `Descriptors` |
| Terminal and keyboard, `Terminal.c`, `keyboard.c` | `keyboard_buf` and a saved copy, `_buffer_loc`, `_enter_flag` of each terminal, modifier flags | `get_keyboard_input` (IRQ 1), `terminal_read`, `terminal_write` | `Keyboard`, `Console` with the abstract `Lines`, `Screen` |
| Display, `system_call.c`, `scheduler.c` | `cur_display_terminal`, `terminal_vidmem[]`, the video page | `change_display_terminal`, `vidmap`, the remapping at each switch | `Console` (lines), `Screen`, `Paging` |
| Real-time clock, `rtc.c` | `rtc_interrupt_flag`, `rtc_counter[]`, `terminal_rtc[]`, `rtc_initialized` | `rtc_irq`, `change_rtc_freq`, `RTC_open/read/write/close` | `Rtc` |
| Screen, `lib.c` | cursor and deletion limit of each terminal, video memory | `putc`, `terminal_putc`, `deletec`, `scroll_down`, `clear` | `Screen` |
| Interrupt controller, `i8259.c` | masks, in-service bits | `enable_irq`, `disable_irq`, `send_eoi` | `I8259`, used by `Rtc` |
| Library, `lib.c`; command lines, `system_call.c` | none | memory and string functions, `printf`, parsing, `getargs` | `Library` |
| Boot, descriptor tables, tests, user programs | | | `Init` of the modules, else section 7 |

How they interact. A program enters the kernel through `systemCall`, which
enables interrupts at once, so every system call except a few `cli` sections
runs preemptible; exceptions and interrupts come through interrupt gates with
interrupts off. The components communicate through globals, and nearly every
one finds "its" process by `cur_execute_terminal` and
`terminal_process_num[cur_execute_terminal]` (`getPCB`, the frame address, the
kernel stack). The scheduler reads the same two to decide what to map. The
kernel has no lock: what keeps it together is that a context only runs while
its terminal has the turn, and that the counters agree with the contexts at
every point where the timer can fire. That agreement is what the models are
about.

What each component has to get right:

* **Processes.** Counters, contexts, mappings and kernel stacks agree whatever
  the timer interrupts; the limit of processes holds; each program ends in the
  execute call that started it, with its own exit status; no terminal is
  booted twice or left without a shell; everybody gets the CPU.
* **Descriptors.** A process's descriptors are closed when it ends and nobody
  else's are; a call returns to its caller what its handler computed.
* **File system.** A sequence of reads returns the file's bytes in order,
  whatever the chunks; a directory read lists each entry once.
* **Console.** A line goes to the terminal it was typed at, once and whole.
* **Screen.** Output goes to the screen of the terminal that wrote it, displayed
  or not, and a program reaches no other screen through its video page.
* **Rtc.** A read waits for as many interrupts as its terminal's frequency
  stands for, comes back, and no error gets lost in the shared result.
* **Controllers.** A suspended handler blocks what it has to, and not for ever.
* **Library.** Copies of overlapping areas, numbers at the end of their range,
  arguments as long as their buffer.

PROJECT.json lists the hazards behind these at their lines.

## 2. Plan

| Order | Modules | Composes | State |
|---|---|---|---|
| 1 | `ProcessStacks` (abstract), `Processes`, `ProcessesInv`, `ProcessesProofs` | `Processes` implements `ProcessStacks` | done, every safety property proved |
| 2 | `FileSystem`, `OpenFiles` (abstract), `Descriptors`, `MCDescriptors`, `FileSystemProofs`, `DescriptorsProofs` | `Descriptors` extends `FileSystem`, implements `OpenFiles` | done, every safety property proved |
| 3 | `Lines` (abstract), `Console`, `ConsoleProofs`; `Keyboard` | `Console` implements `Lines` | done, every safety property proved; the proofs about `Keyboard` are in `ScreenProofs` |
| 4 | `I8259`, `Rtc`, `MCRtc`, `RtcProofs` | `Rtc` extends `I8259`; device handlers and system calls | done, every safety property proved |
| 5 | `Paging`, `Library`, `Screen`, `MCScreen`, `LibraryProofs`, `ScreenProofs` | `Screen` extends `Paging` and `Library` | done, every safety property proved |
| for the proofs of 2, 3 and 5 | `InductionProofs` | | done |

Every invariant and every action property that a passing run checks, and each of
the three refinements, is stated by a theorem; liveness is not. What remains:
`Processes`, `Console`, `Screen` and `Rtc` each have the turn as a variable of
their own, and no module composes them with each other.

## 3. The modules and the code

### Processes

One CPU executes one *context* at a time, the others are saved. A context is
what a saved kernel stack holds, reduced to where the code is (`pc`), the
interrupt flag (`ie`) and the locals still needed (`cmd`, `idx`, `status`, the
half-done counter update in `half` and `tmp`). Its fields `t` and `k` are
history: the process that it belongs to. `cpu` is the executing context,
`terminal_esp` what the scheduler has saved for each terminal.

| Code | Model |
|---|---|
| `pid`, `terminal_process_num`, `exception_flag`, `cur_execute_terminal` | variables of the same names |
| the page-directory entry of 128 MB; what the frames contain; `tss.esp0` | `user_page`, `image`, `esp0` |
| a pcb with its `parent_esp`, `parent_ebp` | `pcb`: who called the `execute` that made the process |
| `execute` | `SysExecute`, `IncPid` .. `Enter`: one action for each access to something shared, so that the timer fits between any two |
| `halt` | `SysHalt`, `HaltShell`/`HaltProgram` .. `ResumeParent`; the restart of a shell is `RestartPid`, `RestartShrink`, then `execute` |
| `handler`, `page_fault_handler` | `Fault`: the flag, then `halt` with interrupts off |
| `pit_irq`, `scheduler` | `Tick`: `BootShell` or `Switch` |

`terminal_process_num` is what every part of the kernel takes for "the depth of
the process that executes"; `cpu.k` is what it really is. Nearly every property
relates the two. Parsing and lookup of the command are one step (`Lookup`) with
three outcomes; `pid++` is one step or, with `SplitCounters`, a load and a
store. The boot order that the code writes out for terminals 2, 1, 0 is
`NumTerminals - 2 - pid` here.

### ProcessStacks

What a user may rely on: one stack of processes for each terminal, turns, at
most `MaxPid + 1` processes, changes at the top of the executing stack only.
`StacksSpec` in `Processes` is the refinement mapping: the depth of a terminal
is that of its context, one less once `halt` has given the pid back.

### FileSystem, Descriptors, OpenFiles

`FileSystem` is the image (constants) and the functions on it. `ReadLoop` is
the loop of `read_data` with its own idea of block, offset and position; a byte
is the pair of its block and its place there, so that a byte from the wrong
place shows. `FileBytes` and `Extract` are what a file is and what reading it
should deliver.

`Descriptors` is one terminal: `depth` is its `terminal_process_num`, `fda` the
arrays of its pcbs, `result` what the last call has returned. The actions are
the system calls, each with its error returns; `Execute`, `Halt` and
`HaltShell` are what those calls do to the arrays. One terminal is enough, and
a call may be one step, because no pcb is shared between terminals and nothing
writes to the image. That halt closes the *parent's* files is in `Halt`: `close`
is called with the process number already decremented.

`OpenFiles` is the promise: a table for each process, empty at its start and
gone at its end, the lowest free number, a position that reading moves. It knows
no blocks, no inodes and no flags; `TablesSpec` is the mapping.

### Keyboard, Console, Lines

`Keyboard` is the path from scan codes to characters: the four modifier flags
and the four tables. The other modules take a key for what it makes of it.

`Console` is the input side. `keyboard_buf` is the one line buffer, with the byte
behind it because `buffer_size` is one more than its length; `terminal_data` has
of each `terminal_t` the saved buffer, `_buffer_loc`, `_enter_flag` and the caps
lock; `switching` is the keyboard handler in the middle of a switch.

| Code | Model |
|---|---|
| `get_keyboard_input`, one branch for each kind of key | `CharKey`, `TabKey`, `EnterKey`, `BackspaceKey`, `ClearKey`, `CapsLock`, one step each: interrupts are off |
| `change_display_terminal` up to its `sti`, `setDisplayTerm` after it | `FunctionKey`, `SetDisplayTerm`: ticks and programs fit between |
| `terminal_read`: the start, the end of its loop, `cli` to `sti` | `Read`, `Awake`, `Copy` |

`Lines` has no buffer, no position and no flag: a line that is typed and one that
waits, for each terminal. `LinesSpec` maps to it; its `shown` is the terminal
whose line `keyboard_buf` holds, which for the time of a switch is not
`cur_display_terminal`.

### Paging, Library, Screen

`Paging` is the directory and the one page table that both the first 4 MB and
the 4 MB above the programs refer to, with the US bit at both levels; what a
program reaches is `Reaches`.

`Screen` is the output side. `video` has the bytes of every video memory,
character and colour in turn, `terminal_data` position and deletion limit,
`cursor` what the hardware shows. Keys echo in one step, `terminal_write` is one
step for each character, a switch is two steps as in `Console`. `ScrollDown` and
the writes to memory are those of `Library`. `paper` is history: the text of
each terminal on an endless roll, with what has left the screen cut off, so that
`ShowsText` relates the bytes to what was typed and written.

`Library` has the functions as operators: `memcpy` as the sequence of moves the
assembly makes (bytes up to an aligned destination, double words, the rest),
`itoa` from the lowest digit on and reversed, `printf` as a fold over its
format. The references they are checked against are one line each.

### I8259, Rtc

`I8259` is the pair of controllers as three sets of lines and what `i8259.c` does
to them, with the priorities of the hardware in `Deliverable`. `Rtc` is the
clock, the linkage of system calls and the handlers of the three devices:

| Code | Model |
|---|---|
| `systemCall`: the number test, the handler's return, `finish`, the error exit | `BadNumber`, `Store`, `systemCall_finish`, `systemCall_error`: interrupts are on, so another terminal's result may come between |
| other calls, and `execute` or `halt` that let another program go on | `Other` |
| `RTC_open` with `change_rtc_freq` | `RTC_open`, `SetRate`, `Opened` |
| `RTC_write` | `BadArguments`, `IgnoredFrequency`, `DivideError`, `NewFrequency` |
| `RTC_read` | `RTC_read`, then `Spin` (the flag is seen) and `Take` (it is cleared and counted) |
| `rtc_irq`, `pit_irq`, `get_keyboard_input` with their EOIs | `RtcIrq`, `PitIrq`, `KeyboardIrq`; `SwitchIrq` .. `SwitchEnds` where the handler enables interrupts before its EOI |

`seen` is history: the interrupts since the read of a terminal began.

## 4. Runs

| Run | Question | Instance |
|---|---|---|
| `processes_two` | do counters, contexts, mappings and limits agree in every interleaving; do the terminals implement `ProcessStacks` | 2 terminals, `MaxPid` 3, depth 3: each terminal may hold all four processes, the limit is met from both sides |
| `processes_three` | the same for the three boot branches; the invariants of the proofs | 3 terminals, `MaxPid` 3, depth 2, no tick during a lookup |
| `processes_one` | with one terminal, do split counter updates and a faulting shell do harm | 1 terminal, `MaxPid` 3, depth 4: the check of the limit, and not the bound on the depth, refuses the fifth process |
| `processes_live` | does every call return, does every terminal get the CPU | 2 terminals, `MaxPid` 2 |
| `processes_exit` | violation of `BootOnce`: a tick in the restart of a shell | 2 terminals |
| `processes_lookup` | violation of `AddressSpace`: a switch away and back in a failing `execute` | 2 terminals |
| `descriptors` | do the tables implement `OpenFiles`; do reads deliver the file | 2 processes, 2 free descriptors, files of 2 and 3 blocks of 4 bytes that lie out of order, reads of 1, 3 and 16 bytes |
| `descriptors_parent` | violation of `OthersKeepFiles`: a child ends, its parent's file is closed | the same |
| `descriptors_crossing` | violation of `ReadReturnsFile`: a read from inside a block across its end | the same |
| `console` | do reads, keys, switches of the display and of the turn implement `Lines`; does a waiting program get its line | 2 terminals, buffer of 2 (lines of 3), reads of 2 |
| `screen` | do the screens show what was typed and written there, does a program reach its own only; and, in behaviours that start with an input, are copies, numbers, strings and the keyboard's flags right | 2 terminals, screens of 2 x 2, lines of 1; areas in 10 bytes, words of 8 bits, strings of 3 (command lines of 5), 4 key events |
| `rtc` | are interrupts counted once, do errors survive the shared result, does a read return, who is in service | 2 terminals, 1024 Hz, one switch of the display, frequencies 256, 2048, 3 and 0 |

The bounds. The code has 3 terminals, 6 processes and no limit on the depth of
one terminal but that; this instance is beyond what TLC finishes in minutes,
and the theorems cover it. What can go wrong between terminals needs two of
them, one in the middle of `execute` or `halt` and one that runs; the boot
branches need three. A depth of 2 has a process that is neither shell nor top.
`MaxPid` is small so that the limit is reached. For the files: two descriptors
are needed to see the lowest one chosen and the array run full; two processes
for parent and child; three blocks out of order for a first, a next and a last
one; the lengths are below and above the block size, 16 is past every file, and
-1 is refused.

For the console: what is shared (`keyboard_buf`, the turn, the display) is
shared by any two terminals; a line of 3 has an inner character, one in the
last byte of the buffer and one behind it, a read of 2 truncates. A screen of 2
x 2 wraps and scrolls at once, a tab scrolls it twice, a deletion goes back
over a row; a program writes a character and a newline. 10 bytes have every
alignment of source and destination with a head, a double word and a tail; the
8-bit words are all words, -128 included; 4 events press and release two keys
in every order, a caps lock or an arrow among them. For the clock, 256 and 1024
Hz need two interrupts and none, 2048 is capped, 3 ignored, 0 divides; another
terminal's result is 4 or -1 (`ExceptionStatus` is 256 in the code, here one of
the other results: only whether results are equal matters). One switch is all
that fits under one EOI.

What the passing runs assume, and the runs that show why:

* `SplitCounters = FALSE`: `pid++` is one instruction. The Makefile passes no
  `-O`, so the build at hand has the other behaviour. With `TRUE`, 2 terminals,
  `MaxPid` 2 and depth 3 TLC finds `ProcessLimit` violated by a lost update of
  `pid`; this is not kept as a run. With one terminal it does no harm:
  `processes_one`.
* `ShellEnds = {}`: shells do not end. `processes_exit` shows what happens when
  one does. With `ShellEnds = {"fault"}` and 2 terminals TLC also finds
  `TerminalKeepsShell` violated (the restart is refused at the limit, and the
  shell that ended goes on without a process number) and `ExceptionStatus` (the restart of a shell
  leaves `exception_flag` set, `system_call.c:69`, for the next `halt` of
  anybody); these two are not kept as runs.
* `TickInBoot = FALSE`: a boot branch is over within 11 ms. It enables
  interrupts (`scheduler.c:27` through `change_display_terminal`,
  `system_call.c:533`); with `TRUE` TLC finds `BootOnce` violated by a nested
  tick. This is a matter of timing on the real machine.
* `TickInLookup = FALSE` for `AddressSpace` only: `processes_lookup`.
* `KeepOpen = FALSE`: programs close their files before they start others, and
  shells before they end: `descriptors_parent`.
* `Races = {}` in `console`. Each of these makes TLC violate `LinesSpec`, `tab`
  violates `TypeOK`: `typeahead`, a key before the last line is read, overwrites
  it (there is one buffer); `elsewhere`, the end of a read resets the position
  of the terminal that was displayed when it began (`Terminal.c:31`), which loses
  an unfinished line there; `copy`, a switch between the loop and `cli`
  (`Terminal.c:37`) hands over another terminal's line; `tick`, the turn changes
  after the `sti` of a switch (`system_call.c:533`), when the buffers are
  exchanged and the display is not; `lastbyte`, a switch exchanges `BufLen` bytes
  and a line may have one more; `tab`, a tab is accepted by a full line.
* `Races = {}` in `screen`. Each of these makes TLC violate an invariant:
  `putc`, a switch inside `terminal_putc`; `tick`, as above; `limit`, a backspace
  at a deletion limit that scrolling has left behind.
* `CrossBlocks = FALSE`: a read that starts inside a block stays in it, as the
  1024-byte reads of `cat` do in blocks of 4096: `descriptors_crossing`.

Further: programs call `execute` and end only once every shell runs, and what a
program does is modelled only while its own frame is mapped (`InUserCode`);
after a switch in a failing `execute` it executes whatever is there. The image
has no block number 0 behind a first block and holds every inode its directory
names; pcbs are zeroed at boot. All entries that are not in use are one value,
because the code looks at `flags` before anything else.

What the models show beside their properties. The result that a program finds in
`eax` may be another terminal's, if that call stores its own between `Store` and
`systemCall_finish`; `ErrorsSurvive` is what remains true. A read at 1024 Hz needs
no interrupt at all (`rtc.c:156` halves the count), though `rtc.c:148` says that it
waits for one. Frequency 0 divides by zero and ends the program; even numbers
that are no powers of two set a period. `vidmap` maps the memory on the screen,
whichever terminal calls, until the next tick: `UserReach` holds from a tick on.
A scan code 0xE0 clears ctrl and alt; `Decoding` is about sequences where that
does not matter.

Deadlock is checked in every run: the timer can always fire, and a program can
always make a call.

## 5. Fairness

`processes_live`: `SF(Tick)`: the PIC latches a timer interrupt
that arrives while interrupts are disabled and delivers it when they are enabled
again, so that being enabled again and again is enough. `SF(KernelStep)` for
each terminal: a slice is 11 ms, thousands of instructions; a terminal that gets
the CPU again and again gets on in its call. Nothing is assumed of programs:
they may compute for ever. `EveryTerminalRuns` and `SyscallReturns` say that the
scheduler leaves nobody out and that no path of `execute` or `halt` gets stuck.

`console`: `WF(Tick)`, the timer runs for ever; `SF` of the steps of the kernel
(`SetDisplayTerm`, and `Awake` and `Copy` of each terminal), for the slice is long
enough for them. Nobody has to type or to leave a terminal displayed:
`LineDelivered` promises a finished line unless the user switches away.

`rtc`: `WF` of the timer and of the keyboard's handler; for each terminal `SF` of
its steps in the kernel and of a clock interrupt in its turn: the clock interrupts
eleven times in a slice. The user stops pressing keys (`MaxKeys`), because every
suspended handler blocks the clock until its terminal has the turn again; whoever
switches displays without end can keep the clock from interrupting. `ReadReturns`
needs it: readers clear each other's flag, but one that is executed sees the flag
of an interrupt in its own slice.

## 6. Proofs

The constants are assumed to be what the `ASSUME`s of the modules say, and TLC
evaluates these in the runs. What a theorem assumes beyond them, it states: most
often the constants that leave out a race of section 4, where another run or a
note shows what the race does.

### Processes

`ProcessesProofs`, for every number of terminals, every `MaxPid >=
NumTerminals - 1` and every depth:

* `FrameInjective`: no two processes share a frame. Used with `Frame` wherever
  the code computes an address; from the fact that one step of depth is a
  stride of `NumTerminals`.
* `InvariantHolds`: `IInv` under `NoRaces` (`SplitCounters`, `TickInBoot` false,
  no shell ends). `IInv` is needed because none of the properties is inductive:
  `PidAccounting` needs to know how far each saved context is in its call
  (`ContextsOK`), and that nobody is booted twice needs the order of the start-up
  (`Phases`), which in turn rests on `PidAccounting`: once all terminals have a
  shell `pid` cannot fall below `NumTerminals - 1`, so the boot branches are
  never entered again (`BootedPid`). The proof has one case for each step of
  `execute` and `halt`; `SlotsKept`, `SlotAdded` and `SlotRemoved` carry the
  cardinalities.
* From it: `TypeCorrect`, `PidAccountingHolds`, `ContextOwnershipHolds`,
  `BootOnceHolds`, `TerminalKeepsShellHolds`.
* `AddressSpaceHolds` and `AddressInvHolds`, with `~TickInLookup` besides:
  `AddressInv` says what is mapped at each program counter.
* `ProcessLimitHolds`: inductive relative to `IInv`; a process passes the check
  while `pid` already counts it, so the admitted ones are a subset of the slots.
* `ProgramImageHolds`: no program is overwritten by another. `ImageInv` adds the
  program that `execute` is about to enter, whose context is not its own yet.
  `LoadProgram` writes to the frame of the one process that nobody else can be,
  by `FrameInjective`.
* `ParentResumableHolds`: every process above a shell was made by a call of the
  process below it, so that `halt` finds an `execute` that still waits. Inductive
  relative to `IInv`, which tells who may write which pcb.
* `ExceptionStatusHolds`: `StatusInv` says that `exception_flag` is set just while
  the executing context is in the `halt` that its own exception has called. That
  is true only because that `halt` runs with interrupts off.
* `StacksSpecHolds`: every step is a step of `ProcessStacks` or a stutter. The
  steps that change the depth of a stack do so at the executing terminal, by
  `ContextsOK`, and within the limit, by `ProcessLimit`; the scheduler changes the
  turn; the rest stutters.

### Files

`FileSystemProofs`, for every image. `read_data`'s loop is the recursive function
`ReadLoop`; what holds after every number of iterations is proved from the
first one that would break it (`LeastNatural` of `InductionProofs`), because the
induction theorems of the library take an operator, which the provers cannot
instantiate.

* `DentryFound`: a lookup finds an entry of that name, or there is none.
* `ReadInBlock`, `ReadCorrect`: a read that starts at the start of a file, of any
  length, or that stays in the block it starts in, returns the bytes that follow
  the offset, no more than the file has. The offsets, lengths and positions of
  the loop agree with those of the file as long as the only block that is not
  read from its start is the first.

`DescriptorsProofs`, for every image, number of descriptors and depth. Except for
the first two theorems the invariant has one form, `Hold(E)`: every descriptor of
every process has an entry of the set `E`. It is preserved if `E` is closed under
what the calls do to an entry (`Closed`), whatever `E` is; the theorems choose it.

* `EndedProcessClosedHolds`: a new process starts with nothing open. The
  invariant is the property and the shape of the arrays.
* `OthersKeepFilesHolds`, under `~KeepOpen`: `halt` changes nothing of anybody
  else. The invariant says that processes that wait hold no file
  (`WaitingHoldNone`) and that an entry with `flags = 0` is the cleared one
  (`Arrays`), so that clearing the parent's array is the identity.
* `TypeOKHolds` (`TypedEntries`), and under `~CrossBlocks` `PositionWithinFileHolds`
  (`BoundedEntries`) by `ReadCorrect`.
* `ReadReturnsFileHolds`, under `~CrossBlocks` and `ReadableImage`: reads deliver
  the file from where the last one ended.
* `TablesSpecHolds`, under `~KeepOpen` and `DistinctNames` besides: the
  refinement. `NamedEntries` are those that `open` makes for some name, so that
  the abstract table can name the file. `ReadableImage` (block numbers that
  `read_data` accepts) and `DistinctNames` (no two names for one thing) are facts
  about the image that comes with the code, and `MCDescriptors` has TLC evaluate
  them for the image of the runs.

### Console

`ConsoleProofs`, for every number of terminals, length of the buffer and sizes of
reads:

* `TypeOKHolds`, unless a tab is typed at a full line: no position passes
  `buffer_size`.
* `LineInvHolds`, under `NoRaces`: `LineOK` says what the buffer of a terminal,
  `keyboard_buf` or its copy, holds: characters up to its position, a newline if
  its line is finished, nothing typed behind it, and nothing in the byte behind
  the copies. `ReadOK` says of a read that the position it is going to reset is 0
  or belongs to its own line or to the terminal on the screen; that is what makes
  `terminal_read`'s use of `cur_display_terminal` harmless.
* `LinesSpecHolds`, under `NoRaces`: every step of the handler and of the reads is
  a step of `Lines` or a stutter. `Line(buf, n)` is the text in a buffer up to its
  newline; `Part 2` of the module has how a key, an enter and a cut change it.

### Screen and library

`LibraryProofs`, for memories, sizes and strings of every length:

* `MemcpyIsCopy`, `MemmoveIsCopy`, `MemsetIsFill`: the sequences of byte and double
  word moves copy and fill, for every alignment, where the code promises it. The
  loops are folds; `FoldRun` makes of a fold on the sets of positions the sequence
  of its intermediate memories, about which one can use induction. What is shown
  of each: it is the old memory with the copy made up to there.
* `CommandsParsed`, `PrefixesCompared`, `ArgumentsFit`: a command line comes apart
  into command and arguments; `strncmp` is the order of the prefixes; `getargs`
  delivers the arguments or refuses them and writes nothing behind the buffer.
* `ItoaWritesNumber`, for every number and every radix from 2 on: `itoa` writes
  digits below the radix that together stand for the number, and no 0 in front. By
  strong induction (`DigitsReversed`): a number is its last digit and the number in
  front of it (`Division`), and what `itoa` has written for these, lowest digit
  first, `strrev` turns around. That the swaps of `strrev` up to the middle reverse
  a string is `StrrevReverses`: after k of them the k characters at each end are
  in place and the others untouched.
* `HexIsNumber`, `DecimalIsNumber`, for words of every width that is a multiple of 4:
  what `printf` prints is the number, 0 and the most negative one included; `%#x`
  in the full width, because a word has at most a digit for every 4 bits
  (`HexLength`) and zeros in front do not change a number (`ZerosInFront`).
  `PrintfRun` makes of `printf` the sequence of its states, `PrintfSteps` has one
  case for each place a character of a format can stand. Powers of two are the
  function `TwoTo` of the model, and not `2 ^ n`, about which the provers know
  nothing when n is no literal.

`ScreenProofs`, for every number of terminals and every size of the screen:

* `UserReachHolds`, unless the turn changes within a switch: `ReachInv` says what
  the directory and the table hold whatever has been mapped before (`TableOK`),
  and that a page that is not stale is that of the terminal that has the turn.
* `TypeOKHolds`, without a switch inside `terminal_putc`: no position leaves its
  screen, so that no echo, output, scroll or deletion writes outside its memory.
  A deletion stops at the limit because `deletec` is called at most as often as the
  line has characters, and each goes back by one place (`Room`).
* `CursorShownHolds`, with the same assumption: the hardware cursor is the position
  of the terminal on the screen.
* `ShowsTextHolds`, under `Races = {}`. `ShowsAt` relates a memory and a position to
  a text: the cells before the position are the text, as far as it has not left the
  screen, those behind it are blank. Printing a character, a wrap, a scroll and a deletion preserve it with
  the text on the paper (`Parts` 2 to 4). `TextInv` adds that a switch that is
  interrupted keeps the turn, so that nothing is written to a memory that is
  being exchanged.
* `CopyCorrectHolds`, `StringsCorrectHolds`, `NumbersPrintedHolds`: the checks of
  `MCScreen` hold whatever its bounds are, by the theorems of `LibraryProofs`.
* `KeyboardDecodes`, and by it `DecodingHolds`: after every usual sequence of events,
  of any length, the flags are those of the keys that are held, and caps is on after an
  odd number of presses of caps lock. The held keys and the flags are folds over the
  events (`HeldRun`, `FlagsRun`). The invariant over the prefixes of a sequence is
  `FlagsSay`: besides the agreement itself it says that no two keys of a kind are
  held, without which a release of one would clear the flag that the other still
  stands for. `FlagsStay` has one case for each key; `Effect` is what all scan codes
  of one event do together, the 0xE0 of the right keys and the arrows included. What `Usual` excludes is used in
  `UsualFollows`, once for each of its three clauses.

`Screen` assumes of the prompt and the outputs that they are sequences of
characters (`TextsAssumption`).

### Rtc

`RtcProofs`, for every number of terminals, every set of frequencies, every
`MaxFreq` and any number of keys:

* `InvariantHolds`: `RtcInv` has four parts that need nothing of each other but
  types, each of them because its property is not inductive. `CountInv`: a reader
  has counted no more than it has seen, and strictly less while the flag is set or
  was set when it looked, so that an interrupt between `Spin` and `Take`, or a
  clear by another reader, never counts twice. `RateInv`: who is about to
  have the clock open finds its rate set. `ResultInv`: the global is never -1.
  `ServiceOwned` with the shape of the controllers' state (`Controllers`).
* From it: `NeverEarlyHolds`, `ErrorsSurviveHolds` (`ReadStep` and `ErrorStep` are
  the steps), `RateSharedHolds`, `ServiceOwnedHolds`, and `TypeCorrect`, which
  needs `RateInv` for `hz` and `CountInv` for the counters.

`PlainMoves` and `ClockMoves` are the frame: what a call does, it does to the
program of its own terminal.

## 7. Model-checked only, and not modelled

Only model-checked:

* Liveness (`SyscallReturns`, `EveryTerminalRuns`, `LineDelivered`, `ReadReturns`):
  fairness and ENABLED are outside the prover's reach.
* The four properties of the `violation` runs, which do not hold; the theorems that
  have them as their statement assume what those runs leave out.

Not modelled:

* Boot (`boot.S`, `entry`): the prints of the multiboot data and the filling of the
  descriptor tables happen once, in order, with interrupts off; what they leave is
  `Init`. `x86_desc.S` and `x86_desc.h` are constants.
* What exception handlers print (`create_handler.c`, with `putc`, on whatever is
  displayed); that they end the program is `Fault` and `DivideError`.
* Saved registers in `handler.S` and `systemCall`, the flush of the TLB, page flags
  other than US, the initialisation words of the controllers, registers B and C
  of the clock.
* `remove_4kb_page`, which nobody calls; `terminal_open` and `terminal_close`, which
  no descriptor leads to.
* `filesys.c:153`, where a block number 0 is taken for a bad block when a read
  crosses into it: no file of the image at hand has one behind its first block.
* The test suite (`tests.c`), and the user programs and their libraries
  (`src/fish`, `src/syscalls`), whose calls the models make in any order.

What system calls other than `execute` and `halt` do is part of "user" in
`Processes`: they change none of its variables.
