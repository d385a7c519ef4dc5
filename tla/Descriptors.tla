---------------------------- MODULE Descriptors ----------------------------
(***************************************************************************)
(* The descriptor arrays (fda) of the processes of one terminal: open,     *)
(* close, read and write (system_call.c) with the file and directory       *)
(* functions behind them (filesys.c), and what execute and halt do to the  *)
(* arrays.  The terminals share no pcb and the image is never written, so  *)
(* that a call of one terminal is a single step here, whatever interrupts  *)
(* it.                                                                     *)
(*                                                                         *)
(* An entry that is not in use is Unused, whatever its other fields hold:  *)
(* the code looks at flags first.  The pcbs start out as zeroed memory.    *)
(***************************************************************************)
EXTENDS FileSystem

CONSTANTS
  MaxDepth,    \* bound of the model: deepest process of the terminal
  FdaMaxOf,    \* FDA_MAX_OF
  Names,       \* the file names programs use
  Programs,    \* those of executable files; the shell is one
  Chunks,      \* the lengths programs pass to read
  KeepOpen,    \* programs start others, and shells end, with files open
  CrossBlocks  \* programs read from inside a block across its end

ASSUME BoundsAssumption == MaxDepth \in Nat /\ FdaMaxOf \in Nat /\ FdaMaxOf > 2
ASSUME ProgramsAssumption ==
  \A name \in Programs : /\ name \in Names
                         /\ DentryByName(name).type = File
ASSUME FilesAssumption ==
  \A name \in Names : DentryByName(name).type = File =>
                        DentryByName(name).inode \in DOMAIN Inodes
ASSUME ChunksAssumption == Chunks \subseteq Int
ASSUME HabitsAssumption == {KeepOpen, CrossBlocks} \subseteq BOOLEAN

FdaMinIndex == 2
Processes   == 0 .. MaxDepth
AllFds      == 0 .. FdaMaxOf - 1
FileFds     == FdaMinIndex .. FdaMaxOf - 1

VARIABLES
  depth,    \* terminal_process_num of the terminal
  fda,      \* process -> descriptor -> entry
  result    \* what the last call returned, and the data it delivered

vars == <<depth, fda, result>>

Entry(fops, inode, position) ==
  [fops |-> fops, inode |-> inode, file_position |-> position, flags |-> 1]

Unused == [fops |-> "none", inode |-> -1, file_position |-> -1, flags |-> 0]

(* Standard input and output, as execute sets them.                        *)
Terminal == Entry("terminal", 0, 0)

ExecutesWith(array) ==
  [fd \in AllFds |-> IF fd < FdaMinIndex THEN Terminal ELSE array[fd]]

Init ==
  /\ depth = 0
  /\ fda = [p \in Processes |->
              IF p = 0 THEN ExecutesWith([fd \in AllFds |-> Unused])
                       ELSE [fd \in AllFds |-> Unused]]
  /\ result = [ret |-> 0, data |-> <<>>]

Returns(value, data) == result' = [ret |-> value, data |-> data]

Fails == Returns(-1, <<>>) /\ UNCHANGED <<depth, fda>>

(* What the terminal and the RTC return is not modelled here.              *)
DeviceReturns == Returns(0, <<>>) /\ UNCHANGED <<depth, fda>>

InUse(fd) == fda[depth][fd].flags # 0

NoFileOpen == \A fd \in FileFds : ~InUse(fd)

-----------------------------------------------------------------------------
(* The system calls.                                                       *)

(* RTC_open, dir_open and file_open.                                       *)
OpenedEntry(dentry) ==
  CASE dentry.type = Device    -> Entry("rtc", -1, -1)
    [] dentry.type = Directory -> Entry("dir", -1, 0)
    [] dentry.type = File      -> Entry("file", dentry.inode, 0)

Open(name) ==
  LET dentry == DentryByName(name)
      free == {fd \in FileFds : ~InUse(fd)} IN
  \/ /\ dentry = Missing \/ free = {}
     /\ Fails
  \/ /\ dentry # Missing
     /\ \E fd \in free :
          /\ \A other \in free : fd <= other
          /\ fda' = [fda EXCEPT ![depth][fd] = OpenedEntry(dentry)]
          /\ Returns(fd, <<>>)
     /\ UNCHANGED depth

Close(fd) ==
  \/ /\ fd < FdaMinIndex \/ ~InUse(fd)
     /\ Fails
  \/ /\ fd >= FdaMinIndex /\ InUse(fd)
     /\ fda' = [fda EXCEPT ![depth][fd] = Unused]
     /\ Returns(0, <<>>)
     /\ UNCHANGED depth

(* The lengths a program asks for; cat asks for 1024 each time.            *)
MayAsk(fd, nbytes) ==
  LET position == fda[depth][fd].file_position IN
  CrossBlocks \/ position = 0 \/ (position % BlockSize) + nbytes <= BlockSize

(* file_read never asks read_data for more than the length of the file.    *)
FileRead(fd, nbytes) ==
  LET open == fda[depth][fd]
      length == FileLength(open.inode)
      read == ReadData(open.inode, open.file_position,
                       IF length < nbytes THEN length ELSE nbytes) IN
  \/ nbytes < 0 /\ Fails
  \/ /\ nbytes >= 0
     /\ fda' = [fda EXCEPT ![depth][fd].file_position =
                             IF read.ret = -1 THEN @ ELSE @ + read.ret]
     /\ Returns(read.ret, read.data)
     /\ UNCHANGED depth

(* One name for each call; what dir_read returns, the length of the name,  *)
(* is 1 here.                                                              *)
DirRead(fd) ==
  LET position == fda[depth][fd].file_position IN
  \/ /\ position >= Len(Dentries)
     /\ Returns(0, <<>>)
     /\ UNCHANGED <<depth, fda>>
  \/ /\ position < Len(Dentries)
     /\ Returns(1, <<Dentries[position + 1].name>>)
     /\ fda' = [fda EXCEPT ![depth][fd].file_position = @ + 1]
     /\ UNCHANGED depth

Read(fd, nbytes) ==
  LET fops == fda[depth][fd].fops IN
  \/ (fd = 1 \/ ~InUse(fd)) /\ Fails
  \/ /\ fd # 1 /\ InUse(fd)
     /\ \/ fops = "file" /\ MayAsk(fd, nbytes) /\ FileRead(fd, nbytes)
        \/ fops = "dir" /\ DirRead(fd)
        \/ fops \in {"terminal", "rtc"} /\ DeviceReturns

Write(fd) ==
  \/ (fd < 1 \/ ~InUse(fd)) /\ Fails
  \/ /\ fd >= 1 /\ InUse(fd)
     /\ \/ fda[depth][fd].fops \in {"file", "dir"} /\ Fails
        \/ fda[depth][fd].fops \in {"terminal", "rtc"} /\ DeviceReturns

-----------------------------------------------------------------------------
(* Processes start and end.                                                *)

(* The new process gets standard input and output; the rest of its array   *)
(* is what the last process of that depth has left.  Delivered is the      *)
(* program in its memory.                                                  *)
LoadsProgram(name) ==
  LET inode == DentryByName(name).inode IN
  Returns(0, ReadData(inode, 0, FileLength(inode)).data)

Execute(name) ==
  /\ depth < MaxDepth
  /\ KeepOpen \/ NoFileOpen
  /\ depth' = depth + 1
  /\ fda' = [fda EXCEPT ![depth + 1] = ExecutesWith(@)]
  /\ LoadsProgram(name)

(* Wrong on purpose: the loop starts at 0 and takes the terminal with it.  *)
CloseAllFromZero(array) == [fd \in AllFds |-> Unused]

(* The process number is decremented before the loop that calls close, so  *)
(* that close works on the array of the parent; the entries of the program *)
(* that ends are cleared by the loop itself.                               *)
CloseAll(array) ==
  [fd \in AllFds |-> IF fd \in FileFds THEN Unused ELSE array[fd]]

(* Wrong on purpose: the loop leaves the closing to close.                 *)
HaltTrustsClose ==
  /\ depth > 0
  /\ depth' = depth - 1
  /\ fda' = [fda EXCEPT ![depth - 1] = CloseAll(@)]
  /\ Returns(0, <<>>)

(* Wrong on purpose: a shell at depth 0 is not told apart.                 *)
HaltForShellToo ==
  /\ depth' = depth - 1
  /\ fda' = [fda EXCEPT ![depth] = CloseAll(@)]
  /\ Returns(0, <<>>)

Halt ==
  /\ depth > 0
  /\ depth' = depth - 1
  /\ fda' = [fda EXCEPT ![depth - 1] = CloseAll(@), ![depth] = CloseAll(@)]
  /\ Returns(0, <<>>)

(* A shell at depth 0 is started again in its old array.                   *)
HaltShell(name) ==
  /\ depth = 0
  /\ KeepOpen \/ NoFileOpen
  /\ fda' = [fda EXCEPT ![0] = ExecutesWith(@)]
  /\ LoadsProgram(name)
  /\ UNCHANGED depth

(* Everything a program of the terminal may do.                            *)
Next ==
  \/ \E name \in Names : Open(name)
  \/ \E fd \in AllFds :
       \/ Close(fd)
       \/ Write(fd)
       \/ \E nbytes \in Chunks : Read(fd, nbytes)
  \/ \E name \in Programs : Execute(name) \/ HaltShell(name)
  \/ Halt

Spec == Init /\ [][Next]_vars

-----------------------------------------------------------------------------
(* Properties.                                                             *)

EntryType == [fops : {"none", "terminal", "file", "dir", "rtc"},
              inode : Int, file_position : Int, flags : {0, 1}]

TypeOK ==
  /\ depth \in Processes
  /\ fda \in [Processes -> [AllFds -> EntryType]]
  /\ result.ret \in Int

(* A descriptor array is clean when its process has ended, so that the     *)
(* next process of that depth starts without files: execute relies on it,  *)
(* and halt's close calls, which miss the array, do not provide it.        *)
EndedProcessClosed ==
  \A p \in Processes, fd \in FileFds : p > depth => fda[p][fd].flags = 0

(* Whatever calls come before, the position of an open file is one that    *)
(* reads from its start lead to: it never passes the end.                  *)
PositionWithinFile ==
  \A p \in Processes, fd \in FileFds :
    LET e == fda[p][fd] IN
    /\ e.fops = "file" => e.file_position \in 0 .. FileLength(e.inode)
    /\ e.fops = "dir"  => e.file_position \in 0 .. Len(Dentries)

(* read_data "fills the given buffer with length bytes from file pointed   *)
(* to from inode starting at offset bytes": a read delivers the bytes of   *)
(* the file that follow the position, wherever its blocks lie and however  *)
(* the reads before it were cut.                                           *)
ReadReturnsFile ==
  [][\A fd \in FileFds, n \in Chunks :
       n >= 0 /\ InUse(fd) /\ fda[depth][fd].fops = "file" /\ FileRead(fd, n) =>
         result'.data = Extract(FileBytes(fda[depth][fd].inode),
                                fda[depth][fd].file_position, n)]_vars

(* halt tears "down current pcb": a program that ends changes the          *)
(* descriptors of no other process.                                        *)
OthersKeepFiles ==
  [][\A p \in Processes :
       depth' < depth /\ p < depth => fda'[p] = fda[p]]_vars

(* What is asked of the image: read_data can read every file of it.        *)
ReadableImage == \A inode \in DOMAIN Inodes : Readable(inode)

(* The names say which file is meant: no name is empty, and no two of them *)
(* are entries for the same thing.                                         *)
DistinctNames ==
  /\ "" \notin Names
  /\ \A a, b \in Names :
       /\ DentryByName(a) # Missing
       /\ DentryByName(a).type = DentryByName(b).type
       /\ DentryByName(a).type = File => DentryByName(a).inode = DentryByName(b).inode
       => a = b

(* The terminal's descriptor tables implement OpenFiles.                   *)
NameOf(e) ==
  LET type == CASE e.fops = "file" -> File
                [] e.fops = "dir"  -> Directory
                [] e.fops = "rtc"  -> Device IN
  CHOOSE name \in Names :
    /\ DentryByName(name).type = type
    /\ type = File => DentryByName(name).inode = e.inode

TypeName(name) ==
  LET type == DentryByName(name).type IN
  CASE type = File -> "file" [] type = Directory -> "dir"
    [] type = Device -> "rtc" [] OTHER -> "none"

Bytes(name) ==
  CASE TypeName(name) = "file" -> FileBytes(DentryByName(name).inode)
    [] TypeName(name) = "dir"  -> [i \in DOMAIN Dentries |-> Dentries[i].name]
    [] OTHER -> <<>>

Open_(e) ==
  IF e.flags = 0 THEN [name |-> "", at |-> 0]
  ELSE [name |-> NameOf(e),
        at   |-> IF e.fops = "rtc" THEN 0 ELSE e.file_position]

Tables == INSTANCE OpenFiles WITH
            Fds     <- FileFds,
            TypeOf  <- [name \in Names |-> TypeName(name)],
            Content <- [name \in Names |-> Bytes(name)],
            table   <- [p \in Processes |->
                          [fd \in FileFds |-> Open_(fda[p][fd])]]

TablesSpec == Tables!Spec
=============================================================================
