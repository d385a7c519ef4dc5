------------------------- MODULE DescriptorsProofs -------------------------
(***************************************************************************)
(* The proofs about Descriptors, for every image, every number of          *)
(* descriptors and every depth.  What read_data delivers is taken from     *)
(* FileSystemProofs.                                                       *)
(***************************************************************************)
EXTENDS Descriptors, FileSystemProofs

(* The entry of a descriptor that programs may open is unused, or one that *)
(* open has made and reads have moved on; the others are the terminal's.   *)
EntryOK(e) ==
  \/ e = Unused
  \/ \E f \in {"file", "dir", "rtc"} : \E i, q : e = Entry(f, i, q)

(* The processes below the executing one hold no file: only with           *)
(* KeepOpen = FALSE.                                                       *)
WaitingHoldNone ==
  \A p \in Processes, fd \in FileFds : p < depth => fda[p][fd] = Unused

Shape ==
  /\ depth \in Processes
  /\ DOMAIN fda = Processes

ArrayOK(a) ==
  /\ a = [fd \in AllFds |-> a[fd]]
  /\ \A fd \in FileFds : EntryOK(a[fd])
  /\ \A fd \in AllFds \ FileFds : a[fd] \in {Unused, Terminal}

Arrays == \A p \in Processes : ArrayOK(fda[p])

(* The bounds are numbers, and the file descriptors are descriptors.       *)
LEMMA Bounds ==
  /\ MaxDepth \in Nat /\ FdaMaxOf \in Nat
  /\ 0 \in Processes
  /\ FileFds \subseteq AllFds
  /\ \A fd \in FileFds : fd >= FdaMinIndex
BY BoundsAssumption DEF Processes, FileFds, AllFds, FdaMinIndex

(* Everything but execute, halt and the restart of a shell.                *)
OwnCall ==
  \/ \E name \in Names : Open(name)
  \/ \E fd \in AllFds :
       \/ Close(fd)
       \/ Write(fd)
       \/ \E nbytes \in Chunks : Read(fd, nbytes)

(* These calls touch the array of the calling process only.                *)
LEMMA OwnCallTouchesOwn ==
  ASSUME Shape, OwnCall
  PROVE  /\ depth' = depth
         /\ Shape'
         /\ \A p \in Processes : p # depth => fda'[p] = fda[p]
<1>1. CASE \E name \in Names : Open(name)
  BY <1>1 DEF Open, Fails, Shape
<1>2. CASE \E fd \in AllFds : Close(fd)
  BY <1>2 DEF Close, Fails, Shape
<1>3. CASE \E fd \in AllFds : Write(fd)
  BY <1>3 DEF Write, Fails, DeviceReturns, Shape
<1>4. CASE \E fd \in AllFds, nbytes \in Chunks : Read(fd, nbytes)
  <2>1. PICK fd \in AllFds, nbytes \in Chunks : Read(fd, nbytes)
    BY <1>4
  <2>2. CASE Fails \/ DeviceReturns
    BY <2>2 DEF Fails, DeviceReturns, Shape
  <2>3. CASE DirRead(fd)
    BY <2>3 DEF DirRead, Shape
  <2>4. CASE FileRead(fd, nbytes)
    BY <2>4 DEF FileRead, Fails, Shape
  <2> QED BY <2>1, <2>2, <2>3, <2>4 DEF Read
<1> QED BY <1>1, <1>2, <1>3, <1>4 DEF OwnCall

-----------------------------------------------------------------------------
(* An ended process has no open file.                                      *)

EndedInv == Shape /\ EndedProcessClosed

(* Every step keeps the arrays of ended processes closed.                  *)
LEMMA EndedStep == ASSUME EndedInv, [Next]_vars PROVE EndedInv'
<1>1. CASE OwnCall
  <2>1. /\ depth' = depth
        /\ Shape'
        /\ \A p \in Processes : p # depth => fda'[p] = fda[p]
    BY <1>1, OwnCallTouchesOwn DEF EndedInv
  <2> QED BY <2>1, Bounds DEF EndedInv, EndedProcessClosed, Shape, Processes
<1>2. ASSUME NEW name \in Programs, Execute(name)
      PROVE  EndedInv'
  <2>1. /\ depth' = depth + 1 /\ depth' \in Processes
        /\ DOMAIN fda' = Processes
        /\ \A p \in Processes : p # depth + 1 => fda'[p] = fda[p]
    BY <1>2, Bounds DEF Execute, EndedInv, Shape, Processes
  <2> QED BY <2>1, Bounds DEF EndedInv, EndedProcessClosed, Shape, Processes
<1>3. CASE Halt
  <2>1. /\ depth' = depth - 1 /\ depth' \in Processes
        /\ DOMAIN fda' = Processes
        /\ \A p \in Processes : p \notin {depth, depth - 1} => fda'[p] = fda[p]
        /\ fda'[depth] = CloseAll(fda[depth])
    BY <1>3, Bounds DEF Halt, EndedInv, Shape, Processes
  <2>2. \A fd \in FileFds : fda'[depth][fd].flags = 0
    BY <2>1, Bounds DEF CloseAll, Unused
  <2> QED BY <2>1, <2>2, Bounds DEF EndedInv, EndedProcessClosed, Shape, Processes
<1>4. ASSUME NEW name \in Programs, HaltShell(name)
      PROVE  EndedInv'
  <2>1. /\ depth' = depth /\ depth = 0
        /\ DOMAIN fda' = Processes
        /\ \A p \in Processes : p # 0 => fda'[p] = fda[p]
    BY <1>4 DEF HaltShell, EndedInv, Shape
  <2> QED BY <2>1, Bounds DEF EndedInv, EndedProcessClosed, Shape, Processes
<1>5. CASE UNCHANGED vars
  BY <1>5 DEF vars, EndedInv, Shape, EndedProcessClosed
<1> QED BY <1>1, <1>2, <1>3, <1>4, <1>5 DEF Next, OwnCall

(* At first no process has a file open.                                    *)
LEMMA EndedInit == Init => EndedInv
BY Bounds DEF Init, EndedInv, Shape, EndedProcessClosed, ExecutesWith, Unused,
   Processes, AllFds, FileFds

(* The next process of every depth starts without files, whatever the      *)
(* programs before it have left open and however they have ended.          *)
THEOREM EndedProcessClosedHolds == Spec => []EndedProcessClosed
<1>1. EndedInv /\ [Next]_vars => EndedInv'
  BY EndedStep
<1> QED BY <1>1, EndedInit, PTL DEF Spec, EndedInv

-----------------------------------------------------------------------------
(* Who waits keeps its descriptors.                                        *)

(* Reading moves the position of an entry and keeps it one.                *)
LEMMA EntryMoves ==
  ASSUME NEW e, EntryOK(e), e.flags # 0, NEW q
  PROVE  EntryOK([e EXCEPT !.file_position = q])
<1>1. e # Unused
  BY DEF Unused
<1>2. PICK f \in {"file", "dir", "rtc"} : \E i, p : e = Entry(f, i, p)
  BY <1>1 DEF EntryOK
<1>3. PICK i, p : e = Entry(f, i, p)
  BY <1>2
<1>4. [e EXCEPT !.file_position = q] = Entry(f, i, q)
  BY <1>3 DEF Entry
<1> QED BY <1>4 DEF EntryOK

(* A change of one descriptor to an entry keeps the arrays.                *)
LEMMA OneEntry ==
  ASSUME Shape, Arrays, NEW fd \in FileFds, NEW e, EntryOK(e),
         fda' = [fda EXCEPT ![depth][fd] = e]
  PROVE  Arrays'
<1>1. ASSUME NEW p \in Processes
      PROVE  /\ fda'[p] = [f \in AllFds |-> fda'[p][f]]
             /\ \A f \in FileFds : EntryOK(fda'[p][f])
             /\ \A f \in AllFds \ FileFds : fda'[p][f] \in {Unused, Terminal}
  <2>1. CASE p # depth
    BY <2>1 DEF Shape, Arrays, ArrayOK
  <2>2. CASE p = depth
    <3>1. fda'[p] = [fda[p] EXCEPT ![fd] = e]
      BY <2>2 DEF Shape
    <3>2. fda[p] = [f \in AllFds |-> fda[p][f]]
      BY DEF Arrays, ArrayOK
    <3>3. fda'[p] = [f \in AllFds |-> IF f = fd THEN e ELSE fda[p][f]]
      BY <3>1, <3>2
    <3>4. fda'[p] = [f \in AllFds |-> fda'[p][f]]
      BY <3>3
    <3>5. ASSUME NEW f \in FileFds
          PROVE  EntryOK(fda'[p][f])
      <4>1. f \in AllFds
        BY <3>5, Bounds
      <4>2. CASE f = fd
        BY <3>3, <4>1, <4>2
      <4>3. CASE f # fd
        <5>1. fda'[p][f] = fda[p][f]
          BY <3>3, <4>1, <4>3
        <5> QED BY <5>1 DEF Arrays, ArrayOK
      <4> QED BY <4>2, <4>3
    <3>6. ASSUME NEW f \in AllFds \ FileFds
          PROVE  fda'[p][f] \in {Unused, Terminal}
      <4>1. fda'[p][f] = fda[p][f]
        BY <3>3
      <4> QED BY <4>1 DEF Arrays, ArrayOK
    <3> QED BY <3>4, <3>5, <3>6
  <2> QED BY <2>1, <2>2
<1> QED BY <1>1 DEF Arrays, ArrayOK

(* An entry that open makes is one.                                        *)
LEMMA OpenedOK ==
  ASSUME NEW d, d.type \in {Device, Directory, File}
  PROVE  EntryOK(OpenedEntry(d))
BY DEF OpenedEntry, EntryOK, Device, Directory, File

(* The calls of the executing process keep its array one.                  *)
LEMMA OwnCallKeepsArrays ==
  ASSUME Shape, Arrays, OwnCall
  PROVE  Arrays'
<1> USE Bounds
<1>1. CASE UNCHANGED fda
  BY <1>1 DEF Arrays, ArrayOK
<1>2. ASSUME NEW name \in Names, Open(name), ~UNCHANGED fda
      PROVE  Arrays'
  <2>1. /\ DentryByName(name) # Missing
        /\ \E fd \in FileFds :
             fda' = [fda EXCEPT ![depth][fd] = OpenedEntry(DentryByName(name))]
    BY <1>2 DEF Open, Fails
  <2>2. EntryOK(OpenedEntry(DentryByName(name)))
    <3>1. DentryByName(name) \in DentryType
      BY <2>1, DentryFound
    <3>2. DentryByName(name).type \in {Device, Directory, File}
      BY <3>1 DEF DentryType
    <3> QED BY <3>2, OpenedOK
  <2> QED BY <2>1, <2>2, OneEntry
<1>3. ASSUME NEW fd \in AllFds, Close(fd), ~UNCHANGED fda
      PROVE  Arrays'
  <2>1. fda' = [fda EXCEPT ![depth][fd] = Unused] /\ fd \in FileFds
    BY <1>3 DEF Close, Fails, AllFds, FileFds
  <2>2. EntryOK(Unused)
    BY DEF EntryOK
  <2> QED BY <2>1, <2>2, OneEntry
<1>4. ASSUME NEW fd \in AllFds, NEW nbytes \in Chunks, Read(fd, nbytes), ~UNCHANGED fda
      PROVE  Arrays'
  <2>1. /\ fda[depth][fd].flags # 0 /\ fda[depth][fd].fops \in {"file", "dir"}
        /\ \E q : fda' = [fda EXCEPT ![depth][fd].file_position = q]
    BY <1>4 DEF Read, Fails, DeviceReturns, DirRead, FileRead, InUse
  <2>6. fd \in FileFds
    BY <2>1 DEF Arrays, ArrayOK, Shape, Unused, Terminal, Entry
  <2>2. PICK q : fda' = [fda EXCEPT ![depth][fd].file_position = q]
    BY <2>1
  <2>3. fda' = [fda EXCEPT ![depth][fd] = [@ EXCEPT !.file_position = q]]
    BY <2>2
  <2>4. EntryOK([fda[depth][fd] EXCEPT !.file_position = q])
    BY <2>1, <2>6, EntryMoves DEF Arrays, ArrayOK, Shape
  <2>5. fda' = [fda EXCEPT ![depth][fd] = [fda[depth][fd] EXCEPT !.file_position = q]]
    BY <2>3 DEF Shape, Arrays, ArrayOK
  <2> QED BY <2>4, <2>5, <2>6, OneEntry
<1>5. ASSUME NEW fd \in AllFds, Write(fd)
      PROVE  UNCHANGED fda
  BY <1>5 DEF Write, Fails, DeviceReturns
<1> QED BY <1>1, <1>2, <1>3, <1>4, <1>5 DEF OwnCall

(* What execute and halt make of an array is an array again.               *)
LEMMA WholeArrays ==
  ASSUME Arrays, NEW p \in Processes, NEW a,
         a \in {ExecutesWith(fda[p]), CloseAll(fda[p])}
  PROVE  ArrayOK(a)
<1>1. CASE a = ExecutesWith(fda[p])
  <2>1. a = [fd \in AllFds |-> a[fd]]
    BY <1>1 DEF ExecutesWith
  <2>2. \A fd \in FileFds : a[fd] = fda[p][fd]
    BY <1>1, Bounds DEF ExecutesWith, FileFds, AllFds, FdaMinIndex
  <2>3. \A fd \in AllFds \ FileFds : a[fd] = Terminal
    BY <1>1, Bounds DEF ExecutesWith, FileFds, AllFds, FdaMinIndex
  <2> QED BY <2>1, <2>2, <2>3 DEF Arrays, ArrayOK
<1>2. CASE a = CloseAll(fda[p])
  <2>1. a = [fd \in AllFds |-> a[fd]]
    BY <1>2 DEF CloseAll
  <2>2. \A fd \in FileFds : a[fd] = Unused
    BY <1>2, Bounds DEF CloseAll
  <2>3. \A fd \in AllFds \ FileFds : a[fd] = fda[p][fd]
    BY <1>2 DEF CloseAll
  <2> QED BY <2>1, <2>2, <2>3 DEF EntryOK, Arrays, ArrayOK
<1> QED BY <1>1, <1>2

(* Clearing an array without open files changes nothing.                   *)
LEMMA NothingToClose ==
  ASSUME Arrays, NEW p \in Processes, \A fd \in FileFds : fda[p][fd] = Unused
  PROVE  CloseAll(fda[p]) = fda[p]
<1>1. fda[p] = [fd \in AllFds |-> fda[p][fd]]
  BY DEF Arrays, ArrayOK
<1> QED BY <1>1 DEF CloseAll

HoldInv == Shape /\ Arrays /\ WaitingHoldNone

(* With programs that close their files before they start others, the      *)
(* waiting processes never hold one, and so halt, which clears the array   *)
(* of the parent, changes nothing there.                                   *)
LEMMA HoldStep ==
  ASSUME ~KeepOpen, HoldInv, [Next]_vars
  PROVE  /\ HoldInv'
         /\ \A p \in Processes : depth' < depth /\ p < depth => fda'[p] = fda[p]
<1> USE DEF HoldInv
<1>0. depth \in Nat /\ Processes \subseteq Nat
  BY Bounds DEF Shape, Processes
<1>1. CASE OwnCall
  <2>1. /\ depth' = depth
        /\ Shape'
        /\ \A p \in Processes : p # depth => fda'[p] = fda[p]
    BY <1>1, OwnCallTouchesOwn
  <2>2. WaitingHoldNone'
    BY <1>0, <2>1 DEF WaitingHoldNone
  <2> QED BY <1>0, <1>1, <2>1, <2>2, OwnCallKeepsArrays
<1>2. ASSUME NEW name \in Programs, Execute(name)
      PROVE  /\ HoldInv'
             /\ \A p \in Processes : depth' < depth /\ p < depth => fda'[p] = fda[p]
  <2>1. /\ depth' = depth + 1 /\ depth' \in Processes
        /\ DOMAIN fda' = Processes
        /\ \A p \in Processes : p # depth + 1 => fda'[p] = fda[p]
        /\ fda'[depth + 1] = ExecutesWith(fda[depth + 1])
    BY <1>2, Bounds DEF Execute, Shape, Processes
  <2>2. Arrays'
    BY <2>1, WholeArrays DEF Arrays
  <2>3. \A fd \in FileFds : fda[depth][fd] = Unused
    <3>1. \A fd \in FileFds : EntryOK(fda[depth][fd])
      BY DEF Arrays, ArrayOK, Shape
    <3>2. \A fd \in FileFds : ~(fda[depth][fd].flags # 0)
      BY <1>2 DEF Execute, NoFileOpen, InUse
    <3>3. \A e : EntryOK(e) /\ ~(e.flags # 0) => e = Unused
      BY DEF EntryOK, Entry
    <3> QED BY <3>1, <3>2, <3>3
  <2>4. WaitingHoldNone'
    BY <1>0, <2>1, <2>3 DEF WaitingHoldNone
  <2> QED BY <1>0, <2>1, <2>2, <2>4 DEF Shape
<1>3. CASE Halt
  <2>1. /\ depth' = depth - 1 /\ depth' \in Processes
        /\ DOMAIN fda' = Processes
        /\ \A p \in Processes : p \notin {depth, depth - 1} => fda'[p] = fda[p]
        /\ fda'[depth] = CloseAll(fda[depth])
        /\ fda'[depth - 1] = CloseAll(fda[depth - 1])
    BY <1>3, Bounds DEF Halt, Shape, Processes
  <2>2. Arrays'
    BY <2>1, WholeArrays DEF Arrays, Shape
  <2>3. fda'[depth - 1] = fda[depth - 1]
    BY <1>0, <2>1, NothingToClose DEF WaitingHoldNone
  <2>4. \A p \in Processes : p < depth => fda'[p] = fda[p]
    BY <1>0, <2>1, <2>3
  <2>5. WaitingHoldNone'
    BY <1>0, <2>1, <2>4 DEF WaitingHoldNone
  <2> QED BY <2>1, <2>2, <2>4, <2>5 DEF Shape
<1>4. ASSUME NEW name \in Programs, HaltShell(name)
      PROVE  /\ HoldInv'
             /\ \A p \in Processes : depth' < depth /\ p < depth => fda'[p] = fda[p]
  <2>1. /\ depth' = depth /\ depth = 0
        /\ DOMAIN fda' = Processes
        /\ \A p \in Processes : p # 0 => fda'[p] = fda[p]
        /\ fda'[0] = ExecutesWith(fda[0])
    BY <1>4, Bounds DEF HaltShell, Shape
  <2>2. Arrays'
    BY <2>1, WholeArrays, Bounds DEF Arrays
  <2>3. WaitingHoldNone'
    BY <1>0, <2>1 DEF WaitingHoldNone
  <2> QED BY <1>0, <2>1, <2>2, <2>3 DEF Shape
<1>5. CASE UNCHANGED vars
  BY <1>0, <1>5 DEF vars, Shape, Arrays, ArrayOK, WaitingHoldNone
<1> QED BY <1>1, <1>2, <1>3, <1>4, <1>5 DEF Next, OwnCall

(* The arrays at first.                                                    *)
LEMMA HoldInvInit == Init => HoldInv
<1> SUFFICES ASSUME Init PROVE HoldInv
  OBVIOUS
<1>1. \A p \in Processes : fda[p] = [fd \in AllFds |-> fda[p][fd]]
  BY DEF Init, ExecutesWith
<1>2. \A p \in Processes, fd \in FileFds : fda[p][fd] = Unused
  BY Bounds DEF Init, ExecutesWith, FileFds, AllFds, FdaMinIndex
<1>3. \A p \in Processes, fd \in AllFds \ FileFds : fda[p][fd] \in {Unused, Terminal}
  BY Bounds DEF Init, ExecutesWith, FileFds, AllFds, FdaMinIndex
<1> QED BY <1>1, <1>2, <1>3, Bounds
        DEF Init, HoldInv, Shape, Arrays, ArrayOK, WaitingHoldNone, EntryOK

(* A program that ends changes the descriptors of no other process, as     *)
(* long as programs close their files before they start another.           *)
THEOREM OthersKeepFilesHolds ==
  ASSUME ~KeepOpen
  PROVE  Spec => OthersKeepFiles
<1>1. HoldInv /\ [Next]_vars => HoldInv'
  BY HoldStep
<1>2. HoldInv /\ [Next]_vars =>
        [\A p \in Processes :
           depth' < depth /\ p < depth => fda'[p] = fda[p]]_vars
  BY HoldStep
<1> QED BY HoldInvInit, <1>1, <1>2, PTL DEF Spec, OthersKeepFiles

-----------------------------------------------------------------------------
(* What the descriptors hold.                                              *)

(* How much file_read asks read_data for, and the entry that it leaves.    *)
Asked(e, n) ==
  LET length == FileLength(e.inode) IN IF length < n THEN length ELSE n

Moved(e, n) ==
  LET read == ReadData(e.inode, e.file_position, Asked(e, n)) IN
  [e EXCEPT !.file_position = IF read.ret = -1 THEN @ ELSE @ + read.ret]

(* What one step of a directory makes of an entry.                         *)
NextName(e) == [e EXCEPT !.file_position = @ + 1]

(* A set of entries that no call leaves.                                   *)
Closed(E) ==
  /\ Unused \in E /\ Terminal \in E
  /\ \A name \in Names :
       DentryByName(name) # Missing => OpenedEntry(DentryByName(name)) \in E
  /\ \A e \in E :
       e.fops = "dir" /\ e.file_position < Len(Dentries) => NextName(e) \in E
  /\ \A e \in E, n \in Chunks :
       /\ e.fops = "file" /\ n >= 0
       /\ \/ CrossBlocks \/ e.file_position = 0
          \/ (e.file_position % BlockSize) + n <= BlockSize
       => Moved(e, n) \in E

Hold(E) == depth \in Processes /\ fda \in [Processes -> [AllFds -> E]]

(* A change of one descriptor to an entry of the set.                      *)
LEMMA HoldOne ==
  ASSUME NEW E, Hold(E), NEW fd \in AllFds, NEW e \in E,
         fda' = [fda EXCEPT ![depth][fd] = e], depth' = depth
  PROVE  Hold(E)'
BY DEF Hold

(* What execute and halt make of an array.                                 *)
LEMMA HoldArrays ==
  ASSUME NEW E, Closed(E), NEW a \in [AllFds -> E]
  PROVE  ExecutesWith(a) \in [AllFds -> E] /\ CloseAll(a) \in [AllFds -> E]
BY DEF ExecutesWith, CloseAll, Closed

(* The reads of a program keep the entries in the set.                     *)
LEMMA HoldRead ==
  ASSUME NEW E, Closed(E), Hold(E), NEW fd \in AllFds, NEW n \in Chunks, Read(fd, n)
  PROVE  Hold(E)'
<1> DEFINE e == fda[depth][fd]
<1>0. e \in E
  BY DEF Hold
<1>1. CASE UNCHANGED <<depth, fda>>
  BY <1>1 DEF Hold
<1>2. CASE e.fops = "file" /\ MayAsk(fd, n) /\ FileRead(fd, n)
  <2>1. CASE n < 0 /\ Fails
    BY <1>1, <2>1 DEF Fails
  <2>2. CASE n >= 0 /\ ~(n < 0 /\ Fails)
    <3>1. /\ fda' = [fda EXCEPT ![depth][fd].file_position =
                       IF ReadData(e.inode, e.file_position, Asked(e, n)).ret = -1 THEN @
                       ELSE @ + ReadData(e.inode, e.file_position, Asked(e, n)).ret]
          /\ depth' = depth
      BY <1>2, <2>2 DEF FileRead, Asked
    <3>2. fda' = [fda EXCEPT ![depth][fd] = Moved(e, n)]
      BY <3>1 DEF Moved, Hold
    <3>3. Moved(e, n) \in E
      BY <1>0, <1>2, <2>2 DEF Closed, MayAsk
    <3> QED BY <3>1, <3>2, <3>3, HoldOne
  <2> QED BY <1>2, <2>1, <2>2 DEF FileRead
<1>3. CASE e.fops = "dir" /\ DirRead(fd)
  <2>1. CASE e.file_position < Len(Dentries) /\ ~UNCHANGED <<depth, fda>>
    <3>1. /\ fda' = [fda EXCEPT ![depth][fd].file_position = @ + 1]
          /\ depth' = depth
      BY <1>3, <2>1 DEF DirRead
    <3>2. fda' = [fda EXCEPT ![depth][fd] = NextName(e)]
      BY <3>1 DEF NextName, Hold
    <3>3. NextName(e) \in E
      BY <1>0, <1>3, <2>1 DEF Closed
    <3> QED BY <3>1, <3>2, <3>3, HoldOne
  <2> QED BY <1>1, <1>3, <2>1 DEF DirRead
<1> QED BY <1>1, <1>2, <1>3 DEF Read, Fails, DeviceReturns

(* Every step keeps the entries in the set.                                *)
LEMMA HoldAll ==
  ASSUME NEW E, Closed(E), Hold(E), [Next]_vars
  PROVE  Hold(E)'
<1>0. MaxDepth \in Nat /\ FileFds \subseteq AllFds /\ Processes = 0 .. MaxDepth
  BY Bounds DEF Processes
<1>1. ASSUME NEW name \in Names, Open(name) PROVE Hold(E)'
  <2>1. CASE UNCHANGED <<depth, fda>>
    BY <2>1 DEF Hold
  <2>2. CASE ~UNCHANGED <<depth, fda>>
    <3>1. DentryByName(name) # Missing /\ depth' = depth
      BY <1>1, <2>2 DEF Open, Fails
    <3>2. PICK fd \in FileFds :
            fda' = [fda EXCEPT ![depth][fd] = OpenedEntry(DentryByName(name))]
      BY <1>1, <2>2 DEF Open, Fails
    <3>3. OpenedEntry(DentryByName(name)) \in E
      BY <3>1 DEF Closed
    <3> QED BY <1>0, <3>1, <3>2, <3>3, HoldOne
  <2> QED BY <2>1, <2>2
<1>2. ASSUME NEW fd \in AllFds, Close(fd) PROVE Hold(E)'
  <2>1. CASE UNCHANGED <<depth, fda>>
    BY <2>1 DEF Hold
  <2>2. CASE ~UNCHANGED <<depth, fda>>
    <3>1. fda' = [fda EXCEPT ![depth][fd] = Unused] /\ depth' = depth
      BY <1>2, <2>2 DEF Close, Fails
    <3>2. Unused \in E
      BY DEF Closed
    <3> QED BY <3>1, <3>2, HoldOne
  <2> QED BY <2>1, <2>2
<1>3. ASSUME NEW fd \in AllFds, Write(fd) PROVE Hold(E)'
  BY <1>3 DEF Write, Fails, DeviceReturns, Hold
<1>4. ASSUME NEW fd \in AllFds, NEW n \in Chunks, Read(fd, n) PROVE Hold(E)'
  BY <1>4, HoldRead
<1>5. ASSUME NEW name \in Programs, Execute(name) PROVE Hold(E)'
  <2>1. /\ depth' = depth + 1 /\ depth' \in Processes
        /\ fda' = [fda EXCEPT ![depth + 1] = ExecutesWith(fda[depth + 1])]
    BY <1>0, <1>5 DEF Execute, Hold
  <2>2. ExecutesWith(fda[depth + 1]) \in [AllFds -> E]
    BY <2>1, HoldArrays DEF Hold
  <2> QED BY <2>1, <2>2 DEF Hold
<1>6. CASE Halt
  <2>1. /\ depth' = depth - 1 /\ depth' \in Processes
        /\ fda' = [fda EXCEPT ![depth - 1] = CloseAll(fda[depth - 1]),
                             ![depth] = CloseAll(fda[depth])]
    BY <1>0, <1>6 DEF Halt, Hold
  <2>2. /\ CloseAll(fda[depth - 1]) \in [AllFds -> E]
        /\ CloseAll(fda[depth]) \in [AllFds -> E]
    BY <2>1, HoldArrays DEF Hold
  <2> QED BY <2>1, <2>2 DEF Hold
<1>7. ASSUME NEW name \in Programs, HaltShell(name) PROVE Hold(E)'
  <2>1. /\ depth' = depth /\ depth = 0
        /\ fda' = [fda EXCEPT ![0] = ExecutesWith(fda[0])]
    BY <1>7 DEF HaltShell, Hold
  <2>2. ExecutesWith(fda[0]) \in [AllFds -> E]
    BY <1>0, HoldArrays DEF Hold
  <2> QED BY <1>0, <2>1, <2>2 DEF Hold
<1>8. CASE UNCHANGED vars
  BY <1>8 DEF vars, Hold
<1> QED BY <1>1, <1>2, <1>3, <1>4, <1>5, <1>6, <1>7, <1>8 DEF Next

(* The first state holds entries of the set.                               *)
LEMMA HoldInit ==
  ASSUME NEW E, Closed(E), Init
  PROVE  Hold(E)
<1>1. 0 \in Processes
  BY Bounds
<1>2. [fd \in AllFds |-> Unused] \in [AllFds -> E]
  BY DEF Closed
<1>3. ExecutesWith([fd \in AllFds |-> Unused]) \in [AllFds -> E]
  BY <1>2, HoldArrays
<1> QED BY <1>1, <1>2, <1>3 DEF Init, Hold

(* The entries a descriptor may hold: of files of the image, and of a      *)
(* directory that is read at most to its end.                              *)
TypedEntries ==
  {e \in EntryType :
     /\ e.fops = "file" => e.inode \in DOMAIN Inodes /\ e.file_position \in Nat
     /\ e.fops = "dir" => e.file_position \in 0 .. Len(Dentries)}

(* Those of files that are read at most to their end.                      *)
BoundedEntries ==
  {e \in TypedEntries :
     e.fops = "file" => e.file_position \in 0 .. FileLength(e.inode)}

(* The entries that no read makes.                                         *)
LEMMA FreshEntries ==
  /\ Unused \in BoundedEntries /\ Terminal \in BoundedEntries
  /\ \A name \in Names :
       DentryByName(name) # Missing =>
         OpenedEntry(DentryByName(name)) \in BoundedEntries
<1>1. Unused \in BoundedEntries /\ Terminal \in BoundedEntries
  BY DEF Unused, Terminal, Entry, BoundedEntries, TypedEntries, EntryType
<1>2. ASSUME NEW name \in Names, DentryByName(name) # Missing
      PROVE  OpenedEntry(DentryByName(name)) \in BoundedEntries
  <2>1. PICK d \in DentryType : d = DentryByName(name)
    BY <1>2, DentryFound
  <2>2. d.type \in {Device, Directory, File} /\ d.inode \in Int
    BY DEF DentryType
  <2>3. Len(Dentries) \in Nat
    BY DentriesAssumption
  <2>4. CASE d.type = Device
    <3>1. OpenedEntry(d) = Entry("rtc", -1, -1)
      BY <2>4 DEF OpenedEntry, Device, Directory, File
    <3> QED BY <2>1, <3>1 DEF Entry, BoundedEntries, TypedEntries, EntryType
  <2>5. CASE d.type = Directory
    <3>1. OpenedEntry(d) = Entry("dir", -1, 0)
      BY <2>5 DEF OpenedEntry, Device, Directory, File
    <3> QED BY <2>1, <2>3, <3>1 DEF Entry, BoundedEntries, TypedEntries, EntryType
  <2>6. CASE d.type = File
    <3>1. OpenedEntry(d) = Entry("file", d.inode, 0)
      BY <2>6 DEF OpenedEntry, Device, Directory, File
    <3>2. d.inode \in DOMAIN Inodes
      BY <2>1, <2>6, FilesAssumption
    <3>3. FileLength(d.inode) \in Nat
      BY <3>2, InodeTypes
    <3> QED BY <2>1, <2>2, <3>1, <3>2, <3>3
            DEF Entry, BoundedEntries, TypedEntries, EntryType
  <2> QED BY <2>2, <2>4, <2>5, <2>6
<1> QED BY <1>1, <1>2

(* An entry whose position moves.                                          *)
LEMMA EntryAt ==
  ASSUME NEW e \in EntryType, NEW q \in Int,
         NEW r, r = [e EXCEPT !.file_position = q]
  PROVE  /\ r \in EntryType /\ r.file_position = q
         /\ r.fops = e.fops /\ r.inode = e.inode /\ r.flags = e.flags
BY DEF EntryType

(* A read of the directory leaves an entry within it.                      *)
LEMMA NextNameType ==
  ASSUME NEW e \in TypedEntries, e.fops = "dir", e.file_position < Len(Dentries)
  PROVE  NextName(e) \in BoundedEntries
<1>1. e \in EntryType /\ e.file_position \in 0 .. Len(Dentries) /\ Len(Dentries) \in Nat
  BY DentriesAssumption DEF TypedEntries
<1>2. PICK q \in Nat : q = e.file_position + 1 /\ q \in 0 .. Len(Dentries)
  BY <1>1
<1>3. PICK r : r = NextName(e) /\ r = [e EXCEPT !.file_position = q]
  BY <1>2 DEF NextName
<1>4. r \in EntryType /\ r.fops = "dir" /\ r.file_position = q
  BY <1>1, <1>3, EntryAt
<1> QED BY <1>2, <1>3, <1>4 DEF BoundedEntries, TypedEntries

(* What file_read asks for is a length.                                    *)
LEMMA AskedType ==
  ASSUME NEW e \in TypedEntries, e.fops = "file", NEW n \in Chunks, n >= 0
  PROVE  /\ n \in Nat /\ Asked(e, n) \in Nat /\ Asked(e, n) <= n
         /\ e.inode \in DOMAIN Inodes /\ e.file_position \in Nat
         /\ FileLength(e.inode) \in Nat
<1>1. e.inode \in DOMAIN Inodes /\ e.file_position \in Nat
  BY DEF TypedEntries
<1>2. FileLength(e.inode) \in Nat /\ n \in Nat
  BY <1>1, InodeTypes, ChunksAssumption
<1> QED BY <1>1, <1>2 DEF Asked

(* A read of a file moves the position by what was read.                   *)
LEMMA MovedEntry ==
  ASSUME NEW e \in TypedEntries, e.fops = "file", NEW n \in Chunks, n >= 0,
         NEW read, read = ReadData(e.inode, e.file_position, Asked(e, n))
  PROVE  /\ read.data \in Seq(Byte) /\ Len(read.data) \in Nat
         /\ read.ret \in {-1, Len(read.data)}
         /\ Moved(e, n) \in TypedEntries
         /\ Moved(e, n).fops = "file" /\ Moved(e, n).inode = e.inode
         /\ Moved(e, n).flags = e.flags
         /\ Moved(e, n).file_position =
              IF read.ret = -1 THEN e.file_position ELSE e.file_position + read.ret
<1>1. /\ Asked(e, n) \in Nat /\ e.inode \in DOMAIN Inodes
      /\ e.file_position \in Nat /\ e \in EntryType
  BY AskedType DEF TypedEntries
<1>2. /\ read.data \in Seq(Byte) /\ Len(read.data) \in Nat
      /\ read.ret \in {-1, Len(read.data)}
  BY <1>1, ReadTypes
<1>3. PICK q \in Nat :
        q = IF read.ret = -1 THEN e.file_position ELSE e.file_position + read.ret
  BY <1>1, <1>2
<1>4. PICK r : r = Moved(e, n) /\ r = [e EXCEPT !.file_position = q]
  BY <1>3 DEF Moved
<1>5. /\ r \in EntryType /\ r.file_position = q
      /\ r.fops = e.fops /\ r.inode = e.inode /\ r.flags = e.flags
  BY <1>1, <1>3, <1>4, EntryAt
<1>6. r \in TypedEntries
  BY <1>1, <1>5 DEF TypedEntries
<1> QED BY <1>2, <1>3, <1>4, <1>5, <1>6

(* No call leaves the typed entries.                                       *)
LEMMA TypedClosed == Closed(TypedEntries)
<1>1. BoundedEntries \subseteq TypedEntries
  BY DEF BoundedEntries
<1>2. \A e \in TypedEntries :
        e.fops = "dir" /\ e.file_position < Len(Dentries) => NextName(e) \in TypedEntries
  BY <1>1, NextNameType
<1>3. \A e \in TypedEntries, n \in Chunks :
        e.fops = "file" /\ n >= 0 => Moved(e, n) \in TypedEntries
  BY MovedEntry
<1> QED BY <1>1, <1>2, <1>3, FreshEntries DEF Closed

(* Asking for more than the file has asks for all that is left of it.      *)
LEMMA AskedBytes ==
  ASSUME NEW e \in TypedEntries, e.fops = "file", NEW n \in Chunks, n >= 0
  PROVE  Extract(FileBytes(e.inode), e.file_position, Asked(e, n)) =
           Extract(FileBytes(e.inode), e.file_position, n)
<1>1. PICK i \in DOMAIN Inodes, l \in Nat, a \in Nat, p \in Nat :
        /\ i = e.inode /\ l = FileLength(i) /\ a = Asked(e, n)
        /\ p = e.file_position /\ n \in Nat
        /\ a = IF l < n THEN l ELSE n
  BY AskedType DEF Asked
<1>2. Len(FileBytes(i)) = l
  BY <1>1, FileBytesType
<1>3. (IF p + a < l THEN p + a ELSE l) = (IF p + n < l THEN p + n ELSE l)
  BY <1>1
<1> QED BY <1>1, <1>2, <1>3 DEF Extract

(* What a read delivers that starts at the start of its file or ends       *)
(* before the end of its block, whatever its length.                       *)
LEMMA AllowedRead ==
  ASSUME NEW e \in BoundedEntries, e.fops = "file", NEW n \in Chunks, n >= 0,
         \/ e.file_position = 0
         \/ (e.file_position % BlockSize) + n <= BlockSize,
         NEW read, read = ReadData(e.inode, e.file_position, Asked(e, n))
  PROVE  /\ read.ret # -1 =>
              e.file_position + read.ret \in 0 .. FileLength(e.inode)
         /\ Readable(e.inode) =>
              /\ read.ret = Len(read.data)
              /\ read.data = Extract(FileBytes(e.inode), e.file_position, n)
<1>1. /\ e \in TypedEntries /\ e.file_position \in 0 .. FileLength(e.inode)
  BY DEF BoundedEntries
<1>2. PICK i \in DOMAIN Inodes, l \in Nat, a \in Nat, p \in Nat :
        /\ i = e.inode /\ l = FileLength(i) /\ a = Asked(e, n) /\ a <= n
        /\ p = e.file_position /\ p <= l /\ n \in Nat
        /\ a = IF l < n THEN l ELSE n
  BY <1>1, AskedType DEF Asked
<1>3. p = 0 \/ (p % BlockSize) + a <= BlockSize
  <2>1. p % BlockSize \in Nat /\ BlockSize \in Nat
    BY BlockSizeAssumption
  <2> QED BY <1>2, <2>1
<1>4. /\ read.ret # -1 => p + read.ret \in 0 .. FileLength(i)
      /\ Readable(i) => /\ read.ret = Len(read.data)
                        /\ read.data = Extract(FileBytes(i), p, a)
  BY <1>2, <1>3, ReadCorrect
<1>5. Extract(FileBytes(i), p, a) = Extract(FileBytes(i), p, n)
  BY <1>1, <1>2, AskedBytes
<1> QED BY <1>2, <1>4, <1>5

(* No call leaves the bounded entries, if no read crosses into a block.    *)
LEMMA BoundedClosed == ASSUME ~CrossBlocks PROVE Closed(BoundedEntries)
<1>1. BoundedEntries \subseteq TypedEntries
  BY DEF BoundedEntries
<1>2. \A e \in BoundedEntries :
        e.fops = "dir" /\ e.file_position < Len(Dentries) => NextName(e) \in BoundedEntries
  BY <1>1, NextNameType
<1>3. ASSUME NEW e \in BoundedEntries, NEW n \in Chunks, e.fops = "file", n >= 0,
             \/ e.file_position = 0
             \/ (e.file_position % BlockSize) + n <= BlockSize
      PROVE  Moved(e, n) \in BoundedEntries
  <2>1. PICK read : read = ReadData(e.inode, e.file_position, Asked(e, n))
    OBVIOUS
  <2>2. read.ret # -1 => e.file_position + read.ret \in 0 .. FileLength(e.inode)
    BY <1>3, <2>1, AllowedRead
  <2>3. /\ Moved(e, n) \in TypedEntries
        /\ Moved(e, n).fops = "file" /\ Moved(e, n).inode = e.inode
        /\ Moved(e, n).file_position =
             IF read.ret = -1 THEN e.file_position ELSE e.file_position + read.ret
    BY <1>1, <1>3, <2>1, MovedEntry
  <2>4. e.file_position \in 0 .. FileLength(e.inode)
    BY <1>3 DEF BoundedEntries
  <2> QED BY <2>2, <2>3, <2>4 DEF BoundedEntries
<1> QED BY <1>2, <1>3, FreshEntries DEF Closed

-----------------------------------------------------------------------------
(* What a call returns is a number.                                        *)
LEMMA ResultType ==
  ASSUME Hold(TypedEntries), result.ret \in Int, [Next]_vars
  PROVE  result'.ret \in Int
<1>1. ASSUME NEW name \in Names, Open(name) PROVE result'.ret \in Int
  BY <1>1 DEF Open, Fails, Returns, FileFds, FdaMinIndex
<1>2. ASSUME NEW fd \in AllFds, Close(fd) \/ Write(fd) PROVE result'.ret \in Int
  BY <1>2 DEF Close, Write, Fails, DeviceReturns, Returns
<1>3. ASSUME NEW fd \in AllFds, NEW n \in Chunks, Read(fd, n) PROVE result'.ret \in Int
  <2>1. CASE Fails \/ DeviceReturns
    BY <2>1 DEF Fails, DeviceReturns, Returns
  <2>2. CASE DirRead(fd)
    BY <2>2 DEF DirRead, Returns
  <2>3. CASE fda[depth][fd].fops = "file" /\ FileRead(fd, n) /\ ~Fails
    <3>1. PICK e \in TypedEntries : e = fda[depth][fd]
      BY DEF Hold
    <3>2. PICK read : read = ReadData(e.inode, e.file_position, Asked(e, n))
      OBVIOUS
    <3>3. n >= 0 /\ result'.ret = read.ret
      BY <2>3, <3>1, <3>2 DEF FileRead, Asked, Returns
    <3> QED BY <2>3, <3>1, <3>2, <3>3, MovedEntry
  <2> QED BY <1>3, <2>1, <2>2, <2>3 DEF Read
<1>4. ASSUME NEW name \in Programs, Execute(name) \/ HaltShell(name)
      PROVE  result'.ret \in Int
  BY <1>4 DEF Execute, HaltShell, LoadsProgram, Returns
<1>5. CASE Halt
  BY <1>5 DEF Halt, Returns
<1>6. CASE UNCHANGED vars
  BY <1>6 DEF vars
<1> QED BY <1>1, <1>2, <1>3, <1>4, <1>5, <1>6 DEF Next

(* Whatever the programs call, and whether or not their reads cross into   *)
(* another block, every descriptor holds an entry of one of the kinds, a   *)
(* file's with the number of an inode, and every call returns a number.    *)
THEOREM TypeOKHolds == Spec => []TypeOK
<1> DEFINE Inv == Hold(TypedEntries) /\ result.ret \in Int
<1>1. Init => Inv
  BY HoldInit, TypedClosed DEF Init
<1>2. Inv /\ [Next]_vars => Inv'
  BY HoldAll, TypedClosed, ResultType
<1>3. Inv => TypeOK
  <2>1. TypedEntries \subseteq EntryType
    BY DEF TypedEntries
  <2> QED BY <2>1 DEF Hold, TypeOK
<1> QED BY <1>1, <1>2, <1>3, PTL DEF Spec

(* Unless a program reads from inside a block across its end, no sequence  *)
(* of calls moves the position of an open file or directory past its end.  *)
THEOREM PositionWithinFileHolds ==
  ASSUME ~CrossBlocks
  PROVE  Spec => []PositionWithinFile
<1>1. Init => Hold(BoundedEntries)
  BY HoldInit, BoundedClosed
<1>2. Hold(BoundedEntries) /\ [Next]_vars => Hold(BoundedEntries)'
  BY HoldAll, BoundedClosed
<1>3. Hold(BoundedEntries) => PositionWithinFile
  BY Bounds DEF Hold, PositionWithinFile, BoundedEntries, TypedEntries
<1> QED BY <1>1, <1>2, <1>3, PTL DEF Spec

-----------------------------------------------------------------------------
(* What a file read delivers.                                              *)

(* What file_read does to the state.                                       *)
LEMMA FileReadEffect ==
  ASSUME Hold(TypedEntries), NEW fd \in AllFds, NEW n \in Chunks, n >= 0,
         FileRead(fd, n), NEW e, e = fda[depth][fd],
         NEW read, read = ReadData(e.inode, e.file_position, Asked(e, n))
  PROVE  /\ result'.ret = read.ret /\ result'.data = read.data
         /\ fda' = [fda EXCEPT ![depth][fd] = Moved(e, n)] /\ depth' = depth
<1>1. n \in Int /\ ~(n < 0)
  BY ChunksAssumption
<1>2. /\ fda' = [fda EXCEPT ![depth][fd].file_position =
                   IF read.ret = -1 THEN @ ELSE @ + read.ret]
      /\ Returns(read.ret, read.data) /\ depth' = depth
  BY <1>1 DEF FileRead, Asked
<1>3. fda' = [fda EXCEPT ![depth][fd] = Moved(e, n)]
  BY <1>2 DEF Moved, Hold
<1> QED BY <1>2, <1>3 DEF Returns

(* A step that is a read of a file delivers the bytes that follow the      *)
(* position, also where the program has asked for another length than the  *)
(* one in question and the two reads cannot be told apart.                 *)
LEMMA ReadStep ==
  ASSUME ~CrossBlocks, ReadableImage, Hold(BoundedEntries), Next,
         NEW fd \in FileFds, NEW n \in Chunks, n >= 0, InUse(fd),
         fda[depth][fd].fops = "file", FileRead(fd, n)
  PROVE  result'.data = Extract(FileBytes(fda[depth][fd].inode),
                                fda[depth][fd].file_position, n)
<1>0. Hold(TypedEntries) /\ fd \in AllFds
  BY Bounds DEF Hold, BoundedEntries
<1>1. PICK e \in BoundedEntries : e = fda[depth][fd] /\ e \in TypedEntries /\ e.fops = "file"
  BY <1>0 DEF Hold
<1>2. PICK read : read = ReadData(e.inode, e.file_position, Asked(e, n))
  OBVIOUS
<1>3. /\ result'.ret = read.ret /\ result'.data = read.data
      /\ fda' = [fda EXCEPT ![depth][fd] = Moved(e, n)] /\ depth' = depth
  BY <1>0, <1>1, <1>2, FileReadEffect
<1>4. /\ n \in Nat /\ Asked(e, n) \in Nat /\ e.inode \in DOMAIN Inodes
      /\ FileLength(e.inode) \in Nat
      /\ e.file_position \in 0 .. FileLength(e.inode)
  BY <1>1, AskedType DEF BoundedEntries
<1>5. PICK o \in Nat, B \in Nat, l \in Nat :
        /\ B = BlockSize /\ o = e.file_position % BlockSize /\ o < B
        /\ l = Len(read.data)
  <2>1. BlockSize \in Nat \ {0}
    BY BlockSizeAssumption
  <2>2. e.file_position % BlockSize \in Nat /\ e.file_position % BlockSize < BlockSize
    BY <1>4, <2>1
  <2>3. Len(read.data) \in Nat
    BY <1>1, <1>2, MovedEntry
  <2> QED BY <2>1, <2>2, <2>3
<1>6. read.ret \in {-1, l}
  BY <1>1, <1>2, <1>5, MovedEntry
<1>7. CASE o + l <= B /\ read.ret # -1
  <2>1. read.data = Extract(FileBytes(e.inode), e.file_position, Asked(e, n))
    BY <1>2, <1>4, <1>5, <1>7, ReadInBlock
  <2> QED BY <1>1, <1>3, <2>1, AskedBytes
<1>8. CASE e.file_position = 0
  <2>1. Readable(e.inode)
    BY <1>4 DEF ReadableImage
  <2>2. read.data = Extract(FileBytes(e.inode), e.file_position, n)
    BY <1>1, <1>2, <1>8, <2>1, AllowedRead
  <2> QED BY <1>1, <1>3, <2>2
<1>9. CASE e.file_position # 0 /\ (o + l > B \/ read.ret = -1)
  <2>1. l # 0
    <3>1. CASE o + l > B
      BY <1>5, <3>1
    <3>2. CASE o + l <= B /\ read.ret = -1
      <4>1. o + l = B
        BY <1>2, <1>4, <1>5, <3>2, ReadInBlock
      <4> QED BY <1>5, <4>1
    <3> QED BY <1>5, <1>9, <3>1, <3>2
  <2>2. Len(<<>>) = 0
    BY EmptySeq
  <2>3. result'.data # <<>>
    BY <1>3, <1>5, <2>1, <2>2
  <2>4. ASSUME NEW g \in AllFds, NEW m \in Chunks, fda[depth][g].fops = "file",
               MayAsk(g, m), FileRead(g, m)
        PROVE  FALSE
    <3>1. CASE m < 0
      BY <2>3, <2>4, <3>1, ChunksAssumption DEF FileRead, Fails, Returns
    <3>2. CASE m >= 0
      <4>1. PICK e2 \in BoundedEntries : e2 = fda[depth][g] /\ e2 \in TypedEntries /\ e2.fops = "file"
        BY <1>0, <2>4 DEF Hold
      <4>2. PICK read2 : read2 = ReadData(e2.inode, e2.file_position, Asked(e2, m))
        OBVIOUS
      <4>3. /\ result'.ret = read2.ret /\ result'.data = read2.data
            /\ fda' = [fda EXCEPT ![depth][g] = Moved(e2, m)]
        BY <1>0, <2>4, <3>2, <4>1, <4>2, FileReadEffect
      <4>4. \/ e2.file_position = 0
            \/ (e2.file_position % BlockSize) + m <= BlockSize
        BY <2>4, <4>1 DEF MayAsk
      <4>5. Readable(e2.inode)
        BY <3>2, <4>1, AskedType DEF ReadableImage
      <4>6. read2.ret = Len(read2.data) /\ Len(read2.data) \in Nat
        BY <3>2, <4>1, <4>2, <4>4, <4>5, AllowedRead, MovedEntry
      <4>7. read.ret = l /\ l > 0 /\ o + l > B
        BY <1>3, <1>5, <1>6, <1>9, <2>1, <4>3, <4>6
      <4>8. Moved(e, n).file_position # e.file_position
        <5>1. Moved(e, n).file_position = e.file_position + l
          BY <1>1, <1>2, <1>5, <4>7, MovedEntry
        <5> QED BY <1>4, <4>7, <5>1
      <4>9. CASE g # fd
        <5>1. fda'[depth][fd] = e
          BY <1>0, <1>1, <4>3, <4>9 DEF Hold
        <5>2. fda'[depth][fd] = Moved(e, n)
          BY <1>0, <1>3 DEF Hold
        <5> QED BY <4>8, <5>1, <5>2
      <4>10. CASE g = fd
        <5>1. e2 = e /\ o + m <= B
          BY <1>1, <1>5, <1>9, <4>1, <4>4, <4>10
        <5>2. Asked(e, m) \in Nat /\ Asked(e, m) <= m /\ m \in Nat
          BY <1>1, <3>2, AskedType
        <5>3. Len(read2.data) <= Asked(e, m)
          BY <1>4, <4>2, <5>1, <5>2, ReadInBlock
        <5>4. l <= m
          BY <1>3, <1>5, <4>3, <5>2, <5>3
        <5> QED BY <1>5, <4>7, <5>1, <5>2, <5>4
      <4> QED BY <4>9, <4>10
    <3> QED BY <3>1, <3>2, ChunksAssumption
  <2>5. ASSUME NEW g \in AllFds, DirRead(g) PROVE FALSE
    <3>1. result'.ret \in {0, 1}
      BY <2>5 DEF DirRead, Returns
    <3>2. read.ret \in {0, 1}
      BY <1>3, <3>1
    <3>3. read.ret = l /\ l = 1
      <4>1. read.ret = -1 \/ read.ret = l
        BY <1>6
      <4>2. read.ret = 0 \/ read.ret = 1
        BY <3>2
      <4>3. l # -1
        BY <1>5
      <4> QED BY <2>1, <4>1, <4>2, <4>3
    <3>4. ~(o + l > B) /\ read.ret # -1
      BY <1>5, <3>3
    <3> QED BY <1>9, <3>4
  <2>6. ASSUME NEW name \in Programs, HaltShell(name) PROVE FALSE
    <3>1. result'.ret = 0
      BY <2>6 DEF HaltShell, LoadsProgram, Returns
    <3> QED BY <1>3, <1>5, <1>6, <2>1, <3>1
  <2>7. ASSUME NEW name \in Programs, Execute(name) PROVE FALSE
    <3>1. depth' = depth + 1 /\ depth \in Int
      BY <1>0, <2>7, Bounds DEF Execute, Hold, Processes
    <3> QED BY <1>3, <3>1
  <2>8. ~Fails /\ ~DeviceReturns
    BY <2>3 DEF Fails, DeviceReturns, Returns
  <2>9. ASSUME NEW name \in Names, Open(name) PROVE FALSE
    BY <2>3, <2>8, <2>9 DEF Open, Returns
  <2>10. ASSUME NEW g \in AllFds, Close(g) \/ Write(g) PROVE FALSE
    BY <2>3, <2>8, <2>10 DEF Close, Write, Returns
  <2>11. ASSUME NEW g \in AllFds, NEW m \in Chunks, Read(g, m) PROVE FALSE
    BY <2>4, <2>5, <2>8, <2>11 DEF Read
  <2>12. ~Halt
    BY <2>3 DEF Halt, Returns
  <2> QED BY <2>6, <2>7, <2>9, <2>10, <2>11, <2>12 DEF Next
<1> QED BY <1>5, <1>6, <1>7, <1>8, <1>9

(* Unless a program reads from inside a block across its end, every read   *)
(* of a file delivers the bytes that follow its position, however the      *)
(* reads before it were cut and wherever the blocks of the file lie.       *)
THEOREM ReadReturnsFileHolds ==
  ASSUME ~CrossBlocks, ReadableImage
  PROVE  Spec => ReadReturnsFile
<1> DEFINE A == \A fd \in FileFds, n \in Chunks :
                  n >= 0 /\ InUse(fd) /\ fda[depth][fd].fops = "file" /\ FileRead(fd, n) =>
                    result'.data = Extract(FileBytes(fda[depth][fd].inode),
                                           fda[depth][fd].file_position, n)
<1>1. Init => Hold(BoundedEntries)
  BY HoldInit, BoundedClosed
<1>2. Hold(BoundedEntries) /\ [Next]_vars => Hold(BoundedEntries)'
  BY HoldAll, BoundedClosed
<1>3. Hold(BoundedEntries) /\ [Next]_vars => [A]_vars
  BY ReadStep
<1> QED BY <1>1, <1>2, <1>3, PTL DEF Spec, ReadReturnsFile

-----------------------------------------------------------------------------
(* The refinement of OpenFiles.                                            *)

(* The entry is one that open has made for the name, moved on by reads.    *)
IsOf(e, name) ==
  LET opened == OpenedEntry(DentryByName(name)) IN
  /\ DentryByName(name) # Missing
  /\ e.fops = opened.fops /\ e.inode = opened.inode

FileKinds == {"file", "dir", "rtc"}

NamedEntries ==
  {e \in BoundedEntries :
     e.fops \in FileKinds => \E name \in Names : IsOf(e, name)}

(* No call leaves the entries that have a name.                            *)
LEMMA NamedClosed == ASSUME ~CrossBlocks PROVE Closed(NamedEntries)
<1>0. Closed(BoundedEntries) /\ NamedEntries \subseteq BoundedEntries
  BY BoundedClosed DEF NamedEntries
<1>1. Unused \in NamedEntries /\ Terminal \in NamedEntries
  BY FreshEntries DEF NamedEntries, FileKinds, Unused, Terminal, Entry
<1>2. ASSUME NEW name \in Names, DentryByName(name) # Missing
      PROVE  OpenedEntry(DentryByName(name)) \in NamedEntries
  <2>1. IsOf(OpenedEntry(DentryByName(name)), name)
    BY <1>2 DEF IsOf
  <2> QED BY <1>2, <2>1, FreshEntries DEF NamedEntries
<1>3. ASSUME NEW e \in NamedEntries, e.fops = "dir", e.file_position < Len(Dentries)
      PROVE  NextName(e) \in NamedEntries
  <2>1. NextName(e) \in BoundedEntries
    BY <1>0, <1>3 DEF Closed
  <2>2. e \in TypedEntries
    BY <1>0 DEF BoundedEntries
  <2>3. PICK q \in Int : q = e.file_position + 1
    BY <1>3, <2>2 DEF TypedEntries
  <2>4. PICK r : r = NextName(e) /\ r = [e EXCEPT !.file_position = q]
    BY <2>3 DEF NextName
  <2>5. r.fops = e.fops /\ r.inode = e.inode
    BY <2>2, <2>4, EntryAt DEF TypedEntries
  <2> QED BY <2>1, <2>4, <2>5 DEF NamedEntries, IsOf
<1>4. ASSUME NEW e \in NamedEntries, NEW n \in Chunks, e.fops = "file", n >= 0,
             \/ CrossBlocks \/ e.file_position = 0
             \/ (e.file_position % BlockSize) + n <= BlockSize
      PROVE  Moved(e, n) \in NamedEntries
  <2>1. Moved(e, n) \in BoundedEntries
    BY <1>0, <1>4 DEF Closed
  <2>2. e \in TypedEntries
    BY <1>0 DEF BoundedEntries
  <2>3. Moved(e, n).fops = e.fops /\ Moved(e, n).inode = e.inode
    BY <1>4, <2>2, MovedEntry
  <2> QED BY <2>1, <2>3 DEF NamedEntries, IsOf
<1> QED BY <1>1, <1>2, <1>3, <1>4 DEF Closed

(* An entry that open has made has the name that was opened.               *)
LEMMA EntryName ==
  ASSUME DistinctNames, NEW e, NEW name \in Names, IsOf(e, name)
  PROVE  /\ NameOf(e) = name /\ TypeName(name) = e.fops /\ e.fops \in FileKinds
         /\ e.fops = "file" => DentryByName(name).inode = e.inode
<1>1. PICK d \in DentryType : d = DentryByName(name) /\ d # Missing
  BY DentryFound DEF IsOf
<1>2. d.type \in {Device, Directory, File}
  BY DEF DentryType
<1> DEFINE type == CASE e.fops = "file" -> File
                     [] e.fops = "dir"  -> Directory
                     [] e.fops = "rtc"  -> Device
<1>3. /\ type = d.type /\ TypeName(name) = e.fops /\ e.fops \in FileKinds
      /\ type = File => d.inode = e.inode
      /\ e.fops = "file" => d.inode = e.inode
  <2>1. CASE d.type = File
    BY <1>1, <2>1 DEF IsOf, OpenedEntry, Entry, File, Directory, Device, TypeName, FileKinds
  <2>2. CASE d.type = Directory
    BY <1>1, <2>2 DEF IsOf, OpenedEntry, Entry, File, Directory, Device, TypeName, FileKinds
  <2>3. CASE d.type = Device
    BY <1>1, <2>3 DEF IsOf, OpenedEntry, Entry, File, Directory, Device, TypeName, FileKinds
  <2> QED BY <1>2, <2>1, <2>2, <2>3
<1>4. NameOf(e) = CHOOSE a \in Names : /\ DentryByName(a).type = type
                                       /\ type = File => DentryByName(a).inode = e.inode
  BY DEF NameOf
<1> HIDE DEF type
<1>5. \A a \in Names :
        /\ DentryByName(a).type = type
        /\ type = File => DentryByName(a).inode = e.inode
        => a = name
  BY <1>1, <1>3 DEF DistinctNames
<1>6. NameOf(e) = name
  BY <1>1, <1>3, <1>4, <1>5
<1> QED BY <1>1, <1>3, <1>6

(* The abstract table, and what stands in it for an entry.                 *)
Table == [p \in Processes |-> [fd \in FileFds |-> Open_(fda[p][fd])]]

LEMMA OpenOf ==
  ASSUME DistinctNames, NEW e \in NamedEntries, EntryOK(e)
  PROVE  \/ e = Unused /\ e.flags = 0 /\ Open_(e) = Tables!Free
         \/ /\ e.flags = 1 /\ e.fops \in FileKinds /\ Open_(e) # Tables!Free
            /\ \E name \in Names :
                 /\ IsOf(e, name) /\ TypeName(name) = e.fops
                 /\ Open_(e) = [name |-> name,
                                at |-> IF e.fops = "rtc" THEN 0 ELSE e.file_position]
<1>1. CASE e = Unused
  BY <1>1 DEF Unused, Open_, Tables!Free
<1>2. CASE e # Unused
  <2>1. e.flags = 1 /\ e.fops \in FileKinds
    BY <1>2 DEF EntryOK, Entry, FileKinds
  <2>2. PICK name \in Names : IsOf(e, name)
    BY <2>1 DEF NamedEntries
  <2>3. NameOf(e) = name /\ TypeName(name) = e.fops
    BY <2>2, EntryName
  <2>4. Open_(e) = [name |-> name,
                    at |-> IF e.fops = "rtc" THEN 0 ELSE e.file_position]
    BY <2>1, <2>3 DEF Open_
  <2>5. name # ""
    BY DEF DistinctNames
  <2>6. Open_(e) # Tables!Free
    <3>1. Open_(e).name = name
      BY <2>4
    <3>2. Tables!Free.name = ""
      BY DEF Tables!Free
    <3> QED BY <2>5, <3>1, <3>2
  <2> QED BY <2>1, <2>2, <2>3, <2>4, <2>6
<1> QED BY <1>1, <1>2

(* The table is that of OpenFiles.                                         *)
LEMMA TableCells ==
  ASSUME NEW p \in Processes, NEW fd \in FileFds
  PROVE  Table[p][fd] = Open_(fda[p][fd])
BY DEF Table

(* A call that changes no table.                                           *)
LEMMA AbstractOther ==
  ASSUME NEW v \in {-1, 0}, Returns(v, <<>>), depth' = depth, Table' = Table
  PROVE  Tables!Next
BY DEF Returns, Table, Tables!Next, Tables!Other, Tables!Returns

(* Opening a name at the lowest free number.                               *)
LEMMA AbstractOpen ==
  ASSUME NEW name \in Names, TypeName(name) # "none", NEW fd \in FileFds,
         depth \in Processes, Table[depth][fd] = Tables!Free,
         \A g \in FileFds : Table[depth][g] = Tables!Free => fd <= g,
         Returns(fd, <<>>), depth' = depth,
         Table' = [Table EXCEPT ![depth][fd] = [name |-> name, at |-> 0]]
  PROVE  Tables!Next
<1> DEFINE free == {g \in FileFds : Table[depth][g] = Tables!Free}
           low == CHOOSE f \in free : \A g \in free : f <= g
<1>1. fd \in free /\ \A g \in free : fd <= g
  OBVIOUS
<1>2. \A f \in free : f \in Nat
  BY Bounds DEF FileFds, FdaMinIndex
<1>3. low = fd
  <2> HIDE DEF free
  <2> QED BY <1>1, <1>2
<1>4. Tables!Open(name)
  <2>1. [a \in Names |-> TypeName(a)][name] # "none"
    OBVIOUS
  <2>2. free # {}
    BY <1>1
  <2>3. /\ Table' = [Table EXCEPT ![depth][low] = [name |-> name, at |-> 0]]
        /\ result' = [ret |-> low, data |-> <<>>]
    <3> HIDE DEF low
    <3> QED BY <1>3 DEF Returns
  <2> QED BY <2>1, <2>2, <2>3 DEF Tables!Open, Tables!Returns, Table
<1> QED BY <1>4 DEF Tables!Next

(* Closing a descriptor.                                                   *)
LEMMA AbstractClose ==
  ASSUME NEW fd \in FileFds, Table[depth][fd] # Tables!Free,
         Returns(0, <<>>), depth' = depth,
         Table' = [Table EXCEPT ![depth][fd] = Tables!Free]
  PROVE  Tables!Next
<1>1. Tables!Close(fd)
  BY DEF Tables!Close, Tables!Returns, Returns, Table
<1> QED BY <1>1 DEF Tables!Next

(* Reading from a descriptor: k is what OpenFiles lets a read take.        *)
LEMMA AbstractRead ==
  ASSUME NEW fd \in FileFds, NEW n \in Chunks, NEW name \in Names, NEW at, NEW k,
         Table[depth][fd] = [name |-> name, at |-> at],
         Table[depth][fd] # Tables!Free, TypeName(name) # "rtc",
         k = LET left == Len(Bytes(name)) - at
                 want == IF TypeName(name) = "dir" THEN 1 ELSE n
             IN IF want < left THEN want ELSE left,
         Returns(k, SubSeq(Bytes(name), at + 1, at + k)), depth' = depth,
         depth \in Processes,
         Table' = [Table EXCEPT ![depth][fd] = [name |-> name, at |-> at + k]]
  PROVE  Tables!Next
<1>1. /\ [a \in Names |-> TypeName(a)][name] = TypeName(name)
      /\ [a \in Names |-> Bytes(a)][name] = Bytes(name)
  OBVIOUS
<1>2. /\ Table[depth][fd].name = name /\ Table[depth][fd].at = at
  OBVIOUS
<1>3. Tables!Taken(Table[depth][fd], n) = k
  BY <1>1, <1>2 DEF Tables!Taken
<1>4. Table' = [Table EXCEPT ![depth][fd].at = @ + k]
  <2>1. DOMAIN Table = Processes /\ DOMAIN Table[depth] = FileFds
    BY DEF Table
  <2>2. [Table[depth][fd] EXCEPT !.at = @ + k] = [name |-> name, at |-> at + k]
    OBVIOUS
  <2> QED BY <2>1, <2>2
<1>5. Tables!Read(fd, n)
  BY <1>1, <1>2, <1>3, <1>4 DEF Tables!Read, Tables!Returns, Returns, Table
<1> QED BY <1>5 DEF Tables!Next

(* A process starts, ends, or is the shell that is started again.          *)
LEMMA AbstractStart ==
  ASSUME NEW name \in Programs, depth < MaxDepth, depth' = depth + 1,
         Returns(0, Bytes(name)), Table' = [Table EXCEPT ![depth + 1] = Tables!NoneOpen]
  PROVE  Tables!Next
<1>1. [a \in Names |-> Bytes(a)][name] = Bytes(name)
  BY ProgramsAssumption
<1>2. Tables!Start(name)
  BY <1>1 DEF Tables!Start, Tables!Returns, Returns, Table
<1> QED BY <1>2 DEF Tables!Next

LEMMA AbstractEnd ==
  ASSUME depth > 0, depth' = depth - 1, Returns(0, <<>>),
         Table' = [Table EXCEPT ![depth] = Tables!NoneOpen]
  PROVE  Tables!Next
BY DEF Tables!Next, Tables!End, Tables!Returns, Returns, Table

LEMMA AbstractRestart ==
  ASSUME NEW name \in Programs, depth = 0, depth' = depth,
         Returns(0, Bytes(name)), Table' = [Table EXCEPT ![0] = Tables!NoneOpen]
  PROVE  Tables!Next
<1>1. [a \in Names |-> Bytes(a)][name] = Bytes(name)
  BY ProgramsAssumption
<1>2. Tables!Restart(name)
  BY <1>1 DEF Tables!Restart, Tables!Returns, Returns, Table
<1> QED BY <1>2 DEF Tables!Next

-----------------------------------------------------------------------------
(* Every step is a step of OpenFiles.                                      *)

RInv == HoldInv /\ EndedInv /\ Hold(NamedEntries)

(* What the invariant says of an entry, and of its place in the table.     *)
LEMMA CellFacts ==
  ASSUME RInv, DistinctNames, NEW fd \in FileFds, NEW e, e = fda[depth][fd]
  PROVE  /\ depth \in Processes /\ fd \in AllFds
         /\ e \in NamedEntries /\ e \in BoundedEntries /\ e \in TypedEntries
         /\ EntryOK(e) /\ Table[depth][fd] = Open_(e)
         /\ Table[depth][fd] = Tables!Free <=> e.flags = 0
         /\ e.flags = 0 => e = Unused
<1>1. depth \in Processes /\ fd \in AllFds
  BY Bounds DEF RInv, Hold
<1>2. e \in NamedEntries
  BY <1>1 DEF RInv, Hold
<1>3. EntryOK(e)
  BY <1>1 DEF RInv, HoldInv, Arrays, ArrayOK
<1>4. Table[depth][fd] = Open_(e)
  BY <1>1, TableCells
<1> QED BY <1>1, <1>2, <1>3, <1>4, OpenOf DEF NamedEntries, BoundedEntries

(* A change of one entry changes one place of the table.                   *)
LEMMA TableOne ==
  ASSUME Hold(NamedEntries), NEW fd \in FileFds, NEW e,
         fda' = [fda EXCEPT ![depth][fd] = e]
  PROVE  Table' = [Table EXCEPT ![depth][fd] = Open_(e)]
<1>0. FileFds \subseteq AllFds /\ depth \in Processes
  BY Bounds DEF Hold
<1>1. /\ fda'[depth] = [fda[depth] EXCEPT ![fd] = e]
      /\ \A p \in Processes : p # depth => fda'[p] = fda[p]
      /\ fda[depth] \in [AllFds -> NamedEntries]
  BY DEF Hold
<1>2. ASSUME NEW p \in Processes, NEW g \in FileFds
      PROVE  Open_(fda'[p][g]) = IF p = depth /\ g = fd THEN Open_(e) ELSE Open_(fda[p][g])
  BY <1>0, <1>1
<1>3. Table' = [p \in Processes |-> [g \in FileFds |-> Open_(fda'[p][g])]]
  BY DEF Table, Open_, NameOf
<1>4. Table' = [p \in Processes |-> [g \in FileFds |->
                  IF p = depth /\ g = fd THEN Open_(e) ELSE Open_(fda[p][g])]]
  BY <1>2, <1>3
<1> QED BY <1>0, <1>4 DEF Table

(* Calls that fail, and those of the devices.                              *)
LEMMA FailsStep == ASSUME Fails \/ DeviceReturns PROVE Tables!Next
<1>1. Table' = Table /\ depth' = depth
  BY DEF Fails, DeviceReturns, Table
<1> QED BY <1>1, AbstractOther DEF Fails, DeviceReturns

(* open.                                                                   *)
LEMMA OpenStep ==
  ASSUME RInv, DistinctNames, NEW name \in Names, Open(name)
  PROVE  Tables!Next
<1>1. CASE ~Fails
  <2>1. DentryByName(name) # Missing /\ depth' = depth
    BY <1>1 DEF Open
  <2>2. PICK fd \in FileFds :
          /\ ~InUse(fd) /\ \A g \in FileFds : ~InUse(g) => fd <= g
          /\ fda' = [fda EXCEPT ![depth][fd] = OpenedEntry(DentryByName(name))]
          /\ Returns(fd, <<>>)
    BY <1>1 DEF Open
  <2>3. PICK e : e = OpenedEntry(DentryByName(name))
    OBVIOUS
  <2>4. IsOf(e, name) /\ e.flags = 1 /\ (e.fops # "rtc" => e.file_position = 0)
    <3>1. PICK t \in DentryType : t = DentryByName(name)
      BY <2>1, DentryFound
    <3>2. t.type \in {Device, Directory, File}
      BY DEF DentryType
    <3> QED BY <2>1, <2>3, <3>1, <3>2
            DEF IsOf, OpenedEntry, Entry, Device, Directory, File
  <2>5. NameOf(e) = name /\ TypeName(name) = e.fops /\ e.fops \in FileKinds
    BY <2>4, EntryName
  <2>6. Open_(e) = [name |-> name, at |-> 0]
    BY <2>4, <2>5 DEF Open_
  <2>7. Table' = [Table EXCEPT ![depth][fd] = [name |-> name, at |-> 0]]
    BY <2>2, <2>3, <2>6, TableOne DEF RInv
  <2>8. /\ Table[depth][fd] = Tables!Free /\ depth \in Processes
        /\ \A g \in FileFds : Table[depth][g] = Tables!Free => fd <= g
    BY <2>2, CellFacts DEF InUse
  <2>9. TypeName(name) # "none"
    BY <2>5 DEF FileKinds
  <2> QED BY <2>1, <2>2, <2>7, <2>8, <2>9, AbstractOpen
<1> QED BY <1>1, FailsStep

(* close.                                                                  *)
LEMMA CloseStep ==
  ASSUME RInv, DistinctNames, NEW fd \in AllFds, Close(fd)
  PROVE  Tables!Next
<1>1. CASE ~Fails
  <2>1. /\ fd \in FileFds /\ fda[depth][fd].flags # 0 /\ depth' = depth
        /\ fda' = [fda EXCEPT ![depth][fd] = Unused] /\ Returns(0, <<>>)
    BY <1>1 DEF Close, InUse, AllFds, FileFds
  <2>2. Open_(Unused) = Tables!Free
    BY DEF Open_, Unused, Tables!Free
  <2>3. Table' = [Table EXCEPT ![depth][fd] = Tables!Free]
    BY <2>1, <2>2, TableOne DEF RInv
  <2>4. Table[depth][fd] # Tables!Free
    BY <2>1, CellFacts
  <2> QED BY <2>1, <2>3, <2>4, AbstractClose
<1> QED BY <1>1, FailsStep

(* How many of n bytes a file has behind an offset.                        *)
Available(inode, offset, n) ==
  IF n < FileLength(inode) - offset THEN n ELSE FileLength(inode) - offset

(* That is the length of what follows the offset.                          *)
LEMMA ExtractLength ==
  ASSUME NEW inode \in DOMAIN Inodes, NEW offset \in 0 .. FileLength(inode),
         NEW n \in Nat, NEW k, k = Available(inode, offset, n)
  PROVE  /\ k \in Nat
         /\ Extract(FileBytes(inode), offset, n) =
              SubSeq(FileBytes(inode), offset + 1, offset + k)
         /\ Len(Extract(FileBytes(inode), offset, n)) = k
<1>1. PICK f \in Seq(Byte), l \in Nat, o \in Nat :
        f = FileBytes(inode) /\ l = FileLength(inode) /\ o = offset /\ o <= l
  BY InodeTypes, FileBytesType
<1>2. Len(f) = l
  BY <1>1, FileBytesType
<1>3. k \in Nat /\ k = IF n < l - o THEN n ELSE l - o
  BY <1>1 DEF Available
<1>4. (IF o + n < l THEN o + n ELSE l) = o + k
  BY <1>1, <1>3
<1>5. Extract(f, o, n) = SubSeq(f, o + 1, o + k)
  BY <1>2, <1>4 DEF Extract
<1>6. Len(SubSeq(f, o + 1, o + k)) = k
  <2>1. \A i \in o + 1 .. o + k : i \in 1 .. Len(f)
    BY <1>1, <1>2, <1>3
  <2>2. \A i \in o + 1 .. o + k : f[i] \in Byte
    BY <2>1, ElementOfSeq
  <2>3. Len(SubSeq(f, o + 1, o + k)) =
          IF o + 1 <= o + k THEN o + k - (o + 1) + 1 ELSE 0
    BY <1>3, <2>2, SubSeqProperties
  <2> QED BY <1>3, <2>3
<1>7. offset + 1 = o + 1 /\ offset + k = o + k
  BY <1>1
<1>8. Extract(FileBytes(inode), offset, n) = Extract(f, o, n)
  BY <1>1
<1> QED BY <1>1, <1>3, <1>5, <1>6, <1>7, <1>8

(* read of a file.                                                         *)
LEMMA FileReadStep ==
  ASSUME ~CrossBlocks, ReadableImage, RInv, DistinctNames,
         NEW fd \in FileFds, NEW n \in Chunks, InUse(fd),
         fda[depth][fd].fops = "file", MayAsk(fd, n), FileRead(fd, n)
  PROVE  Tables!Next
<1>1. CASE n < 0
  BY <1>1, FailsStep, ChunksAssumption DEF FileRead
<1>2. CASE n >= 0
  <2>1. PICK e : e = fda[depth][fd]
    OBVIOUS
  <2>2. /\ depth \in Processes /\ fd \in AllFds
        /\ e \in NamedEntries /\ e \in BoundedEntries /\ e \in TypedEntries
        /\ EntryOK(e) /\ Table[depth][fd] = Open_(e)
        /\ Table[depth][fd] # Tables!Free /\ e.fops = "file" /\ e.flags # 0
    BY <2>1, CellFacts DEF InUse
  <2>3. PICK name \in Names :
          /\ IsOf(e, name) /\ TypeName(name) = "file"
          /\ Open_(e) = [name |-> name, at |-> e.file_position]
    <3>1. \E name \in Names :
            /\ IsOf(e, name) /\ TypeName(name) = e.fops
            /\ Open_(e) = [name |-> name,
                           at |-> IF e.fops = "rtc" THEN 0 ELSE e.file_position]
      BY <2>2, OpenOf
    <3> QED BY <2>2, <3>1
  <2>4. NameOf(e) = name /\ DentryByName(name).inode = e.inode
    BY <2>2, <2>3, EntryName
  <2>5. PICK read : read = ReadData(e.inode, e.file_position, Asked(e, n))
    OBVIOUS
  <2>6. /\ result'.ret = read.ret /\ result'.data = read.data
        /\ fda' = [fda EXCEPT ![depth][fd] = Moved(e, n)] /\ depth' = depth
    <3>1. Hold(TypedEntries)
      BY DEF RInv, Hold, NamedEntries, BoundedEntries
    <3> QED BY <1>2, <2>1, <2>2, <2>5, <3>1, FileReadEffect
  <2>7. /\ n \in Nat /\ e.inode \in DOMAIN Inodes /\ FileLength(e.inode) \in Nat
        /\ e.file_position \in 0 .. FileLength(e.inode)
    BY <1>2, <2>2, AskedType DEF BoundedEntries
  <2>8. /\ read.ret = Len(read.data)
        /\ read.data = Extract(FileBytes(e.inode), e.file_position, n)
    <3>1. Readable(e.inode)
      BY <2>7 DEF ReadableImage
    <3>2. \/ e.file_position = 0
          \/ (e.file_position % BlockSize) + n <= BlockSize
      BY <2>1 DEF MayAsk
    <3> QED BY <1>2, <2>2, <2>5, <3>1, <3>2, AllowedRead
  <2>9. PICK k : k = Available(e.inode, e.file_position, n)
    OBVIOUS
  <2>10. /\ k \in Nat /\ read.ret = k
         /\ read.data = SubSeq(FileBytes(e.inode), e.file_position + 1, e.file_position + k)
    <3>1. /\ k \in Nat
          /\ Extract(FileBytes(e.inode), e.file_position, n) =
               SubSeq(FileBytes(e.inode), e.file_position + 1, e.file_position + k)
          /\ Len(Extract(FileBytes(e.inode), e.file_position, n)) = k
      <4>1. PICK i \in DOMAIN Inodes : i = e.inode
        BY <2>7
      <4>2. PICK o \in 0 .. FileLength(i) : o = e.file_position
        BY <2>7, <4>1
      <4>3. n \in Nat /\ k = Available(i, o, n)
        BY <2>7, <2>9, <4>1, <4>2
      <4>4. /\ k \in Nat
            /\ Extract(FileBytes(i), o, n) = SubSeq(FileBytes(i), o + 1, o + k)
            /\ Len(Extract(FileBytes(i), o, n)) = k
        BY <4>3, ExtractLength
      <4> QED BY <4>1, <4>2, <4>4
    <3> QED BY <2>8, <3>1
  <2>11. Bytes(name) = FileBytes(e.inode) /\ Len(Bytes(name)) = FileLength(e.inode)
    BY <2>3, <2>4, <2>7, FileBytesType DEF Bytes
  <2>12. Returns(k, SubSeq(Bytes(name), e.file_position + 1, e.file_position + k))
    <3>1. \E r, x : result' = [ret |-> r, data |-> x]
      BY <1>2, ChunksAssumption DEF FileRead, Returns, Fails
    <3> QED BY <2>6, <2>10, <2>11, <3>1 DEF Returns
  <2>13. Open_(Moved(e, n)) = [name |-> name, at |-> e.file_position + k]
    <3>1. /\ Moved(e, n).fops = "file" /\ Moved(e, n).inode = e.inode
          /\ Moved(e, n).flags = e.flags
          /\ Moved(e, n).file_position = e.file_position + k
      BY <1>2, <2>2, <2>5, <2>10, MovedEntry
    <3>2. IsOf(Moved(e, n), name)
      BY <2>2, <2>3, <3>1 DEF IsOf
    <3>3. NameOf(Moved(e, n)) = name
      BY <3>2, EntryName
    <3> QED BY <2>2, <3>1, <3>3 DEF Open_
  <2>14. Table' = [Table EXCEPT ![depth][fd] = [name |-> name, at |-> e.file_position + k]]
    <3>1. Table' = [Table EXCEPT ![depth][fd] = Open_(Moved(e, n))]
      BY <2>6, TableOne DEF RInv
    <3> QED BY <2>13, <3>1
  <2>15. k = LET left == Len(Bytes(name)) - e.file_position
                 want == IF TypeName(name) = "dir" THEN 1 ELSE n
             IN IF want < left THEN want ELSE left
    BY <2>3, <2>9, <2>11 DEF Available
  <2>16. Table[depth][fd] = [name |-> name, at |-> e.file_position] /\ TypeName(name) # "rtc"
    BY <2>2, <2>3
  <2> QED BY <2>2, <2>6, <2>12, <2>14, <2>15, <2>16, AbstractRead
<1> QED BY <1>1, <1>2, ChunksAssumption

(* read of the directory.                                                  *)
LEMMA DirReadStep ==
  ASSUME RInv, DistinctNames, NEW fd \in FileFds, NEW n \in Chunks, InUse(fd),
         fda[depth][fd].fops = "dir", DirRead(fd)
  PROVE  Tables!Next
<1>1. PICK e : e = fda[depth][fd]
  OBVIOUS
<1>2. /\ depth \in Processes /\ fd \in AllFds
      /\ e \in NamedEntries /\ e \in TypedEntries
      /\ EntryOK(e) /\ Table[depth][fd] = Open_(e)
      /\ Table[depth][fd] # Tables!Free /\ e.fops = "dir" /\ e.flags # 0
  BY <1>1, CellFacts DEF InUse
<1>3. PICK name \in Names :
        /\ IsOf(e, name) /\ TypeName(name) = "dir"
        /\ Open_(e) = [name |-> name, at |-> e.file_position]
  <2>1. \E name \in Names :
          /\ IsOf(e, name) /\ TypeName(name) = e.fops
          /\ Open_(e) = [name |-> name,
                         at |-> IF e.fops = "rtc" THEN 0 ELSE e.file_position]
    BY <1>2, OpenOf
  <2> QED BY <1>2, <2>1
<1>4. PICK l \in Nat, q \in Nat : l = Len(Dentries) /\ q = e.file_position /\ q <= l
  BY <1>2, DentriesAssumption DEF TypedEntries
<1>5. /\ Bytes(name) = [i \in DOMAIN Dentries |-> Dentries[i].name]
      /\ DOMAIN Dentries = 1 .. l
      /\ Bytes(name) \in Seq(STRING) /\ Len(Bytes(name)) = l
  <2>1. Dentries \in Seq(DentryType)
    BY DentriesAssumption DEF DentryType
  <2>2. DOMAIN Dentries = 1 .. l
    BY <1>4, <2>1, LenProperties
  <2>3. \A i \in 1 .. l : Dentries[i].name \in STRING
    <3>1. \A i \in 1 .. l : Dentries[i] \in DentryType
      BY <1>4, <2>1, ElementOfSeq
    <3> QED BY <3>1 DEF DentryType
  <2>4. Bytes(name) = [i \in 1 .. l |-> Dentries[i].name]
    BY <1>3, <2>2 DEF Bytes
  <2>5. Bytes(name) \in [1 .. l -> STRING]
    BY <2>3, <2>4
  <2>6. Bytes(name) \in Seq(STRING)
    BY <2>5, SeqDef
  <2>7. Len(Bytes(name)) = l
    BY <2>4, <2>6, LenProperties
  <2> QED BY <2>2, <2>4, <2>6, <2>7
<1>6. TypeName(name) # "rtc" /\ Table[depth][fd] = [name |-> name, at |-> q]
  BY <1>2, <1>3, <1>4
<1>7. CASE q = l
  <2>1. Returns(0, <<>>) /\ UNCHANGED <<depth, fda>>
    BY <1>1, <1>4, <1>7 DEF DirRead
  <2> QED BY <2>1, AbstractOther DEF Table
<1>8. CASE q < l
  <2>1. /\ Returns(1, <<Dentries[q + 1].name>>) /\ depth' = depth
        /\ fda' = [fda EXCEPT ![depth][fd].file_position = @ + 1]
    BY <1>1, <1>4, <1>8 DEF DirRead
  <2>2. fda' = [fda EXCEPT ![depth][fd] = NextName(e)]
    BY <1>1, <1>2, <2>1 DEF NextName, RInv, Hold
  <2>3. PICK z \in Int : z = q + 1
    BY <1>4
  <2>4. PICK r : r = NextName(e) /\ r = [e EXCEPT !.file_position = z]
    BY <1>4, <2>3 DEF NextName
  <2>5. /\ r.fops = "dir" /\ r.inode = e.inode /\ r.flags # 0 /\ r.file_position = z
    BY <1>2, <2>4, EntryAt DEF TypedEntries
  <2>6. NameOf(r) = name
    <3>1. IsOf(r, name)
      BY <1>2, <1>3, <2>5 DEF IsOf
    <3> QED BY <3>1, EntryName
  <2>7. Open_(r) = [name |-> name, at |-> q + 1]
    BY <2>3, <2>5, <2>6 DEF Open_
  <2>8. Table' = [Table EXCEPT ![depth][fd] = [name |-> name, at |-> q + 1]]
    <3>1. fda' = [fda EXCEPT ![depth][fd] = r]
      BY <2>2, <2>4
    <3>2. Table' = [Table EXCEPT ![depth][fd] = Open_(r)]
      BY <3>1, TableOne DEF RInv
    <3> QED BY <2>7, <3>2
  <2>9. SubSeq(Bytes(name), q + 1, q + 1) = <<Dentries[q + 1].name>>
    <3>1. PICK b \in Seq(STRING) : b = Bytes(name)
      BY <1>5
    <3>2. q + 1 \in 1 .. l /\ Len(b) = l
      BY <1>4, <1>5, <1>8, <3>1
    <3>3. b[q + 1] = Dentries[q + 1].name
      BY <1>5, <3>1, <3>2
    <3>4. \A i \in q + 1 .. q + 1 : b[i] \in STRING
      BY <3>2, ElementOfSeq
    <3>5. /\ SubSeq(b, q + 1, q + 1) \in Seq(STRING)
          /\ Len(SubSeq(b, q + 1, q + 1)) = 1
          /\ SubSeq(b, q + 1, q + 1)[1] = b[q + 1]
      <4>1. PICK j \in Int : j = q + 1
        BY <1>4
      <4>2. \A i \in j .. j : b[i] \in STRING
        BY <3>4, <4>1
      <4>3. /\ SubSeq(b, j, j) \in Seq(STRING)
            /\ Len(SubSeq(b, j, j)) = IF j <= j THEN j - j + 1 ELSE 0
            /\ \A i \in 1 .. j - j + 1 : SubSeq(b, j, j)[i] = b[j + i - 1]
        BY <4>2, SubSeqProperties
      <4>4. (IF j <= j THEN j - j + 1 ELSE 0) = 1 /\ 1 \in 1 .. j - j + 1 /\ j + 1 - 1 = j
        BY <4>1
      <4>5. SubSeq(b, j, j)[1] = b[j]
        BY <4>3, <4>4
      <4> QED BY <4>1, <4>3, <4>4, <4>5
    <3>6. PICK c \in Seq(STRING) : c = <<b[q + 1]>> /\ Len(c) = 1 /\ c[1] = b[q + 1]
      <4>1. PICK v \in STRING : v = b[q + 1]
        BY <3>1, <3>2, ElementOfSeq
      <4>2. <<v>> \in Seq(STRING) /\ Len(<<v>>) = 1 /\ <<v>>[1] = v
        OBVIOUS
      <4> QED BY <4>1, <4>2
    <3>7. SubSeq(b, q + 1, q + 1) = c
      <4>1. \A i \in 1 .. Len(c) : SubSeq(b, q + 1, q + 1)[i] = c[i]
        BY <3>5, <3>6
      <4> QED BY <3>5, <3>6, <4>1, SeqEqual
    <3> QED BY <3>1, <3>3, <3>6, <3>7
  <2>10. 1 = LET left == Len(Bytes(name)) - q
                 want == IF TypeName(name) = "dir" THEN 1 ELSE n
             IN IF want < left THEN want ELSE left
    BY <1>3, <1>4, <1>5, <1>8
  <2> QED BY <1>2, <1>6, <2>1, <2>8, <2>9, <2>10, AbstractRead
<1> QED BY <1>4, <1>7, <1>8

(* read.                                                                   *)
LEMMA ReadIsStep ==
  ASSUME ~CrossBlocks, ReadableImage, RInv, DistinctNames,
         NEW fd \in AllFds, NEW n \in Chunks, Read(fd, n)
  PROVE  Tables!Next
<1>1. CASE Fails \/ DeviceReturns
  BY <1>1, FailsStep
<1>2. CASE ~(Fails \/ DeviceReturns)
  <2>1. /\ InUse(fd)
        /\ \/ fda[depth][fd].fops = "file" /\ MayAsk(fd, n) /\ FileRead(fd, n)
           \/ fda[depth][fd].fops = "dir" /\ DirRead(fd)
    BY <1>2 DEF Read
  <2>2. fd \in FileFds
    <3>1. depth \in Processes /\ ArrayOK(fda[depth])
      BY DEF RInv, HoldInv, Shape, Arrays
    <3> QED BY <2>1, <3>1 DEF ArrayOK, Unused, Terminal, Entry
  <2> QED BY <2>1, <2>2, FileReadStep, DirReadStep
<1> QED BY <1>1, <1>2

(* write changes no descriptor.                                            *)
LEMMA WriteStep == ASSUME NEW fd \in AllFds, Write(fd) PROVE Tables!Next
BY FailsStep DEF Write

(* The table of a process without open files.                              *)
LEMMA TableRow ==
  ASSUME NEW p \in Processes, \A q \in Processes : q # p => fda'[q] = fda[q],
         \A g \in FileFds : fda'[p][g] = Unused
  PROVE  Table' = [Table EXCEPT ![p] = Tables!NoneOpen]
<1>1. Tables!NoneOpen = [g \in FileFds |-> Open_(Unused)]
  BY DEF Tables!NoneOpen, Tables!Free, Open_, Unused
<1>2. ASSUME NEW q \in Processes
      PROVE  [g \in FileFds |-> Open_(fda'[q][g])] =
               IF q = p THEN Tables!NoneOpen ELSE [g \in FileFds |-> Open_(fda[q][g])]
  BY <1>1
<1>3. Table' = [q \in Processes |-> [g \in FileFds |-> Open_(fda'[q][g])]]
  BY DEF Table, Open_, NameOf
<1> QED BY <1>2, <1>3 DEF Table

(* What execute has loaded is the whole program.                           *)
LEMMA ProgramLoaded ==
  ASSUME ReadableImage, NEW name \in Programs, LoadsProgram(name)
  PROVE  Returns(0, Bytes(name))
<1>1. PICK d : d = DentryByName(name)
  OBVIOUS
<1>2. d.type = File /\ d.inode \in DOMAIN Inodes
  BY <1>1, ProgramsAssumption, FilesAssumption
<1>3. PICK l \in Nat, f \in Seq(Byte) :
        l = FileLength(d.inode) /\ f = FileBytes(d.inode) /\ Len(f) = l
  BY <1>2, InodeTypes, FileBytesType
<1>4. ReadData(d.inode, 0, l).data = Extract(f, 0, l)
  <2>1. Readable(d.inode)
    BY <1>2 DEF ReadableImage
  <2>2. ReadData(d.inode, 0, l).data = Extract(FileBytes(d.inode), 0, l)
    BY <1>2, <2>1, ReadFromStart
  <2> QED BY <1>3, <2>2
<1>5. Extract(f, 0, l) = f
  <2>1. Extract(f, 0, l) = SubSeq(f, 1, l)
    BY <1>3 DEF Extract
  <2>2. \A i \in 1 .. l : f[i] \in Byte
    BY <1>3, ElementOfSeq
  <2>3. /\ SubSeq(f, 1, l) \in Seq(Byte)
        /\ Len(SubSeq(f, 1, l)) = IF 1 <= l THEN l - 1 + 1 ELSE 0
        /\ \A i \in 1 .. l - 1 + 1 : SubSeq(f, 1, l)[i] = f[1 + i - 1]
    BY <2>2, SubSeqProperties
  <2>4. Len(SubSeq(f, 1, l)) = l
    BY <2>3
  <2>5. \A i \in 1 .. l : SubSeq(f, 1, l)[i] = f[i]
    <3>1. l - 1 + 1 = l /\ \A i \in 1 .. l : 1 + i - 1 = i
      OBVIOUS
    <3> QED BY <2>3, <3>1
  <2> QED BY <1>3, <2>1, <2>3, <2>4, <2>5, SeqEqual
<1>6. Bytes(name) = f
  <2>1. TypeName(name) = "file"
    BY <1>1, <1>2 DEF TypeName, File, Directory, Device
  <2> QED BY <1>1, <1>3, <2>1 DEF Bytes
<1> QED BY <1>1, <1>3, <1>4, <1>5, <1>6 DEF LoadsProgram

(* A closed entry is unused.                                               *)
LEMMA ClosedEntry ==
  ASSUME RInv, NEW p \in Processes, NEW fd \in FileFds, ~(fda[p][fd].flags # 0)
  PROVE  fda[p][fd] = Unused
<1>1. EntryOK(fda[p][fd])
  BY DEF RInv, HoldInv, Arrays, ArrayOK
<1>2. \A e : EntryOK(e) /\ ~(e.flags # 0) => e = Unused
  BY DEF EntryOK, Entry
<1> QED BY <1>1, <1>2

(* execute.                                                                *)
LEMMA ExecuteStep ==
  ASSUME ReadableImage, RInv, NEW name \in Programs, Execute(name)
  PROVE  Tables!Next
<1>0. depth \in Nat /\ depth + 1 \in Processes /\ depth < MaxDepth
  BY Bounds DEF Execute, RInv, Hold, Processes
<1>1. /\ depth' = depth + 1
      /\ fda' = [fda EXCEPT ![depth + 1] = ExecutesWith(fda[depth + 1])]
      /\ LoadsProgram(name)
  BY DEF Execute
<1>2. /\ fda'[depth + 1] = ExecutesWith(fda[depth + 1])
      /\ \A q \in Processes : q # depth + 1 => fda'[q] = fda[q]
  BY <1>0, <1>1 DEF RInv, Hold
<1>3. ASSUME NEW g \in FileFds
      PROVE  fda'[depth + 1][g] = Unused
  <2>1. fda[depth + 1][g].flags = 0
    BY <1>0 DEF RInv, EndedInv, EndedProcessClosed
  <2>2. fda[depth + 1][g] = Unused
    BY <1>0, <2>1, ClosedEntry
  <2>3. g \in AllFds /\ ~(g < FdaMinIndex)
    BY Bounds DEF FileFds, FdaMinIndex
  <2> QED BY <1>2, <2>2, <2>3 DEF ExecutesWith
<1>4. Table' = [Table EXCEPT ![depth + 1] = Tables!NoneOpen]
  BY <1>0, <1>2, <1>3, TableRow
<1> QED BY <1>0, <1>1, <1>4, ProgramLoaded, AbstractStart

(* halt.                                                                   *)
LEMMA HaltStep ==
  ASSUME ~KeepOpen, RInv, Halt, [Next]_vars
  PROVE  Tables!Next
<1>0. depth \in Nat /\ depth > 0 /\ depth' = depth - 1 /\ depth \in Processes
      /\ depth - 1 \in Processes
  BY Bounds DEF Halt, RInv, Hold, Processes
<1>1. /\ fda' = [fda EXCEPT ![depth - 1] = CloseAll(fda[depth - 1]),
                           ![depth] = CloseAll(fda[depth])]
      /\ Returns(0, <<>>)
  BY <1>0 DEF Halt, RInv, Hold
<1>2. \A q \in Processes : q < depth => fda'[q] = fda[q]
  <2>1. \A p \in Processes : depth' < depth /\ p < depth => fda'[p] = fda[p]
    BY HoldStep DEF RInv
  <2>2. depth' < depth
    BY <1>0
  <2> QED BY <2>1, <2>2
<1>3. /\ fda'[depth] = CloseAll(fda[depth])
      /\ \A q \in Processes : q > depth => fda'[q] = fda[q]
  BY <1>0, <1>1 DEF RInv, Hold
<1>4. \A q \in Processes : q # depth => fda'[q] = fda[q]
  BY <1>0, <1>2, <1>3, Bounds DEF Processes
<1>5. \A g \in FileFds : fda'[depth][g] = Unused
  BY <1>3, Bounds DEF CloseAll
<1>6. Table' = [Table EXCEPT ![depth] = Tables!NoneOpen]
  BY <1>0, <1>4, <1>5, TableRow
<1> QED BY <1>0, <1>1, <1>6, AbstractEnd

(* The end of a shell that is started again.                               *)
LEMMA RestartStep ==
  ASSUME ~KeepOpen, ReadableImage, RInv, NEW name \in Programs, HaltShell(name)
  PROVE  Tables!Next
<1>1. /\ depth' = depth /\ depth = 0 /\ 0 \in Processes
      /\ fda' = [fda EXCEPT ![0] = ExecutesWith(fda[0])]
      /\ LoadsProgram(name) /\ NoFileOpen
  BY Bounds DEF HaltShell
<1>2. /\ fda'[0] = ExecutesWith(fda[0])
      /\ \A q \in Processes : q # 0 => fda'[q] = fda[q]
  BY <1>1 DEF RInv, Hold
<1>3. ASSUME NEW g \in FileFds
      PROVE  fda'[0][g] = Unused
  <2>1. fda[0][g] = Unused
    BY <1>1, ClosedEntry DEF NoFileOpen, InUse
  <2>2. g \in AllFds /\ ~(g < FdaMinIndex)
    BY Bounds DEF FileFds, FdaMinIndex
  <2> QED BY <1>2, <2>1, <2>2 DEF ExecutesWith
<1>4. Table' = [Table EXCEPT ![0] = Tables!NoneOpen]
  BY <1>1, <1>2, <1>3, TableRow
<1> QED BY <1>1, <1>4, ProgramLoaded, AbstractRestart

(* Every step is one of OpenFiles or changes nothing there.                *)
LEMMA RefinementStep ==
  ASSUME ~KeepOpen, ~CrossBlocks, ReadableImage, DistinctNames, RInv, [Next]_vars
  PROVE  Tables!Next \/ UNCHANGED <<depth, Table, result>>
<1>1. CASE UNCHANGED vars
  BY <1>1 DEF vars, Table
<1>2. CASE Next
  BY <1>2, OpenStep, CloseStep, WriteStep, ReadIsStep, ExecuteStep, HaltStep, RestartStep
     DEF Next
<1> QED BY <1>1, <1>2

(* At first no process has a file open.                                    *)
LEMMA RefinementInit == Init => Tables!Init
<1> SUFFICES ASSUME Init PROVE Tables!Init
  OBVIOUS
<1>1. ASSUME NEW p \in Processes, NEW g \in FileFds
      PROVE  Open_(fda[p][g]) = Tables!Free
  <2>1. fda[p][g] = Unused
    BY Bounds DEF Init, ExecutesWith, FileFds, AllFds, FdaMinIndex
  <2> QED BY <2>1 DEF Open_, Unused, Tables!Free
<1>2. [p \in Processes |-> [g \in FileFds |-> Open_(fda[p][g])]]
        = [p \in Processes |-> Tables!NoneOpen]
  BY <1>1 DEF Tables!NoneOpen
<1>3. Tables!Processes = Processes
  BY DEF Tables!Processes, Processes
<1> QED BY <1>2, <1>3 DEF Init, Tables!Init

(* For programs that read within blocks and leave no file open when they   *)
(* start another: the descriptor tables implement OpenFiles.  Each process *)
(* has a table of its own, empty at its start, and reading goes on where   *)
(* the last read of that descriptor ended and delivers what the file holds *)
(* there, whatever else the processes of the terminal do.                  *)
THEOREM TablesSpecHolds ==
  ASSUME ~KeepOpen, ~CrossBlocks, ReadableImage, DistinctNames
  PROVE  Spec => TablesSpec
<1>1. Init => RInv
  BY HoldInit, NamedClosed, HoldInvInit, EndedInit DEF RInv
<1>2. RInv /\ [Next]_vars => RInv'
  BY HoldStep, EndedStep, HoldAll, NamedClosed DEF RInv
<1>3. RInv /\ [Next]_vars => [Tables!Next]_<<depth, [p \in Processes |->
         [fd \in FileFds |-> Open_(fda[p][fd])]], result>>
  BY RefinementStep DEF Table
<1> QED BY <1>1, <1>2, <1>3, RefinementInit, PTL DEF Spec, TablesSpec, Tables!Spec
=============================================================================
