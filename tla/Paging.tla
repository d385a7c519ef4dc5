------------------------------- MODULE Paging -------------------------------
(***************************************************************************)
(* The page directory and the one page table of FuzzyOS (paging.c), as far *)
(* as video memory goes.  A paging structure is a record: pd, the          *)
(* directory entries, and pt, the entries of video_page_table.  An entry   *)
(* is what it refers to and whether user mode may use it (US).  The same   *)
(* table serves the first 4 MB and, from the first switch on, the 4 MB     *)
(* above the programs.                                                     *)
(***************************************************************************)
EXTENDS Integers

CONSTANT NumTerminals    \* NUM_TERMINALS

ASSUME NumTerminalsAssumption == NumTerminals \in Nat \ {0}

Terminals == 0 .. NumTerminals - 1

(* The video memory that is on the screen; the others belong to terminals. *)
(* The code uses 3, one more than the last terminal, in the same way.      *)
VIDEO    == NumTerminals
Memories == 0 .. NumTerminals

(* Slots of the directory: the first 4 MB, the kernel, the programs and    *)
(* the 4 MB above them.  Slots of the table: the first page, and one page  *)
(* for each memory.                                                        *)
Slots     == {"low", "kernel", "user", "above"}
FirstPage == NumTerminals + 1
Pages     == 0 .. NumTerminals + 1

NotPresent == [to |-> "none", us |-> FALSE]
TheTable(us) == [to |-> "table", us |-> us]
Page(m, us) == [to |-> m, us |-> us]
Absent == Page(-1, FALSE)

(* Wrong on purpose: for user mode too.                                    *)
MapTerminalVidmemUser(p, t) ==
  [pd |-> [p.pd EXCEPT !["low"] = TheTable(TRUE)],
   pt |-> [p.pt EXCEPT ![t] = Page(t, TRUE)]]

(* map_terminal_vidmem: for the kernel only.                               *)
MapTerminalVidmem(p, t) ==
  [pd |-> [p.pd EXCEPT !["low"] = TheTable(FALSE)],
   pt |-> [p.pt EXCEPT ![t] = Page(t, FALSE)]]

(* map_virtual_addr_to_physical_4kb_page, at the end of the user memory:   *)
(* the index of that address in the table is that of the first page.       *)
Map4kbPage(p, m) ==
  [pd |-> [p.pd EXCEPT !["above"] = TheTable(TRUE)],
   pt |-> [p.pt EXCEPT ![FirstPage] = Page(m, TRUE)]]

(* init_paging.                                                            *)
Cleared ==
  [pd |-> [[s \in Slots |-> NotPresent] EXCEPT !["low"] = TheTable(FALSE),
                                               !["kernel"] = [to |-> "kernel", us |-> FALSE]],
   pt |-> [g \in Pages |-> IF g = VIDEO THEN Page(VIDEO, FALSE) ELSE Absent]]

MapAll[t \in 0 .. NumTerminals] ==
  IF t = 0 THEN Cleared ELSE MapTerminalVidmem(MapAll[t - 1], t - 1)

InitPaging == MapAll[NumTerminals]

(* What the processor finds in a page of the 4 MB of slot s: both levels   *)
(* have to allow user mode.                                                *)
Reaches(p, s, user) ==
  {m \in Memories : \E g \in Pages :
     /\ p.pd[s].to = "table" /\ p.pt[g].to = m
     /\ user => p.pd[s].us /\ p.pt[g].us}
=============================================================================
