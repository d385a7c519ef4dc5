--------------------------- MODULE MCDescriptors ---------------------------
(* A small image: a file of three blocks that lie out of order, a short    *)
(* program of two, the RTC and the directory itself.                       *)
EXTENDS Descriptors

MCDentries == << [name |-> ".",     type |-> Directory, inode |-> 0],
                 [name |-> "shell", type |-> File,      inode |-> 1],
                 [name |-> "rtc",   type |-> Device,    inode |-> 0],
                 [name |-> "text",  type |-> File,      inode |-> 2] >>

MCInodes == [n \in 0 .. 2 |->
               CASE n = 0 -> [length |-> 0, blocks |-> <<>>]
                 [] n = 1 -> [length |-> 6, blocks |-> <<3, 1>>]
                 [] n = 2 -> [length |-> 9, blocks |-> <<2, 5, 4>>]]

(* It is an image as the theorems about descriptors ask for.               *)
ASSUME ImageAssumption == ReadableImage /\ DistinctNames

(* Lengths below and above the size of a block, and one that is no length. *)
MCChunks == {-1, 1, 3, 16}
=============================================================================
