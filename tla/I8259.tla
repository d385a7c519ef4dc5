------------------------------- MODULE I8259 -------------------------------
(***************************************************************************)
(* The pair of interrupt controllers and the functions of FuzzyOS that     *)
(* command them (i8259.c).  A controller state is a record of three sets   *)
(* of IRQ numbers: irr, requested and not yet taken; isr, in service; imr, *)
(* masked.  IRQ 2 of the master stands for the slave, which has 8 to 15.   *)
(***************************************************************************)
EXTENDS Naturals

NUM_PIC_PORTS == 8
IRQs          == 0 .. 15
Cascade       == 2

i8259_init(p) == [irr |-> {}, isr |-> {}, imr |-> IRQs]

(* Wrong on purpose: the line of the slave is taken for one of the master. *)
enable_irqMaster(p, n) == [p EXCEPT !.imr = @ \ {n % NUM_PIC_PORTS}]

enable_irq(p, n) == [p EXCEPT !.imr = @ \ {n}]

disable_irq(p, n) == [p EXCEPT !.imr = @ \cup {n}]

(* The requests that an IRQ of the slave takes up: its own and that of the *)
(* slave at the master.                                                    *)
Chain(n) == IF n >= NUM_PIC_PORTS THEN {n, Cascade} ELSE {n}

(* Wrong on purpose: the master is not told of an IRQ of the slave.        *)
send_eoiSlaveOnly(p, n) == [p EXCEPT !.isr = @ \ {n}]

(* A specific EOI, to both controllers for an IRQ of the slave.            *)
send_eoi(p, n) == [p EXCEPT !.isr = @ \ Chain(n)]

-----------------------------------------------------------------------------
(* What the controllers do by themselves: fully nested, a lower number has *)
(* the higher priority.                                                    *)

Request(p, n) == [p EXCEPT !.irr = @ \cup {n}]

SamePic(m, n) == m >= NUM_PIC_PORTS <=> n >= NUM_PIC_PORTS

(* n reaches the processor: it and its chain are not masked, and nothing   *)
(* of the same or a higher priority is in service at its controllers.      *)
Deliverable(p, n) ==
  /\ n \in p.irr
  /\ \A c \in Chain(n) :
       /\ c \notin p.imr
       /\ \A s \in p.isr : SamePic(s, c) => s > c
  /\ \A r \in p.irr \ p.imr : (SamePic(r, n) => r >= n) /\ (~SamePic(r, n) /\ r < n => r > Cascade)

Accept(p, n) == [p EXCEPT !.irr = @ \ {n}, !.isr = @ \cup Chain(n)]
=============================================================================
