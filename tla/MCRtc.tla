------------------------------- MODULE MCRtc -------------------------------
(* Rtc for TLC: frequencies that need two interrupts, that are over the    *)
(* limit, refused, and zero.  The status of an exception is given the      *)
(* value of another result, which keeps the instance small: only -1        *)
(* matters.                                                                *)
EXTENDS Rtc

MCFreqs == {256, 2048, 3, 0}
MCOtherResults == {-1}
=============================================================================
