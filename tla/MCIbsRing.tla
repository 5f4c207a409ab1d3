----------------------------- MODULE MCIbsRing -----------------------------
(***************************************************************************)
(* Bounded instances of IbsRing.  Capacity 1 never stores a record, 2      *)
(* stores one at a time, 3 and 4 wrap within MaxEvents interrupts.         *)
(***************************************************************************)
EXTENDS IbsRing
=============================================================================
