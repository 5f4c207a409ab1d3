------------------------- MODULE MCIbsZenWorkaround -------------------------
(***************************************************************************)
(* Bounded instances of IbsZenWorkaround: a core with two SMT siblings,    *)
(* hence four devices, and one, two or three overlapping calls.            *)
(***************************************************************************)
EXTENDS IbsZenWorkaround
=============================================================================
