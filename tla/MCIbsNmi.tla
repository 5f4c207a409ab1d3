------------------------------ MODULE MCIbsNmi ------------------------------
(***************************************************************************)
(* Instances of IbsNmi: the flavors in use and the calls made on them.     *)
(* The state space is finite as it is.                                     *)
(***************************************************************************)
EXTENDS IbsNmi
=============================================================================
