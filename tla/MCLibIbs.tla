------------------------------ MODULE MCLibIbs ------------------------------
(***************************************************************************)
(* Bounded instances of LibIbs: a CPU or two, devices that hold two        *)
(* samples.                                                                *)
(***************************************************************************)
EXTENDS LibIbs
=============================================================================
