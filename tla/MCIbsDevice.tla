---------------------------- MODULE MCIbsDevice ----------------------------
(***************************************************************************)
(* Bounded instances of IbsDevice: one or two threads of a process, small  *)
(* rings, a few interrupts.                                                *)
(***************************************************************************)
EXTENDS IbsDevice
=============================================================================
