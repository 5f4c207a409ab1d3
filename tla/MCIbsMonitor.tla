---------------------------- MODULE MCIbsMonitor ----------------------------
(***************************************************************************)
(* Bounded instance of IbsMonitor.                                         *)
(***************************************************************************)
EXTENDS IbsMonitor
=============================================================================
