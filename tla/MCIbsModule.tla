---------------------------- MODULE MCIbsModule ----------------------------
(***************************************************************************)
(* Bounded instances of IbsModule: one core with two SMT threads and one   *)
(* with a single thread, a few hotplug transitions, one open file.         *)
(***************************************************************************)
EXTENDS IbsModule
=============================================================================
