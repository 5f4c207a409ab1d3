---------------------------- MODULE LibIbsProofs ----------------------------
(***************************************************************************)
(* Proofs about LibIbs for any number of CPUs, every choice of flavors,    *)
(* buffer and poll sizes, and an application that calls the library in any *)
(* order.                                                                  *)
(***************************************************************************)
EXTENDS LibIbs, WellFoundedInduction, TLAPS

\* Types of the tables, of the loops and of the driver's side.
LibTypeOK ==
  /\ list \subseteq Cpus
  /\ flag \subseteq Devs /\ todo \subseteq Devs
  /\ open \in [Procs -> SUBSET Devs]
  /\ avail \in [Devs -> Nat]
  /\ tot \in Nat /\ want \in Nat

\* Which process runs: a daemon has left the calls of the application behind,
\* and the tables are valid in every call that uses them.
ControlInv ==
  /\ "daemon" \in up => at \notin {"idle", "open", "undo", "free", "exited"}
  /\ at \in {"start", "handlers", "test", "exit"} => "daemon" \in up
  /\ known \/ sent \/ "main" \notin up => "daemon" \in up \/ at = "exited"
  /\ at \in {"open", "undo"} => ~inited
  /\ at \notin {"idle", "open", "undo", "exited"} => inited
  /\ at = "disable" => after \in {"idle", "free", "exit"}
  /\ at = "disable" /\ after = "exit" => "daemon" \in up
  /\ at = "disable" /\ "daemon" \in up => after = "exit"
  /\ ~inited /\ at \notin {"open", "undo", "exited"} => fds = {}

\* What the flags promise: a flagged device is on a listed CPU or on one that
\* was delisted; a loop that disables everything before the tables go visits
\* all flagged devices of listed CPUs, the one after a failure of the daemon's
\* ibs_enable_all included, because CPUs are enabled in ascending order.
FlagInv ==
  /\ ~inited \/ at = "start" => flag = {}
  /\ \A d \in flag : d \in Listed \/ Cpu(d) \in delisted
  /\ at = "enable" => todo \subseteq Listed
  /\ at = "enable" /\ "daemon" \in up =>
       scope = Devs /\ \A e \in flag, t \in todo : e < t
  /\ at = "disable" /\ after \in {"free", "exit"} => flag \cap Listed \subseteq todo
  /\ at \in {"free", "exit"} => flag \cap Listed = {}

\* A count is pending only between FIONREAD and the read.
ReadInv ==
  /\ at \notin {"read", "exited"} => want = 0
  /\ at = "read" => todo # {}

\* The inductive invariant.
LibInv ==
  /\ LibTypeOK
  /\ ControlInv
  /\ FlagInv
  /\ ReadInv
  /\ NoOrphanSampling
  /\ DescriptorsKnown
  /\ WithinMaxSamples
  /\ ReadIsFull

-----------------------------------------------------------------------------
(* Facts about the operators of the model.                                 *)

\* The natural numbers are well ordered.
LEMMA LeastElement ==
  ASSUME NEW T, T \subseteq Nat, T # {}
  PROVE  \E x \in T : \A y \in T : x <= y
  <1>1. \E R : /\ IsWellFoundedOn(R, Nat)
               /\ \A x, y \in Nat : <<y, x>> \in R <=> y < x
    <2>1. \A x, y \in Nat : <<y, x>> \in OpToRel(<, Nat) <=> y < x
      BY DEF OpToRel
    <2> QED BY <2>1, NatLessThanWellFounded
  <1>2. PICK R : /\ IsWellFoundedOn(R, Nat)
                 /\ \A x, y \in Nat : <<y, x>> \in R <=> y < x
    BY <1>1
  <1>3. PICK x \in T : \A y \in T : ~ (<<y, x>> \in R)
    BY <1>2, WFMin
  <1>4. ASSUME NEW y \in T
        PROVE  x <= y
    <2>1. x \in Nat /\ y \in Nat
      OBVIOUS
    <2>2. ~(y < x)
      BY <1>2, <1>3, <2>1
    <2> QED BY <2>1, <2>2
  <1> QED BY <1>4

\* Devices are numbered from 0.
LEMMA DevsNat == Devs \subseteq Nat
  BY LibAssumption DEF Devs

\* The loops over devices visit them in ascending order.
LEMMA MinTodo ==
  ASSUME todo \subseteq Devs, todo # {}
  PROVE  /\ Min(todo) \in todo /\ Min(todo) \in Devs /\ Min(todo) \in Nat
         /\ \A t \in todo : t \in Nat /\ Min(todo) <= t
         /\ \A t \in todo \ {Min(todo)} : Min(todo) < t
  <1>1. todo \subseteq Nat
    BY DevsNat
  <1>2. \E x \in todo : \A y \in todo : x <= y
    BY <1>1, LeastElement
  <1>3. Min(todo) \in todo /\ \A y \in todo : Min(todo) <= y
    BY <1>2 DEF Min
  <1>4. ASSUME NEW t \in todo, t # Min(todo)
        PROVE  Min(todo) < t
    <2>1. Min(todo) \in Nat /\ t \in Nat /\ Min(todo) <= t
      BY <1>1, <1>3
    <2> QED BY <1>4, <2>1
  <1>5. Min(todo) \in Nat /\ Min(todo) \in Devs /\ \A t \in todo : t \in Nat
    BY <1>1, <1>3
  <1> QED BY <1>3, <1>4, <1>5

\* The CPU of a device grows with the device's number.
LEMMA CpuMonotone ==
  ASSUME NEW d \in Nat, NEW e \in Nat, e <= d
  PROVE  Cpu(e) <= Cpu(d)
  BY DEF Cpu

-----------------------------------------------------------------------------
(* Every action preserves the invariant.                                   *)

\* ibs_initialize starts from empty tables.
LEMMA InitStartInv ==
  ASSUME LibInv, NEW dmn \in BOOLEAN, InitStart(dmn)
  PROVE  LibInv'
  BY DEF LibInv, InitStart, MainCalls, Wanted, LibTypeOK, ControlInv,
         FlagInv, ReadInv, NoOrphanSampling, DescriptorsKnown,
         WithinMaxSamples, ReadIsFull, Listed, Procs, optVars, loopVars,
         readVars, toolVars, procVars, histVars

LEMMA OpenDevInv ==
  ASSUME LibInv, OpenDev
  PROVE  LibInv'
  <1>0. /\ Min(todo) \in todo /\ Min(todo) \in Devs /\ Min(todo) \in Nat
        /\ \A t \in todo : t \in Nat /\ Min(todo) <= t
        /\ \A t \in todo \ {Min(todo)} : Min(todo) < t
    BY MinTodo DEF LibInv, LibTypeOK, ReadInv, OpenDev
  <1>1. LibTypeOK'
    BY <1>0
       DEF LibInv, OpenDev, LibTypeOK, Procs, optVars, loopVars, readVars,
           toolVars, procVars, histVars
  <1>2. ControlInv'
    BY <1>0
       DEF LibInv, OpenDev, ControlInv, optVars, loopVars, readVars,
           toolVars, procVars, histVars
  <1>3. FlagInv'
    BY <1>0
       DEF LibInv, OpenDev, LibTypeOK, ControlInv, FlagInv, Listed, optVars,
           loopVars, readVars, toolVars, procVars, histVars
  <1>4. NoOrphanSampling'
    BY <1>0
       DEF LibInv, OpenDev, LibTypeOK, ControlInv, FlagInv, Listed,
           NoOrphanSampling, optVars, loopVars, readVars, toolVars, procVars,
           histVars
  <1>5. DescriptorsKnown'
    BY <1>0
       DEF LibInv, OpenDev, LibTypeOK, ControlInv, DescriptorsKnown, Procs,
           optVars, loopVars, readVars, toolVars, procVars, histVars
  <1>6. ReadInv' /\ WithinMaxSamples' /\ ReadIsFull'
    BY <1>0
       DEF LibInv, OpenDev, LibTypeOK, ReadInv, WithinMaxSamples, ReadIsFull,
           optVars, loopVars, readVars, toolVars, procVars, histVars
  <1> QED BY <1>1, <1>2, <1>3, <1>4, <1>5, <1>6 DEF LibInv

\* The error path closes what was opened.
LEMMA UndoOpenInv ==
  ASSUME LibInv, UndoOpen
  PROVE  LibInv'
  BY DEF LibInv, UndoOpen, Go, CloseFds, LibTypeOK, ControlInv, FlagInv,
         ReadInv, NoOrphanSampling, DescriptorsKnown, WithinMaxSamples,
         ReadIsFull, Listed, Procs, optVars, loopVars, readVars, toolVars,
         procVars, histVars

\* The daemon inherits the descriptors.
LEMMA InitDoneInv ==
  ASSUME LibInv, InitDone
  PROVE  LibInv'
  BY DEF LibInv, InitDone, Forks, LibTypeOK, ControlInv, FlagInv, ReadInv,
         NoOrphanSampling, DescriptorsKnown, WithinMaxSamples, ReadIsFull,
         Listed, Procs, optVars, loopVars, readVars, toolVars, procVars,
         histVars

\* A CPU taken off the list while a device of it is enabled is remembered.
LEMMA SetOptionInv ==
  ASSUME LibInv, SetOption
  PROVE  LibInv'
  BY DEF LibInv, SetOption, MainCalls, Forked, LibTypeOK, ControlInv,
         FlagInv, ReadInv, NoOrphanSampling, DescriptorsKnown,
         WithinMaxSamples, ReadIsFull, Listed, Procs, optVars, loopVars,
         readVars, toolVars, procVars, histVars

LEMMA EnableCallInv ==
  ASSUME LibInv, NEW S \in SUBSET Devs, EnableCall(S)
  PROVE  LibInv'
  BY DEF LibInv, EnableCall, AppCalls, MainCalls, Forked, StartEnable,
         LibTypeOK, ControlInv, FlagInv, ReadInv, NoOrphanSampling,
         DescriptorsKnown, WithinMaxSamples, ReadIsFull, Listed, Procs,
         optVars, loopVars, readVars, toolVars, procVars, histVars

LEMMA DisableCallInv ==
  ASSUME LibInv, NEW S \in SUBSET Devs, DisableCall(S)
  PROVE  LibInv'
  BY DEF LibInv, DisableCall, AppCalls, MainCalls, Forked, StartDisable,
         LibTypeOK, ControlInv, FlagInv, ReadInv, NoOrphanSampling,
         DescriptorsKnown, WithinMaxSamples, ReadIsFull, Listed, Procs,
         optVars, loopVars, readVars, toolVars, procVars, histVars

\* Devices are enabled in ascending order.
LEMMA EnableDevInv ==
  ASSUME LibInv, EnableDev
  PROVE  LibInv'
  <1>0. /\ Min(todo) \in todo /\ Min(todo) \in Devs /\ Min(todo) \in Nat
        /\ \A t \in todo : t \in Nat /\ Min(todo) <= t
        /\ \A t \in todo \ {Min(todo)} : Min(todo) < t
    BY MinTodo DEF LibInv, LibTypeOK, ReadInv, EnableDev
  <1>1. LibTypeOK'
    BY <1>0
       DEF LibInv, EnableDev, LibTypeOK, Procs, optVars, loopVars, readVars,
           toolVars, procVars, histVars
  <1>2. ControlInv'
    BY <1>0
       DEF LibInv, EnableDev, ControlInv, optVars, loopVars, readVars,
           toolVars, procVars, histVars
  <1>3. FlagInv'
    BY <1>0
       DEF LibInv, EnableDev, LibTypeOK, ControlInv, FlagInv, Listed,
           optVars, loopVars, readVars, toolVars, procVars, histVars
  <1>4. NoOrphanSampling'
    BY <1>0
       DEF LibInv, EnableDev, LibTypeOK, ControlInv, FlagInv, Listed,
           NoOrphanSampling, optVars, loopVars, readVars, toolVars, procVars,
           histVars
  <1>5. DescriptorsKnown'
    BY <1>0
       DEF LibInv, EnableDev, LibTypeOK, ControlInv, DescriptorsKnown, Procs,
           optVars, loopVars, readVars, toolVars, procVars, histVars
  <1>6. ReadInv' /\ WithinMaxSamples' /\ ReadIsFull'
    BY <1>0
       DEF LibInv, EnableDev, LibTypeOK, ReadInv, WithinMaxSamples,
           ReadIsFull, optVars, loopVars, readVars, toolVars, procVars,
           histVars
  <1> QED BY <1>1, <1>2, <1>3, <1>4, <1>5, <1>6 DEF LibInv

\* A failed ibs_enable_all disables every device it enabled.
LEMMA EnableFailsInv ==
  ASSUME LibInv, EnableFails
  PROVE  LibInv'
  <1>0. /\ Min(todo) \in todo /\ Min(todo) \in Devs /\ Min(todo) \in Nat
        /\ \A t \in todo : t \in Nat /\ Min(todo) <= t
        /\ \A t \in todo \ {Min(todo)} : Min(todo) < t
    BY MinTodo DEF LibInv, LibTypeOK, ReadInv, EnableFails
  <1>1. LibTypeOK'
    BY <1>0
       DEF LibInv, EnableFails, StartDisable, UpTo, LibTypeOK, Procs,
           optVars, loopVars, readVars, toolVars, procVars, histVars
  <1>2. ControlInv'
    BY <1>0
       DEF LibInv, EnableFails, StartDisable, UpTo, ControlInv, optVars,
           loopVars, readVars, toolVars, procVars, histVars
  <1>3. FlagInv'
    BY <1>0, CpuMonotone, DevsNat
       DEF LibInv, EnableFails, StartDisable, UpTo, LibTypeOK, ControlInv,
           FlagInv, Listed, optVars, loopVars, readVars, toolVars, procVars,
           histVars
  <1>4. NoOrphanSampling'
    BY <1>0
       DEF LibInv, EnableFails, StartDisable, UpTo, LibTypeOK, ControlInv,
           FlagInv, Listed, NoOrphanSampling, optVars, loopVars, readVars,
           toolVars, procVars, histVars
  <1>5. DescriptorsKnown'
    BY <1>0
       DEF LibInv, EnableFails, StartDisable, UpTo, LibTypeOK, ControlInv,
           DescriptorsKnown, Procs, optVars, loopVars, readVars, toolVars,
           procVars, histVars
  <1>6. ReadInv' /\ WithinMaxSamples' /\ ReadIsFull'
    BY <1>0
       DEF LibInv, EnableFails, StartDisable, UpTo, LibTypeOK, ReadInv,
           WithinMaxSamples, ReadIsFull, optVars, loopVars, readVars,
           toolVars, procVars, histVars
  <1> QED BY <1>1, <1>2, <1>3, <1>4, <1>5, <1>6 DEF LibInv

LEMMA EnableEndInv ==
  ASSUME LibInv, EnableEnd
  PROVE  LibInv'
  BY DEF LibInv, EnableEnd, LibTypeOK, ControlInv, FlagInv, ReadInv,
         NoOrphanSampling, DescriptorsKnown, WithinMaxSamples, ReadIsFull,
         Listed, Procs, optVars, loopVars, readVars, toolVars, procVars,
         histVars

LEMMA DisableDevInv ==
  ASSUME LibInv, DisableDev
  PROVE  LibInv'
  <1>0. /\ Min(todo) \in todo /\ Min(todo) \in Devs /\ Min(todo) \in Nat
        /\ \A t \in todo : t \in Nat /\ Min(todo) <= t
        /\ \A t \in todo \ {Min(todo)} : Min(todo) < t
    BY MinTodo DEF LibInv, LibTypeOK, ReadInv, DisableDev
  <1>1. LibTypeOK'
    BY <1>0
       DEF LibInv, DisableDev, LibTypeOK, Procs, optVars, loopVars, readVars,
           toolVars, procVars, histVars
  <1>2. ControlInv'
    BY <1>0
       DEF LibInv, DisableDev, ControlInv, optVars, loopVars, readVars,
           toolVars, procVars, histVars
  <1>3. FlagInv'
    BY <1>0
       DEF LibInv, DisableDev, LibTypeOK, ControlInv, FlagInv, Listed,
           optVars, loopVars, readVars, toolVars, procVars, histVars
  <1>4. NoOrphanSampling'
    BY <1>0
       DEF LibInv, DisableDev, LibTypeOK, ControlInv, FlagInv, Listed,
           NoOrphanSampling, optVars, loopVars, readVars, toolVars, procVars,
           histVars
  <1>5. DescriptorsKnown'
    BY <1>0
       DEF LibInv, DisableDev, LibTypeOK, ControlInv, DescriptorsKnown,
           Procs, optVars, loopVars, readVars, toolVars, procVars, histVars
  <1>6. ReadInv' /\ WithinMaxSamples' /\ ReadIsFull'
    BY <1>0
       DEF LibInv, DisableDev, LibTypeOK, ReadInv, WithinMaxSamples,
           ReadIsFull, optVars, loopVars, readVars, toolVars, procVars,
           histVars
  <1> QED BY <1>1, <1>2, <1>3, <1>4, <1>5, <1>6 DEF LibInv

LEMMA DisableEndInv ==
  ASSUME LibInv, DisableEnd
  PROVE  LibInv'
  BY DEF LibInv, DisableEnd, ControlInv, LibTypeOK, FlagInv, ReadInv,
         NoOrphanSampling, DescriptorsKnown, WithinMaxSamples, ReadIsFull,
         Listed, Procs, optVars, loopVars, readVars, toolVars, procVars,
         histVars

LEMMA SampleCallInv ==
  ASSUME LibInv, SampleCall
  PROVE  LibInv'
  BY LibAssumption
     DEF LibInv, SampleCall, AppCalls, MainCalls, Forked, StartSample,
         LibTypeOK, ControlInv, FlagInv, ReadInv, NoOrphanSampling,
         DescriptorsKnown, WithinMaxSamples, ReadIsFull, Listed, Procs,
         optVars, loopVars, readVars, toolVars, procVars, histVars

LEMMA SelectInv ==
  ASSUME LibInv, Select
  PROVE  LibInv'
  BY DEF LibInv, Select, GetAll, Bail, Return, Asked, Listed, LibTypeOK,
         ControlInv, FlagInv, ReadInv, NoOrphanSampling, DescriptorsKnown,
         WithinMaxSamples, ReadIsFull, Procs, optVars, loopVars, readVars,
         toolVars, procVars, histVars

\* FIONREAD bounds the read by what is there and by the room that is left.
LEMMA GetDevInv ==
  ASSUME LibInv, GetDev
  PROVE  LibInv'
  <1>0. /\ Min(todo) \in todo /\ Min(todo) \in Devs /\ Min(todo) \in Nat
        /\ \A t \in todo : t \in Nat /\ Min(todo) <= t
        /\ \A t \in todo \ {Min(todo)} : Min(todo) < t
    BY MinTodo DEF LibInv, LibTypeOK, ReadInv, GetDev
  <1>1. LibTypeOK'
    BY <1>0, LibAssumption
       DEF LibInv, GetDev, LibTypeOK, Procs, ToRead, WithinMaxSamples,
           Enough, optVars, loopVars, readVars, toolVars, procVars, histVars
  <1>2. ControlInv'
    BY <1>0
       DEF LibInv, GetDev, ControlInv, optVars, loopVars, readVars, toolVars,
           procVars, histVars
  <1>3. FlagInv'
    BY <1>0
       DEF LibInv, GetDev, LibTypeOK, ControlInv, FlagInv, Listed, optVars,
           loopVars, readVars, toolVars, procVars, histVars
  <1>4. NoOrphanSampling'
    BY <1>0
       DEF LibInv, GetDev, LibTypeOK, ControlInv, FlagInv, Listed,
           NoOrphanSampling, optVars, loopVars, readVars, toolVars, procVars,
           histVars
  <1>5. DescriptorsKnown'
    BY <1>0
       DEF LibInv, GetDev, LibTypeOK, ControlInv, DescriptorsKnown, Procs,
           optVars, loopVars, readVars, toolVars, procVars, histVars
  <1>6. ReadInv' /\ WithinMaxSamples' /\ ReadIsFull'
    BY <1>0, LibAssumption
       DEF LibInv, GetDev, LibTypeOK, ReadInv, WithinMaxSamples, ReadIsFull,
           ToRead, optVars, loopVars, readVars, toolVars, procVars, histVars
  <1> QED BY <1>1, <1>2, <1>3, <1>4, <1>5, <1>6 DEF LibInv

LEMMA ReadDevInv ==
  ASSUME LibInv, ReadDev
  PROVE  LibInv'
  <1>0. /\ Min(todo) \in todo /\ Min(todo) \in Devs /\ Min(todo) \in Nat
        /\ \A t \in todo : t \in Nat /\ Min(todo) <= t
        /\ \A t \in todo \ {Min(todo)} : Min(todo) < t
    BY MinTodo DEF LibInv, LibTypeOK, ReadInv, ReadDev
  <1>1. LibTypeOK'
    BY <1>0
       DEF LibInv, ReadDev, Return, LibTypeOK, Procs, optVars, loopVars,
           readVars, toolVars, procVars, histVars
  <1>2. ControlInv'
    BY <1>0
       DEF LibInv, ReadDev, Return, ControlInv, optVars, loopVars, readVars,
           toolVars, procVars, histVars
  <1>3. FlagInv'
    BY <1>0
       DEF LibInv, ReadDev, Return, LibTypeOK, ControlInv, FlagInv, Listed,
           optVars, loopVars, readVars, toolVars, procVars, histVars
  <1>4. NoOrphanSampling'
    BY <1>0
       DEF LibInv, ReadDev, Return, LibTypeOK, ControlInv, FlagInv, Listed,
           NoOrphanSampling, optVars, loopVars, readVars, toolVars, procVars,
           histVars
  <1>5. DescriptorsKnown'
    BY <1>0
       DEF LibInv, ReadDev, Return, LibTypeOK, ControlInv, DescriptorsKnown,
           Procs, optVars, loopVars, readVars, toolVars, procVars, histVars
  <1>6. ReadInv' /\ WithinMaxSamples' /\ ReadIsFull'
    BY <1>0
       DEF LibInv, ReadDev, Return, LibTypeOK, ReadInv, WithinMaxSamples,
           ReadIsFull, optVars, loopVars, readVars, toolVars, procVars,
           histVars
  <1> QED BY <1>1, <1>2, <1>3, <1>4, <1>5, <1>6 DEF LibInv

LEMMA SampleEndInv ==
  ASSUME LibInv, SampleEnd
  PROVE  LibInv'
  BY DEF LibInv, SampleEnd, Return, LibTypeOK, ControlInv, FlagInv, ReadInv,
         NoOrphanSampling, DescriptorsKnown, WithinMaxSamples, ReadIsFull,
         Listed, Procs, optVars, loopVars, readVars, toolVars, procVars,
         histVars

LEMMA FinalizeDirectInv ==
  ASSUME LibInv, FinalizeDirect
  PROVE  LibInv'
  BY DEF LibInv, FinalizeDirect, AppCalls, MainCalls, Forked, StartDisable,
         LibTypeOK, ControlInv, FlagInv, ReadInv, NoOrphanSampling,
         DescriptorsKnown, WithinMaxSamples, ReadIsFull, Listed, Procs,
         optVars, loopVars, readVars, toolVars, procVars, histVars

\* Freeing the tables forgets no enabled device of a listed CPU.
LEMMA FreeInv ==
  ASSUME LibInv, Free
  PROVE  LibInv'
  BY DEF LibInv, Free, Go, LibTypeOK, ControlInv, FlagInv, ReadInv,
         NoOrphanSampling, DescriptorsKnown, WithinMaxSamples, ReadIsFull,
         Listed, Procs, optVars, loopVars, readVars, toolVars, procVars,
         histVars

LEMMA StorePidInv ==
  ASSUME LibInv, StorePid
  PROVE  LibInv'
  BY DEF LibInv, StorePid, Forked, LibTypeOK, ControlInv, FlagInv, ReadInv,
         NoOrphanSampling, DescriptorsKnown, WithinMaxSamples, ReadIsFull,
         Listed, Procs, optVars, loopVars, readVars, toolVars, procVars,
         histVars

LEMMA FinalizeDaemonInv ==
  ASSUME LibInv, FinalizeDaemon
  PROVE  LibInv'
  BY DEF LibInv, FinalizeDaemon, LibTypeOK, ControlInv, FlagInv, ReadInv,
         NoOrphanSampling, DescriptorsKnown, WithinMaxSamples, ReadIsFull,
         Listed, Procs, optVars, loopVars, readVars, toolVars, procVars,
         histVars

LEMMA MainExitInv ==
  ASSUME LibInv, MainExit
  PROVE  LibInv'
  BY DEF LibInv, MainExit, MainGone, Forked, CloseFds, LibTypeOK, ControlInv,
         FlagInv, ReadInv, NoOrphanSampling, DescriptorsKnown,
         WithinMaxSamples, ReadIsFull, Listed, Procs, optVars, loopVars,
         readVars, toolVars, procVars, histVars

LEMMA BadExitEarlyInv ==
  ASSUME LibInv, BadExitEarly
  PROVE  LibInv'
  BY DEF LibInv, BadExitEarly, MainGone, Forked, CloseFds, LibTypeOK,
         ControlInv, FlagInv, ReadInv, NoOrphanSampling, DescriptorsKnown,
         WithinMaxSamples, ReadIsFull, Listed, Procs, optVars, loopVars,
         readVars, toolVars, procVars, histVars

LEMMA LaunchChildWorkInv ==
  ASSUME LibInv, LaunchChildWork
  PROVE  LibInv'
  BY DEF LibInv, LaunchChildWork, MainGone, Forked, CloseFds, LibTypeOK,
         ControlInv, FlagInv, ReadInv, NoOrphanSampling, DescriptorsKnown,
         WithinMaxSamples, ReadIsFull, Listed, Procs, optVars, loopVars,
         readVars, toolVars, procVars, histVars

LEMMA WorkExitInv ==
  ASSUME LibInv, WorkExit
  PROVE  LibInv'
  BY DEF LibInv, WorkExit, CloseFds, LibTypeOK, ControlInv, FlagInv, ReadInv,
         NoOrphanSampling, DescriptorsKnown, WithinMaxSamples, ReadIsFull,
         Listed, Procs, optVars, loopVars, readVars, toolVars, procVars,
         histVars

LEMMA DaemonStartInv ==
  ASSUME LibInv, DaemonStart
  PROVE  LibInv'
  BY DEF LibInv, DaemonStart, StartEnable, LibTypeOK, ControlInv, FlagInv,
         ReadInv, NoOrphanSampling, DescriptorsKnown, WithinMaxSamples,
         ReadIsFull, Listed, Procs, optVars, loopVars, readVars, toolVars,
         procVars, histVars

LEMMA DaemonHandlersInv ==
  ASSUME LibInv, DaemonHandlers
  PROVE  LibInv'
  BY DEF LibInv, DaemonHandlers, Go, LibTypeOK, ControlInv, FlagInv, ReadInv,
         NoOrphanSampling, DescriptorsKnown, WithinMaxSamples, ReadIsFull,
         Listed, Procs, optVars, loopVars, readVars, toolVars, procVars,
         histVars

LEMMA DaemonTestInv ==
  ASSUME LibInv, DaemonTest
  PROVE  LibInv'
  BY LibAssumption
     DEF LibInv, DaemonTest, StartDisable, StartSample, LibTypeOK,
         ControlInv, FlagInv, ReadInv, NoOrphanSampling, DescriptorsKnown,
         WithinMaxSamples, ReadIsFull, Listed, Procs, optVars, loopVars,
         readVars, toolVars, procVars, histVars

\* The daemon leaves with every device of a listed CPU disabled.
LEMMA DaemonExitInv ==
  ASSUME LibInv, DaemonExit
  PROVE  LibInv'
  BY DEF LibInv, DaemonExit, DaemonGone, CloseFds, LibTypeOK, ControlInv,
         FlagInv, ReadInv, NoOrphanSampling, DescriptorsKnown,
         WithinMaxSamples, ReadIsFull, Listed, Procs, optVars, loopVars,
         readVars, toolVars, procVars, histVars

LEMMA SignalHandledInv ==
  ASSUME LibInv, SignalHandled
  PROVE  LibInv'
  BY DEF LibInv, SignalHandled, GetAll, Bail, Return, Asked, Listed,
         LibTypeOK, ControlInv, FlagInv, ReadInv, NoOrphanSampling,
         DescriptorsKnown, WithinMaxSamples, ReadIsFull, Procs, optVars,
         loopVars, readVars, toolVars, procVars, histVars

LEMMA SignalKillsInv ==
  ASSUME LibInv, SignalKills
  PROVE  LibInv'
  BY DEF LibInv, SignalKills, DaemonGone, CloseFds, LibTypeOK, ControlInv,
         FlagInv, ReadInv, NoOrphanSampling, DescriptorsKnown,
         WithinMaxSamples, ReadIsFull, Listed, Procs, optVars, loopVars,
         readVars, toolVars, procVars, histVars

LEMMA SampledInv ==
  ASSUME LibInv, NEW d \in Devs, Sampled(d)
  PROVE  LibInv'
  BY DEF LibInv, Sampled, LibTypeOK, ControlInv, FlagInv, ReadInv,
         NoOrphanSampling, DescriptorsKnown, WithinMaxSamples, ReadIsFull,
         Listed, Procs, optVars, loopVars, readVars, toolVars, procVars,
         histVars

-----------------------------------------------------------------------------
(* The theorems.                                                           *)

\* The invariant holds before the first call.
LEMMA LibInvInit == Init => LibInv
  <1> SUFFICES ASSUME Init
               PROVE  LibInv
    OBVIOUS
  <1>1. LibTypeOK
    BY DEF Init, LibTypeOK
  <1>2. ControlInv /\ FlagInv /\ ReadInv
    BY DEF Init, ControlInv, FlagInv, ReadInv, Listed
  <1>3. NoOrphanSampling /\ ReadIsFull
    BY DEF Init, NoOrphanSampling, ReadIsFull
  <1>4. WithinMaxSamples
    BY LibAssumption DEF Init, WithinMaxSamples
  <1>5. DescriptorsKnown
    BY DEF Init, DescriptorsKnown, Procs
  <1> QED BY <1>1, <1>2, <1>3, <1>4, <1>5 DEF LibInv

\* A call's range is a set of devices.
LEMMA RangesAreDevs ==
  ASSUME LibInv, NEW S \in Ranges
  PROVE  S \in SUBSET Devs
  <1>1. ASSUME NEW c \in list
        PROVE  DevsOf(c) \subseteq Devs
    BY LibAssumption DEF DevsOf, Devs, Cpus, LibInv, LibTypeOK
  <1> QED BY <1>1 DEF Ranges

\* Every step of the library, the application, the signal and the driver
\* preserves it.
LEMMA LibInvNext == LibInv /\ [Next]_vars => LibInv'
  <1> SUFFICES ASSUME LibInv, [Next]_vars
               PROVE  LibInv'
    OBVIOUS
  <1>1. CASE Library
    BY <1>1, OpenDevInv, UndoOpenInv, InitDoneInv, EnableDevInv,
       EnableFailsInv, EnableEndInv, DisableDevInv, DisableEndInv, SelectInv,
       GetDevInv, ReadDevInv, SampleEndInv, FreeInv, StorePidInv,
       DaemonStartInv, DaemonHandlersInv, DaemonTestInv, DaemonExitInv
       DEF Library
  <1>2. CASE Signal
    BY <1>2, SignalHandledInv, SignalKillsInv DEF Signal
  <1>3. CASE Application
    <2>1. ASSUME NEW dmn \in BOOLEAN, InitStart(dmn)
          PROVE  LibInv'
      BY <2>1, InitStartInv
    <2>2. CASE (\E dmn \in BOOLEAN : Initialize(dmn)) \/ ToolInitialize
      BY <2>1, <2>2 DEF Initialize, ToolInitialize
    <2>3. ASSUME NEW S \in Ranges, EnableCall(S) \/ DisableCall(S)
          PROVE  LibInv'
      BY <2>3, RangesAreDevs, EnableCallInv, DisableCallInv
    <2> QED BY <1>3, <2>2, <2>3, SetOptionInv, SampleCallInv,
               FinalizeDirectInv, FinalizeDaemonInv, MainExitInv,
               BadExitEarlyInv, LaunchChildWorkInv, WorkExitInv
            DEF Application
  <1>4. ASSUME NEW d \in Devs, Sampled(d)
        PROVE  LibInv'
    BY <1>4, SampledInv
  <1>5. CASE UNCHANGED vars
    BY <1>5 DEF LibInv, LibTypeOK, ControlInv, FlagInv, ReadInv,
       NoOrphanSampling, DescriptorsKnown, WithinMaxSamples, ReadIsFull,
       Listed, vars, optVars, loopVars, readVars, toolVars, procVars, histVars
  <1> QED BY <1>1, <1>2, <1>3, <1>4, <1>5 DEF Next

\* The inductive invariant holds in every state of the library.
THEOREM LibInvariant == Spec => []LibInv
  BY LibInvInit, LibInvNext, PTL DEF Spec

\* For any number of CPUs and every order of calls, failures and signals, no
\* device samples that the library would not disable: in particular a failed
\* ibs_enable_all and a daemon that exits leave nothing enabled behind.
THEOREM NoOrphans == Spec => []NoOrphanSampling
  <1>1. LibInv => NoOrphanSampling
    BY DEF LibInv
  <1> QED BY <1>1, LibInvariant, PTL

\* The process that runs the library holds exactly the descriptors in its
\* tables, whichever open, ioctl or fork of the initialisation failed.
THEOREM DescriptorsAreKnown == Spec => []DescriptorsKnown
  <1>1. LibInv => DescriptorsKnown
    BY DEF LibInv
  <1> QED BY <1>1, LibInvariant, PTL

\* A sampling call never writes past the caller's array, however many samples
\* arrive at however many devices while it runs.
THEOREM BufferSafe == Spec => []WithinMaxSamples
  <1>1. LibInv => WithinMaxSamples
    BY DEF LibInv
  <1> QED BY <1>1, LibInvariant, PTL

\* A read that follows FIONREAD is never short.
THEOREM ReadsFull == Spec => []ReadIsFull
  <1>1. LibInv => ReadIsFull
    BY DEF LibInv
  <1> QED BY <1>1, LibInvariant, PTL
=============================================================================
