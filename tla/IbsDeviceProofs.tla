-------------------------- MODULE IbsDeviceProofs --------------------------
(***************************************************************************)
(* Proofs about IbsDevice, for any number of threads and any mix of calls, *)
(* allocation failures included.                                           *)
(***************************************************************************)
EXTENDS IbsDevice, IbsRingProofs, TLAPS

\* Program counters at which a thread owns ctl_lock.
CtlStates ==
  ResetStates \cup {"open_defaults", "rel_disable", "rel_defaults", "rel_unused",
                    "switch", "enable_msr", "disable_ctl", "alloc", "ctl_unlock"}

\* Program counters of ibs_read and ibs_poll, which change nothing but queues.
PassiveStates ==
  {"read_lock", "read_test", "reading", "read_ctl", "read_queue", "read_cond",
   "read_sleep", "poll_data", "poll_ctl", "poll_sleep"}

\* A thread that is opening the device, or closing it and not yet done.
Exclusive(t) ==
  /\ tpc[t] # "idle"
  /\ cmd[t] = "open" \/ (cmd[t] = "release" /\ tpc[t] # "ctl_unlock")

LockInv == \A t \in Threads : tpc[t] \in CtlStates => ctl_lock = t

\* Which call a program counter belongs to.
CallInv ==
  \A t \in Threads :
    /\ tpc[t] \in {"open_lock", "open_defaults"} => cmd[t] = "open"
    /\ tpc[t] \in {"rel_lock", "rel_disable", "rel_defaults", "rel_unused"}
         => cmd[t] = "release"
    /\ tpc[t] \in {"ctl_lock", "switch", "enable_msr", "disable_ctl", "alloc"}
         => cmd[t] \in CtlCmds
    /\ tpc[t] \in PassiveStates => cmd[t] \in {"read", "read_nonblock", "poll"}
    /\ cmd[t] = "SET_OPT" => arg[t] \in Opts
    /\ cmd[t] \in {"SET_POLL_SIZE", "SET_BUFFER_SIZE"} => arg[t] \in Nat

\* The file is open while a call is in progress on it; opening and closing
\* exclude each other and every other call.
FileInv ==
  /\ opened => in_use
  /\ \A t \in Threads : Exclusive(t) => in_use /\ ~opened
  /\ \A t, u \in Threads : Exclusive(t) /\ Exclusive(u) => t = u
  /\ \A t \in Threads :
       tpc[t] # "idle" /\ cmd[t] \notin {"open", "release"} => opened

\* Where a thread knows the device to be off.
OffInv ==
  \A t \in Threads :
    /\ tpc[t] \in ResetStates \cup {"alloc", "rel_unused"} => ~ctl.en
    /\ tpc[t] = "switch" /\ cmd[t] \in SetCmds => ~ctl.en
    /\ tpc[t] \in {"open_lock", "open_defaults", "rel_defaults", "disable_ctl"}
         => ~msr.en

\* The handler runs only while the hardware is enabled.
HandlerInv == npc # "idle" => msr.en

\* The inductive invariant behind HardwareFollowsCtl and ResetIsQuiet.
DevInv ==
  /\ DeviceTypeOK
  /\ HardwareFollowsCtl
  /\ HandlerInv
  /\ LockInv
  /\ CallInv
  /\ FileInv
  /\ OffInv

-----------------------------------------------------------------------------
(* Calls that leave the control state alone.                               *)

\* A step inside ibs_read or ibs_poll that touches neither the registers, the
\* file, ctl_lock nor the handler preserves the invariant.
LEMMA PassiveStepInv ==
  ASSUME DevInv, NEW t \in Threads, NEW l \in PassiveStates,
         NEW m \in PassiveStates \cup {"idle"}, Step(t, l, m),
         UNCHANGED <<npc, ctl, msr, in_use, opened, ctl_lock>>,
         DeviceTypeOK'
  PROVE  DevInv'
  <1>1. HardwareFollowsCtl' /\ HandlerInv'
    BY DEF DevInv, HardwareFollowsCtl, HandlerInv
  <1>2. LockInv' /\ CallInv'
    BY DEF DevInv, DeviceTypeOK, LockInv, CallInv, CtlStates, ResetStates,
           PassiveStates, Step, Goto
  <1>3. FileInv' /\ OffInv'
    BY DEF DevInv, DeviceTypeOK, CallInv, FileInv, OffInv, Exclusive,
           ResetStates, PassiveStates, Step, Goto
  <1> QED BY <1>1, <1>2, <1>3 DEF DevInv

\* Every step of ibs_read and ibs_poll after the call.
LEMMA ReadPollInv ==
  ASSUME DevInv, NEW t \in Threads,
         \/ ReadLock(t) \/ ReadData(t) \/ ReadUnlock(t) \/ ReadNoData(t)
         \/ ReadCtl(t) \/ ReadQueue(t) \/ ReadCond(t) \/ ReadWoken(t)
         \/ ReadSignal(t) \/ PollData(t) \/ PollHangup(t) \/ PollWait(t)
         \/ PollWoken(t) \/ PollTimeout(t)
  PROVE  DevInv'
  <1>1. \E l \in PassiveStates, m \in PassiveStates \cup {"idle"} : Step(t, l, m)
    BY DEF ReadLock, ReadData, ReadUnlock, ReadNoData, ReadCtl, ReadQueue,
           ReadCond, ReadWoken, ReadSignal, PollData, PollHangup, PollWait,
           PollWoken, PollTimeout, PassiveStates
  <1>2. UNCHANGED <<npc, ctlVars, fileVars, ctl_lock>>
    BY DEF ReadLock, ReadData, ReadUnlock, ReadNoData, ReadCtl, ReadQueue,
           ReadCond, ReadWoken, ReadSignal, PollData, PollHangup, PollWait,
           PollWoken, PollTimeout, ReadBegin, ringVars, nmiVars, lockVars
  <1>3. /\ read_lock' \in Threads \cup {None}
        /\ readq' \subseteq Threads /\ pollq' \subseteq Threads
        /\ UNCHANGED <<irq_work, bpc>>
    BY DEF DevInv, DeviceTypeOK, ReadLock, ReadData, ReadUnlock, ReadNoData,
           ReadCtl, ReadQueue, ReadCond, ReadWoken, ReadSignal, PollData,
           PollHangup, PollWait, PollWoken, PollTimeout, waitVars, lockVars
  <1>4. PICK l \in PassiveStates, m \in PassiveStates \cup {"idle"} : Step(t, l, m)
    BY <1>1
  <1>5. DeviceTypeOK'
    BY <1>2, <1>3, <1>4 DEF DevInv, DeviceTypeOK, Step, Goto, PassiveStates,
                            ThreadStates, ctlVars, fileVars
  <1> QED BY <1>2, <1>4, <1>5, PassiveStepInv DEF ctlVars, fileVars

\* Entering a call on the open file.
LEMMA EnterInv ==
  ASSUME DevInv, NEW t \in Threads, Ioctl(t) \/ ReadCall(t) \/ PollCall(t)
  PROVE  DevInv'
  <1>1. opened /\ UNCHANGED <<npc, ctlVars, fileVars, lockVars, readq, irq_work, bpc>>
    BY DEF Ioctl, ReadCall, PollCall, ringVars, nmiVars, waitVars
  <1>2. PICK c \in AllOps \ {"open", "release"}, a \in Nat \cup Opts,
             l \in PassiveStates \cup {"ctl_lock"} :
          /\ Call(t, c, a, l)
          /\ l = "ctl_lock" => c \in CtlCmds
          /\ l # "ctl_lock" => c \in {"read", "read_nonblock", "poll"}
          /\ c = "SET_OPT" => a \in Opts
          /\ c \in {"SET_POLL_SIZE", "SET_BUFFER_SIZE"} => a \in Nat
    <2>1. CASE Ioctl(t)
      BY <2>1, RingAssumption DEF Ioctl, CtlCmds, SetCmds, AllOps, ArgsOf
    <2>2. CASE ReadCall(t)
      <3>1. PICK c \in {"read", "read_nonblock"}, n \in 1 .. capacity :
              Call(t, c, n, "read_lock")
        BY <2>2 DEF ReadCall
      <3> QED BY <3>1 DEF AllOps, PassiveStates
    <2>3. CASE PollCall(t)
      BY <2>3 DEF PollCall, AllOps, PassiveStates
    <2> QED BY <2>1, <2>2, <2>3
  <1>3. pollq' \subseteq Threads
    BY DEF DevInv, DeviceTypeOK, Ioctl, ReadCall, PollCall, waitVars
  <1>4. DeviceTypeOK' /\ HardwareFollowsCtl' /\ HandlerInv'
    BY <1>1, <1>2, <1>3 DEF DevInv, DeviceTypeOK, HardwareFollowsCtl,
       HandlerInv, Call, Goto, PassiveStates, ThreadStates, ctlVars, fileVars,
       lockVars
  <1>5. LockInv' /\ CallInv'
    BY <1>1, <1>2 DEF DevInv, DeviceTypeOK, LockInv, CallInv, CtlStates,
       ResetStates, PassiveStates, Call, Goto, lockVars
  <1>6. FileInv' /\ OffInv'
    BY <1>1, <1>2 DEF DevInv, DeviceTypeOK, FileInv, OffInv, Exclusive,
       ResetStates, PassiveStates, Call, Goto, ctlVars, fileVars
  <1> QED BY <1>4, <1>5, <1>6 DEF DevInv

-----------------------------------------------------------------------------
(* ibs_open, ibs_release, reset_ibs_buffer and the ioctl commands.     *)

LEMMA OpenTakeInv ==
  ASSUME DevInv, NEW t \in Threads, OpenTake(t)
  PROVE  DevInv'
  <1>1. DeviceTypeOK'
    BY DeviceAssumption DEF DevInv, DeviceTypeOK, CallInv, OpenTake, Call,
       Goto, ThreadStates, AllOps, ctlVars, fileVars, waitVars, lockVars
  <1>2. HardwareFollowsCtl' /\ HandlerInv'
    BY DEF DevInv, DeviceTypeOK, HardwareFollowsCtl, HandlerInv, CallInv,
       FileInv, OffInv, SetCmds, CtlCmds, OpenTake, Call, Goto, ringVars,
       nmiVars, ctlVars, fileVars
  <1>3. LockInv' /\ CallInv'
    BY DEF DevInv, DeviceTypeOK, LockInv, CallInv, CtlStates, ResetStates,
       PassiveStates, OpenTake, Call, Goto, lockVars
  <1>4. FileInv'
    BY DEF DevInv, DeviceTypeOK, CallInv, FileInv, Exclusive, CtlCmds,
       SetCmds, OpenTake, Call, Goto, fileVars
  <1>5. OffInv'
    BY DEF DevInv, DeviceTypeOK, HardwareFollowsCtl, LockInv, CallInv,
       FileInv, OffInv, Exclusive, CtlStates, ResetStates, CtlCmds, SetCmds,
       OpenTake, Call, Goto, ctlVars, fileVars
  <1> QED BY <1>1, <1>2, <1>3, <1>4, <1>5 DEF DevInv

LEMMA OpenLockInv ==
  ASSUME DevInv, NEW t \in Threads, OpenLock(t)
  PROVE  DevInv'
  <1>1. DeviceTypeOK'
    BY DeviceAssumption DEF DevInv, DeviceTypeOK, CallInv, OpenLock, Step,
       LockCtl, Goto, ThreadStates, AllOps, ctlVars, fileVars, waitVars,
       lockVars
  <1>2. HardwareFollowsCtl' /\ HandlerInv'
    BY DEF DevInv, DeviceTypeOK, HardwareFollowsCtl, HandlerInv, CallInv,
       FileInv, OffInv, SetCmds, CtlCmds, OpenLock, Step, LockCtl, Goto,
       ringVars, nmiVars, ctlVars, fileVars
  <1>3. LockInv' /\ CallInv'
    BY DeviceAssumption DEF DevInv, DeviceTypeOK, LockInv, CallInv, CtlStates,
       ResetStates, PassiveStates, OpenLock, Step, LockCtl, Goto, lockVars
  <1>4. FileInv'
    BY DEF DevInv, DeviceTypeOK, CallInv, FileInv, Exclusive, CtlCmds,
       SetCmds, OpenLock, Step, LockCtl, Goto, fileVars
  <1>5. OffInv'
    BY DEF DevInv, DeviceTypeOK, HardwareFollowsCtl, LockInv, CallInv,
       FileInv, OffInv, Exclusive, CtlStates, ResetStates, CtlCmds, SetCmds,
       OpenLock, Step, LockCtl, Goto, ctlVars, fileVars
  <1> QED BY <1>1, <1>2, <1>3, <1>4, <1>5 DEF DevInv

LEMMA OpenDefaultsInv ==
  ASSUME DevInv, NEW t \in Threads, OpenDefaults(t)
  PROVE  DevInv'
  <1>1. DeviceTypeOK'
    BY DeviceAssumption DEF DevInv, DeviceTypeOK, CallInv, OpenDefaults, Step,
       SetIbsDefaults, Goto, ThreadStates, AllOps, ctlVars, fileVars,
       waitVars, lockVars
  <1>2. HardwareFollowsCtl' /\ HandlerInv'
    BY DEF DevInv, DeviceTypeOK, HardwareFollowsCtl, HandlerInv, CallInv,
       FileInv, OffInv, SetCmds, CtlCmds, OpenDefaults, Step, SetIbsDefaults,
       Goto, ringVars, nmiVars, ctlVars, fileVars
  <1>3. LockInv' /\ CallInv'
    BY DEF DevInv, DeviceTypeOK, LockInv, CallInv, CtlStates, ResetStates,
       PassiveStates, OpenDefaults, Step, SetIbsDefaults, Goto, lockVars
  <1>4. FileInv'
    BY DEF DevInv, DeviceTypeOK, CallInv, FileInv, Exclusive, CtlCmds,
       SetCmds, OpenDefaults, Step, SetIbsDefaults, Goto, fileVars
  <1>5. OffInv'
    BY DEF DevInv, DeviceTypeOK, HardwareFollowsCtl, LockInv, CallInv,
       FileInv, OffInv, Exclusive, CtlStates, ResetStates, CtlCmds, SetCmds,
       OpenDefaults, Step, SetIbsDefaults, Goto, ctlVars, fileVars
  <1> QED BY <1>1, <1>2, <1>3, <1>4, <1>5 DEF DevInv

LEMMA ReleaseInv ==
  ASSUME DevInv, NEW t \in Threads, Release(t)
  PROVE  DevInv'
  <1>0. /\ tpc' \in [Threads -> ThreadStates]
        /\ cmd' \in [Threads -> AllOps \cup {"none"}]
        /\ arg' \in [Threads -> Nat \cup Opts]
    BY DEF DevInv, DeviceTypeOK, Release, Call, Goto, ThreadStates, AllOps
  <1>1. DeviceTypeOK'
    BY <1>0 DEF DevInv, DeviceTypeOK, Release,
       ctlVars, fileVars, waitVars, lockVars
  <1>2. HardwareFollowsCtl' /\ HandlerInv'
    BY DEF DevInv, DeviceTypeOK, HardwareFollowsCtl, HandlerInv, CallInv,
       FileInv, OffInv, SetCmds, CtlCmds, Release, Call, Goto, ringVars,
       nmiVars, ctlVars, fileVars
  <1>3. LockInv' /\ CallInv'
    BY DEF DevInv, DeviceTypeOK, LockInv, CallInv, CtlStates, ResetStates,
       PassiveStates, Release, Call, Goto, lockVars
  <1>4. FileInv'
    BY DEF DevInv, DeviceTypeOK, CallInv, FileInv, Exclusive, CtlCmds,
       SetCmds, Release, Call, Goto, fileVars
  <1>5. OffInv'
    BY DEF DevInv, DeviceTypeOK, HardwareFollowsCtl, LockInv, CallInv,
       FileInv, OffInv, Exclusive, CtlStates, ResetStates, CtlCmds, SetCmds,
       Release, Call, Goto, ctlVars, fileVars
  <1> QED BY <1>1, <1>2, <1>3, <1>4, <1>5 DEF DevInv

LEMMA ReleaseLockInv ==
  ASSUME DevInv, NEW t \in Threads, ReleaseLock(t)
  PROVE  DevInv'
  <1>1. DeviceTypeOK'
    BY DeviceAssumption DEF DevInv, DeviceTypeOK, CallInv, ReleaseLock, Step,
       LockCtl, Goto, ThreadStates, AllOps, ctlVars, fileVars, waitVars,
       lockVars
  <1>2. HardwareFollowsCtl' /\ HandlerInv'
    BY DEF DevInv, DeviceTypeOK, HardwareFollowsCtl, HandlerInv, CallInv,
       FileInv, OffInv, SetCmds, CtlCmds, ReleaseLock, Step, LockCtl, Goto,
       ringVars, nmiVars, ctlVars, fileVars
  <1>3. LockInv' /\ CallInv'
    BY DeviceAssumption DEF DevInv, DeviceTypeOK, LockInv, CallInv, CtlStates,
       ResetStates, PassiveStates, ReleaseLock, Step, LockCtl, Goto, lockVars
  <1>4. FileInv'
    BY DEF DevInv, DeviceTypeOK, CallInv, FileInv, Exclusive, CtlCmds,
       SetCmds, ReleaseLock, Step, LockCtl, Goto, fileVars
  <1>5. OffInv'
    BY DEF DevInv, DeviceTypeOK, HardwareFollowsCtl, LockInv, CallInv,
       FileInv, OffInv, Exclusive, CtlStates, ResetStates, CtlCmds, SetCmds,
       ReleaseLock, Step, LockCtl, Goto, ctlVars, fileVars
  <1> QED BY <1>1, <1>2, <1>3, <1>4, <1>5 DEF DevInv

LEMMA ReleaseDisableInv ==
  ASSUME DevInv, NEW t \in Threads, ReleaseDisable(t)
  PROVE  DevInv'
  <1>1. DeviceTypeOK'
    BY DeviceAssumption DEF DevInv, DeviceTypeOK, CallInv, ReleaseDisable,
       Step, DisableMsr, MsrZero, Goto, ThreadStates, AllOps, ctlVars,
       fileVars, waitVars, lockVars
  <1>2. HardwareFollowsCtl' /\ HandlerInv'
    BY DEF DevInv, DeviceTypeOK, HardwareFollowsCtl, HandlerInv, CallInv,
       FileInv, OffInv, SetCmds, CtlCmds, ReleaseDisable, Step, DisableMsr,
       MsrZero, Goto, ringVars, nmiVars, ctlVars, fileVars
  <1>3. LockInv' /\ CallInv'
    BY DEF DevInv, DeviceTypeOK, LockInv, CallInv, CtlStates, ResetStates,
       PassiveStates, ReleaseDisable, Step, DisableMsr, MsrZero, Goto,
       lockVars
  <1>4. FileInv'
    BY DEF DevInv, DeviceTypeOK, CallInv, FileInv, Exclusive, CtlCmds,
       SetCmds, ReleaseDisable, Step, DisableMsr, MsrZero, Goto, fileVars
  <1>5. OffInv'
    BY DEF DevInv, DeviceTypeOK, HardwareFollowsCtl, LockInv, CallInv,
       FileInv, OffInv, Exclusive, CtlStates, ResetStates, CtlCmds, SetCmds,
       ReleaseDisable, Step, DisableMsr, MsrZero, Goto, ctlVars, fileVars
  <1> QED BY <1>1, <1>2, <1>3, <1>4, <1>5 DEF DevInv

LEMMA ReleaseDefaultsInv ==
  ASSUME DevInv, NEW t \in Threads, ReleaseDefaults(t)
  PROVE  DevInv'
  <1>1. DeviceTypeOK'
    BY DeviceAssumption DEF DevInv, DeviceTypeOK, CallInv, ReleaseDefaults,
       Step, SetIbsDefaults, Goto, ThreadStates, AllOps, ctlVars, fileVars,
       waitVars, lockVars
  <1>2. HardwareFollowsCtl' /\ HandlerInv'
    BY DEF DevInv, DeviceTypeOK, HardwareFollowsCtl, HandlerInv, CallInv,
       FileInv, OffInv, SetCmds, CtlCmds, ReleaseDefaults, Step,
       SetIbsDefaults, Goto, ringVars, nmiVars, ctlVars, fileVars
  <1>3. LockInv' /\ CallInv'
    BY DEF DevInv, DeviceTypeOK, LockInv, CallInv, CtlStates, ResetStates,
       PassiveStates, ReleaseDefaults, Step, SetIbsDefaults, Goto, lockVars
  <1>4. FileInv'
    BY DEF DevInv, DeviceTypeOK, CallInv, FileInv, Exclusive, CtlCmds,
       SetCmds, ReleaseDefaults, Step, SetIbsDefaults, Goto, fileVars
  <1>5. OffInv'
    BY DEF DevInv, DeviceTypeOK, HardwareFollowsCtl, LockInv, CallInv,
       FileInv, OffInv, Exclusive, CtlStates, ResetStates, CtlCmds, SetCmds,
       ReleaseDefaults, Step, SetIbsDefaults, Goto, ctlVars, fileVars
  <1> QED BY <1>1, <1>2, <1>3, <1>4, <1>5 DEF DevInv

LEMMA ReleaseUnusedInv ==
  ASSUME DevInv, NEW t \in Threads, ReleaseUnused(t)
  PROVE  DevInv'
  <1>0. /\ tpc' \in [Threads -> ThreadStates]
        /\ cmd' \in [Threads -> AllOps \cup {"none"}]
        /\ arg' \in [Threads -> Nat \cup Opts]
    BY DEF DevInv, DeviceTypeOK, ReleaseUnused, Step, Goto, ThreadStates, AllOps
  <1>1. DeviceTypeOK'
    BY <1>0 DEF DevInv, DeviceTypeOK, ReleaseUnused,
       ctlVars, fileVars, waitVars, lockVars
  <1>2. HardwareFollowsCtl' /\ HandlerInv'
    BY DEF DevInv, DeviceTypeOK, HardwareFollowsCtl, HandlerInv, CallInv,
       FileInv, OffInv, SetCmds, CtlCmds, ReleaseUnused, Step, Goto, ringVars,
       nmiVars, ctlVars, fileVars
  <1>3. LockInv' /\ CallInv'
    BY DEF DevInv, DeviceTypeOK, LockInv, CallInv, CtlStates, ResetStates,
       PassiveStates, ReleaseUnused, Step, Goto, lockVars
  <1>4. FileInv'
    BY DEF DevInv, DeviceTypeOK, CallInv, FileInv, Exclusive, CtlCmds,
       SetCmds, ReleaseUnused, Step, Goto, fileVars
  <1>5. OffInv'
    BY DEF DevInv, DeviceTypeOK, HardwareFollowsCtl, LockInv, CallInv,
       FileInv, OffInv, Exclusive, CtlStates, ResetStates, CtlCmds, SetCmds,
       ReleaseUnused, Step, Goto, ctlVars, fileVars
  <1> QED BY <1>1, <1>2, <1>3, <1>4, <1>5 DEF DevInv

LEMMA ResetStepInv ==
  ASSUME DevInv, NEW t \in Threads, ResetStep(t)
  PROVE  DevInv'
  <1>1. DeviceTypeOK'
    BY DeviceAssumption DEF DevInv, DeviceTypeOK, CallInv, ResetStep, ResetWr,
       ResetRd, ResetEntries, ResetLost, Step, Goto, ThreadStates, AllOps,
       ctlVars, fileVars, waitVars, lockVars
  <1>2. HardwareFollowsCtl' /\ HandlerInv'
    BY DEF DevInv, DeviceTypeOK, HardwareFollowsCtl, HandlerInv, CallInv,
       FileInv, OffInv, SetCmds, CtlCmds, ResetStep, ResetWr, ResetRd,
       ResetEntries, ResetLost, Step, Goto, ringVars, nmiVars, ctlVars,
       fileVars
  <1>3. LockInv' /\ CallInv'
    BY DEF DevInv, DeviceTypeOK, LockInv, CallInv, CtlStates, ResetStates,
       PassiveStates, ResetStep, ResetWr, ResetRd, ResetEntries, ResetLost,
       Step, Goto, lockVars
  <1>4. FileInv'
    BY DEF DevInv, DeviceTypeOK, CallInv, FileInv, Exclusive, CtlCmds,
       SetCmds, ResetStep, ResetWr, ResetRd, ResetEntries, ResetLost, Step,
       Goto, fileVars
  <1>5. OffInv'
    BY DEF DevInv, DeviceTypeOK, HardwareFollowsCtl, LockInv, CallInv,
       FileInv, OffInv, Exclusive, CtlStates, ResetStates, CtlCmds, SetCmds,
       ResetStep, ResetWr, ResetRd, ResetEntries, ResetLost, Step, Goto,
       ctlVars, fileVars
  <1> QED BY <1>1, <1>2, <1>3, <1>4, <1>5 DEF DevInv

LEMMA CtlUnlockInv ==
  ASSUME DevInv, NEW t \in Threads, CtlUnlock(t)
  PROVE  DevInv'
  <1>1. DeviceTypeOK'
    BY DeviceAssumption DEF DevInv, DeviceTypeOK, CallInv, CtlUnlock, Step,
       UnlockCtl, Goto, ThreadStates, AllOps, ctlVars, fileVars, waitVars,
       lockVars
  <1>2. HardwareFollowsCtl' /\ HandlerInv'
    BY DEF DevInv, DeviceTypeOK, HardwareFollowsCtl, HandlerInv, CallInv,
       FileInv, OffInv, SetCmds, CtlCmds, CtlUnlock, Step, UnlockCtl, Goto,
       ringVars, nmiVars, ctlVars, fileVars
  <1>3. LockInv' /\ CallInv'
    BY DEF DevInv, DeviceTypeOK, LockInv, CallInv, CtlStates, ResetStates,
       PassiveStates, CtlUnlock, Step, UnlockCtl, Goto, lockVars
  <1>4. FileInv'
    BY DEF DevInv, DeviceTypeOK, CallInv, FileInv, Exclusive, CtlCmds,
       SetCmds, CtlUnlock, Step, UnlockCtl, Goto, fileVars
  <1>5. OffInv'
    BY DEF DevInv, DeviceTypeOK, HardwareFollowsCtl, LockInv, CallInv,
       FileInv, OffInv, Exclusive, CtlStates, ResetStates, CtlCmds, SetCmds,
       CtlUnlock, Step, UnlockCtl, Goto, ctlVars, fileVars
  <1> QED BY <1>1, <1>2, <1>3, <1>4, <1>5 DEF DevInv

LEMMA IoctlBusyInv ==
  ASSUME DevInv, NEW t \in Threads, IoctlBusy(t)
  PROVE  DevInv'
  <1>1. DeviceTypeOK'
    BY DeviceAssumption DEF DevInv, DeviceTypeOK, CallInv, IoctlBusy, Step,
       Goto, ThreadStates, AllOps, ctlVars, fileVars, waitVars, lockVars
  <1>2. HardwareFollowsCtl' /\ HandlerInv'
    BY DEF DevInv, DeviceTypeOK, HardwareFollowsCtl, HandlerInv, CallInv,
       FileInv, OffInv, SetCmds, CtlCmds, IoctlBusy, Step, Goto, ringVars,
       nmiVars, ctlVars, fileVars
  <1>3. LockInv' /\ CallInv'
    BY DEF DevInv, DeviceTypeOK, LockInv, CallInv, CtlStates, ResetStates,
       PassiveStates, IoctlBusy, Step, Goto, lockVars
  <1>4. FileInv'
    BY DEF DevInv, DeviceTypeOK, CallInv, FileInv, Exclusive, CtlCmds,
       SetCmds, IoctlBusy, Step, Goto, fileVars
  <1>5. OffInv'
    BY DEF DevInv, DeviceTypeOK, HardwareFollowsCtl, LockInv, CallInv,
       FileInv, OffInv, Exclusive, CtlStates, ResetStates, CtlCmds, SetCmds,
       IoctlBusy, Step, Goto, ctlVars, fileVars
  <1> QED BY <1>1, <1>2, <1>3, <1>4, <1>5 DEF DevInv

LEMMA IoctlLockInv ==
  ASSUME DevInv, NEW t \in Threads, IoctlLock(t)
  PROVE  DevInv'
  <1>1. DeviceTypeOK'
    BY DeviceAssumption DEF DevInv, DeviceTypeOK, CallInv, IoctlLock, Step,
       LockCtl, Refused, Goto, ThreadStates, AllOps, ctlVars, fileVars,
       waitVars, lockVars
  <1>2. HardwareFollowsCtl' /\ HandlerInv'
    BY DEF DevInv, DeviceTypeOK, HardwareFollowsCtl, HandlerInv, CallInv,
       FileInv, OffInv, SetCmds, CtlCmds, IoctlLock, Step, LockCtl, Refused,
       Goto, ringVars, nmiVars, ctlVars, fileVars
  <1>3. LockInv' /\ CallInv'
    BY DeviceAssumption DEF DevInv, DeviceTypeOK, LockInv, CallInv, CtlStates,
       ResetStates, PassiveStates, IoctlLock, Step, LockCtl, Refused, Goto,
       lockVars
  <1>4. FileInv'
    BY DEF DevInv, DeviceTypeOK, CallInv, FileInv, Exclusive, CtlCmds,
       SetCmds, IoctlLock, Step, LockCtl, Refused, Goto, fileVars
  <1>5. OffInv'
    BY DEF DevInv, DeviceTypeOK, HardwareFollowsCtl, LockInv, CallInv,
       FileInv, OffInv, Exclusive, CtlStates, ResetStates, CtlCmds, SetCmds,
       IoctlLock, Step, LockCtl, Refused, Goto, ctlVars, fileVars
  <1> QED BY <1>1, <1>2, <1>3, <1>4, <1>5 DEF DevInv

LEMMA EnableCtlInv ==
  ASSUME DevInv, NEW t \in Threads, EnableCtl(t)
  PROVE  DevInv'
  <1>0. /\ tpc' \in [Threads -> ThreadStates]
        /\ cmd' \in [Threads -> AllOps \cup {"none"}]
        /\ arg' \in [Threads -> Nat \cup Opts]
    BY DEF DevInv, DeviceTypeOK, EnableCtl, Step, Goto, ThreadStates, AllOps
  <1>1. DeviceTypeOK'
    BY <1>0 DEF DevInv, DeviceTypeOK, EnableCtl,
       ctlVars, fileVars, waitVars, lockVars
  <1>2. HardwareFollowsCtl' /\ HandlerInv'
    BY DEF DevInv, DeviceTypeOK, HardwareFollowsCtl, HandlerInv, CallInv,
       FileInv, OffInv, SetCmds, CtlCmds, EnableCtl, Step, Goto, ringVars,
       nmiVars, ctlVars, fileVars
  <1>3. LockInv' /\ CallInv'
    BY DEF DevInv, DeviceTypeOK, LockInv, CallInv, CtlStates, ResetStates,
       PassiveStates, EnableCtl, Step, Goto, lockVars
  <1>4. FileInv'
    BY DEF DevInv, DeviceTypeOK, CallInv, FileInv, Exclusive, CtlCmds,
       SetCmds, EnableCtl, Step, Goto, fileVars
  <1>5. OffInv'
    BY DEF DevInv, DeviceTypeOK, HardwareFollowsCtl, LockInv, CallInv,
       FileInv, OffInv, Exclusive, CtlStates, ResetStates, CtlCmds, SetCmds,
       EnableCtl, Step, Goto, ctlVars, fileVars
  <1> QED BY <1>1, <1>2, <1>3, <1>4, <1>5 DEF DevInv

LEMMA EnableMsrInv ==
  ASSUME DevInv, NEW t \in Threads, EnableMsr(t)
  PROVE  DevInv'
  <1>1. DeviceTypeOK'
    BY DeviceAssumption DEF DevInv, DeviceTypeOK, CallInv, EnableMsr, Step,
       Goto, ThreadStates, AllOps, ctlVars, fileVars, waitVars, lockVars
  <1>2. HardwareFollowsCtl' /\ HandlerInv'
    BY DEF DevInv, DeviceTypeOK, HardwareFollowsCtl, HandlerInv, CallInv,
       FileInv, OffInv, SetCmds, CtlCmds, EnableMsr, Step, Goto, ringVars,
       nmiVars, ctlVars, fileVars
  <1>3. LockInv' /\ CallInv'
    BY DEF DevInv, DeviceTypeOK, LockInv, CallInv, CtlStates, ResetStates,
       PassiveStates, EnableMsr, Step, Goto, lockVars
  <1>4. FileInv'
    BY DEF DevInv, DeviceTypeOK, CallInv, FileInv, Exclusive, CtlCmds,
       SetCmds, EnableMsr, Step, Goto, fileVars
  <1>5. OffInv'
    BY DEF DevInv, DeviceTypeOK, HardwareFollowsCtl, LockInv, CallInv,
       FileInv, OffInv, Exclusive, CtlStates, ResetStates, CtlCmds, SetCmds,
       EnableMsr, Step, Goto, ctlVars, fileVars
  <1> QED BY <1>1, <1>2, <1>3, <1>4, <1>5 DEF DevInv

LEMMA DisableHwInv ==
  ASSUME DevInv, NEW t \in Threads, DisableHw(t)
  PROVE  DevInv'
  <1>1. DeviceTypeOK'
    BY DeviceAssumption DEF DevInv, DeviceTypeOK, CallInv, DisableHw, Step,
       DisableMsr, MsrZero, Goto, ThreadStates, AllOps, ctlVars, fileVars,
       waitVars, lockVars
  <1>2. HardwareFollowsCtl' /\ HandlerInv'
    BY DEF DevInv, DeviceTypeOK, HardwareFollowsCtl, HandlerInv, CallInv,
       FileInv, OffInv, SetCmds, CtlCmds, DisableHw, Step, DisableMsr,
       MsrZero, Goto, ringVars, nmiVars, ctlVars, fileVars
  <1>3. LockInv' /\ CallInv'
    BY DEF DevInv, DeviceTypeOK, LockInv, CallInv, CtlStates, ResetStates,
       PassiveStates, DisableHw, Step, DisableMsr, MsrZero, Goto, lockVars
  <1>4. FileInv'
    BY DEF DevInv, DeviceTypeOK, CallInv, FileInv, Exclusive, CtlCmds,
       SetCmds, DisableHw, Step, DisableMsr, MsrZero, Goto, fileVars
  <1>5. OffInv'
    BY DEF DevInv, DeviceTypeOK, HardwareFollowsCtl, LockInv, CallInv,
       FileInv, OffInv, Exclusive, CtlStates, ResetStates, CtlCmds, SetCmds,
       DisableHw, Step, DisableMsr, MsrZero, Goto, ctlVars, fileVars
  <1> QED BY <1>1, <1>2, <1>3, <1>4, <1>5 DEF DevInv

LEMMA DisableCtlInv ==
  ASSUME DevInv, NEW t \in Threads, DisableCtl(t)
  PROVE  DevInv'
  <1>0. /\ tpc' \in [Threads -> ThreadStates]
        /\ cmd' \in [Threads -> AllOps \cup {"none"}]
        /\ arg' \in [Threads -> Nat \cup Opts]
    BY DEF DevInv, DeviceTypeOK, DisableCtl, Step, Goto, ThreadStates, AllOps
  <1>1. DeviceTypeOK'
    BY <1>0 DEF DevInv, DeviceTypeOK, DisableCtl,
       ctlVars, fileVars, waitVars, lockVars
  <1>2. HardwareFollowsCtl' /\ HandlerInv'
    BY DEF DevInv, DeviceTypeOK, HardwareFollowsCtl, HandlerInv, CallInv,
       FileInv, OffInv, SetCmds, CtlCmds, DisableCtl, Step, Goto, ringVars,
       nmiVars, ctlVars, fileVars
  <1>3. LockInv' /\ CallInv'
    BY DEF DevInv, DeviceTypeOK, LockInv, CallInv, CtlStates, ResetStates,
       PassiveStates, DisableCtl, Step, Goto, lockVars
  <1>4. FileInv'
    BY DEF DevInv, DeviceTypeOK, CallInv, FileInv, Exclusive, CtlCmds,
       SetCmds, DisableCtl, Step, Goto, fileVars
  <1>5. OffInv'
    BY DEF DevInv, DeviceTypeOK, HardwareFollowsCtl, LockInv, CallInv,
       FileInv, OffInv, Exclusive, CtlStates, ResetStates, CtlCmds, SetCmds,
       DisableCtl, Step, Goto, ctlVars, fileVars
  <1> QED BY <1>1, <1>2, <1>3, <1>4, <1>5 DEF DevInv

LEMMA SetOptInv ==
  ASSUME DevInv, NEW t \in Threads, SetOpt(t)
  PROVE  DevInv'
  <1>1. DeviceTypeOK'
    BY DeviceAssumption DEF DevInv, DeviceTypeOK, CallInv, SetOpt, Step, Goto,
       ThreadStates, AllOps, ctlVars, fileVars, waitVars, lockVars
  <1>2. HardwareFollowsCtl' /\ HandlerInv'
    BY DEF DevInv, DeviceTypeOK, HardwareFollowsCtl, HandlerInv, CallInv,
       FileInv, OffInv, SetCmds, CtlCmds, SetOpt, Step, Goto, ringVars,
       nmiVars, ctlVars, fileVars
  <1>3. LockInv' /\ CallInv'
    BY DEF DevInv, DeviceTypeOK, LockInv, CallInv, CtlStates, ResetStates,
       PassiveStates, SetOpt, Step, Goto, lockVars
  <1>4. FileInv'
    BY DEF DevInv, DeviceTypeOK, CallInv, FileInv, Exclusive, CtlCmds,
       SetCmds, SetOpt, Step, Goto, fileVars
  <1>5. OffInv'
    BY DEF DevInv, DeviceTypeOK, HardwareFollowsCtl, LockInv, CallInv,
       FileInv, OffInv, Exclusive, CtlStates, ResetStates, CtlCmds, SetCmds,
       SetOpt, Step, Goto, ctlVars, fileVars
  <1> QED BY <1>1, <1>2, <1>3, <1>4, <1>5 DEF DevInv

LEMMA SetPollSizeInv ==
  ASSUME DevInv, NEW t \in Threads, SetPollSize(t)
  PROVE  DevInv'
  <1>1. DeviceTypeOK'
    BY DeviceAssumption DEF DevInv, DeviceTypeOK, CallInv, SetPollSize, Step,
       Goto, ThreadStates, AllOps, ctlVars, fileVars, waitVars, lockVars
  <1>2. HardwareFollowsCtl' /\ HandlerInv'
    BY DEF DevInv, DeviceTypeOK, HardwareFollowsCtl, HandlerInv, CallInv,
       FileInv, OffInv, SetCmds, CtlCmds, SetPollSize, Step, Goto, ringVars,
       nmiVars, ctlVars, fileVars
  <1>3. LockInv' /\ CallInv'
    BY DEF DevInv, DeviceTypeOK, LockInv, CallInv, CtlStates, ResetStates,
       PassiveStates, SetPollSize, Step, Goto, lockVars
  <1>4. FileInv'
    BY DEF DevInv, DeviceTypeOK, CallInv, FileInv, Exclusive, CtlCmds,
       SetCmds, SetPollSize, Step, Goto, fileVars
  <1>5. OffInv'
    BY DEF DevInv, DeviceTypeOK, HardwareFollowsCtl, LockInv, CallInv,
       FileInv, OffInv, Exclusive, CtlStates, ResetStates, CtlCmds, SetCmds,
       SetPollSize, Step, Goto, ctlVars, fileVars
  <1> QED BY <1>1, <1>2, <1>3, <1>4, <1>5 DEF DevInv

LEMMA SetBufferSizeInv ==
  ASSUME DevInv, NEW t \in Threads, SetBufferSize(t)
  PROVE  DevInv'
  <1>1. DeviceTypeOK'
    <2>1. /\ allocated' \in BOOLEAN
          /\ \E m \in {"ctl_unlock", "reset_wr", "alloc"} : Step(t, "switch", m)
      BY DEF DevInv, DeviceTypeOK, SetBufferSize
    <2> QED
      BY <2>1 DEF DevInv, DeviceTypeOK, SetBufferSize, Step, Goto, ThreadStates,
                  ctlVars, waitVars, lockVars
  <1>2. HardwareFollowsCtl' /\ HandlerInv'
    BY DEF DevInv, DeviceTypeOK, HardwareFollowsCtl, HandlerInv, CallInv,
       FileInv, OffInv, SetCmds, CtlCmds, SetBufferSize, Step, Goto, ringVars,
       nmiVars, ctlVars, fileVars
  <1>3. LockInv' /\ CallInv'
    BY DEF DevInv, DeviceTypeOK, LockInv, CallInv, CtlStates, ResetStates,
       PassiveStates, SetBufferSize, Step, Goto, lockVars
  <1>4. FileInv'
    BY DEF DevInv, DeviceTypeOK, CallInv, FileInv, Exclusive, CtlCmds,
       SetCmds, SetBufferSize, Step, Goto, fileVars
  <1>5. OffInv'
    BY DEF DevInv, DeviceTypeOK, HardwareFollowsCtl, LockInv, CallInv,
       FileInv, OffInv, Exclusive, CtlStates, ResetStates, CtlCmds, SetCmds,
       SetBufferSize, Step, Goto, ctlVars, fileVars
  <1> QED BY <1>1, <1>2, <1>3, <1>4, <1>5 DEF DevInv

LEMMA SetupBufferInv ==
  ASSUME DevInv, NEW t \in Threads, SetupBuffer(t)
  PROVE  DevInv'
  <1>1. DeviceTypeOK'
    BY DeviceAssumption DEF DevInv, DeviceTypeOK, CallInv, SetupBuffer, Step,
       Goto, ThreadStates, AllOps, ctlVars, fileVars, waitVars, lockVars
  <1>2. HardwareFollowsCtl' /\ HandlerInv'
    BY DEF DevInv, DeviceTypeOK, HardwareFollowsCtl, HandlerInv, CallInv,
       FileInv, OffInv, SetCmds, CtlCmds, SetupBuffer, Step, Goto, ringVars,
       nmiVars, ctlVars, fileVars
  <1>3. LockInv' /\ CallInv'
    BY DEF DevInv, DeviceTypeOK, LockInv, CallInv, CtlStates, ResetStates,
       PassiveStates, SetupBuffer, Step, Goto, lockVars
  <1>4. FileInv'
    BY DEF DevInv, DeviceTypeOK, CallInv, FileInv, Exclusive, CtlCmds,
       SetCmds, SetupBuffer, Step, Goto, fileVars
  <1>5. OffInv'
    BY DEF DevInv, DeviceTypeOK, HardwareFollowsCtl, LockInv, CallInv,
       FileInv, OffInv, Exclusive, CtlStates, ResetStates, CtlCmds, SetCmds,
       SetupBuffer, Step, Goto, ctlVars, fileVars
  <1> QED BY <1>1, <1>2, <1>3, <1>4, <1>5 DEF DevInv

LEMMA SetupBufferFailsInv ==
  ASSUME DevInv, NEW t \in Threads, SetupBufferFails(t)
  PROVE  DevInv'
  <1>1. DeviceTypeOK'
    BY DeviceAssumption DEF DevInv, DeviceTypeOK, CallInv, SetupBufferFails,
       Step, Goto, ThreadStates, AllOps, ctlVars, fileVars, waitVars, lockVars
  <1>2. HardwareFollowsCtl' /\ HandlerInv'
    BY DEF DevInv, DeviceTypeOK, HardwareFollowsCtl, HandlerInv, CallInv,
       FileInv, OffInv, SetCmds, CtlCmds, SetupBufferFails, Step, Goto,
       ringVars, nmiVars, ctlVars, fileVars
  <1>3. LockInv' /\ CallInv'
    BY DEF DevInv, DeviceTypeOK, LockInv, CallInv, CtlStates, ResetStates,
       PassiveStates, SetupBufferFails, Step, Goto, lockVars
  <1>4. FileInv'
    BY DEF DevInv, DeviceTypeOK, CallInv, FileInv, Exclusive, CtlCmds,
       SetCmds, SetupBufferFails, Step, Goto, fileVars
  <1>5. OffInv'
    BY DEF DevInv, DeviceTypeOK, HardwareFollowsCtl, LockInv, CallInv,
       FileInv, OffInv, Exclusive, CtlStates, ResetStates, CtlCmds, SetCmds,
       SetupBufferFails, Step, Goto, ctlVars, fileVars
  <1> QED BY <1>1, <1>2, <1>3, <1>4, <1>5 DEF DevInv

LEMMA ResetBufferInv ==
  ASSUME DevInv, NEW t \in Threads, ResetBuffer(t)
  PROVE  DevInv'
  <1>1. DeviceTypeOK'
    BY DeviceAssumption DEF DevInv, DeviceTypeOK, CallInv, ResetBuffer, Step,
       Goto, ThreadStates, AllOps, ctlVars, fileVars, waitVars, lockVars
  <1>2. HardwareFollowsCtl' /\ HandlerInv'
    BY DEF DevInv, DeviceTypeOK, HardwareFollowsCtl, HandlerInv, CallInv,
       FileInv, OffInv, SetCmds, CtlCmds, ResetBuffer, Step, Goto, ringVars,
       nmiVars, ctlVars, fileVars
  <1>3. LockInv' /\ CallInv'
    BY DEF DevInv, DeviceTypeOK, LockInv, CallInv, CtlStates, ResetStates,
       PassiveStates, ResetBuffer, Step, Goto, lockVars
  <1>4. FileInv'
    BY DEF DevInv, DeviceTypeOK, CallInv, FileInv, Exclusive, CtlCmds,
       SetCmds, ResetBuffer, Step, Goto, fileVars
  <1>5. OffInv'
    BY DEF DevInv, DeviceTypeOK, HardwareFollowsCtl, LockInv, CallInv,
       FileInv, OffInv, Exclusive, CtlStates, ResetStates, CtlCmds, SetCmds,
       ResetBuffer, Step, Goto, ctlVars, fileVars
  <1> QED BY <1>1, <1>2, <1>3, <1>4, <1>5 DEF DevInv

-----------------------------------------------------------------------------
(* The handler, the bottom half and the reader of the ring.                *)

\* The handler starts only when the hardware is enabled and re-arms it with
\* the driver's copy.
LEMMA InterruptInv ==
  ASSUME DevInv, Interrupt
  PROVE  DevInv'
  <1>1. CASE NmiCheck /\ msr.en /\ UNCHANGED devVars
    BY <1>1 DEF DevInv, DeviceTypeOK, HardwareFollowsCtl, HandlerInv, LockInv,
       CallInv, FileInv, OffInv, Exclusive, devVars, ctlVars, fileVars,
       waitVars, thrVars, lockVars
  <1>2. CASE (NmiLost \/ NmiStore \/ NmiSetWr \/ NmiInc) /\ UNCHANGED devVars
    <2>1. npc # "idle" /\ UNCHANGED devVars
      BY <1>2 DEF NmiLost, NmiStore, NmiSetWr, NmiInc
    <2> QED
      BY <2>1 DEF DevInv, DeviceTypeOK, HardwareFollowsCtl, HandlerInv, LockInv,
         CallInv, FileInv, OffInv, Exclusive, devVars, ctlVars, fileVars,
         waitVars, thrVars, lockVars
  <1>3. CASE /\ NmiQueue
             /\ irq_work' = TRUE
             /\ UNCHANGED <<ctlVars, fileVars, readq, pollq, bpc, thrVars, lockVars>>
    BY <1>3 DEF NmiQueue, DevInv, DeviceTypeOK, HardwareFollowsCtl, HandlerInv,
       LockInv, CallInv, FileInv, OffInv, Exclusive, ctlVars, fileVars, thrVars,
       lockVars
  <1>4. CASE /\ NmiOut
             /\ msr' = ctl
             /\ UNCHANGED <<ctl, poll_threshold, fileVars, waitVars, thrVars, lockVars>>
    BY <1>4 DEF NmiOut, DevInv, DeviceTypeOK, HardwareFollowsCtl, HandlerInv,
       LockInv, CallInv, FileInv, OffInv, Exclusive, fileVars, waitVars,
       thrVars, lockVars
  <1> QED BY <1>1, <1>2, <1>3, <1>4 DEF Interrupt

\* The bottom half only empties wait queues.
LEMMA BottomHalfInv ==
  ASSUME DevInv, WakeReaders \/ WakePollers
  PROVE  DevInv'
  <1>1. /\ readq' \subseteq Threads /\ pollq' \subseteq Threads
        /\ irq_work' \in BOOLEAN /\ bpc' \in {"idle", "poll"}
    BY DEF DevInv, DeviceTypeOK, WakeReaders, WakePollers
  <1>2. UNCHANGED <<npc, ctlVars, fileVars, thrVars, lockVars>>
    BY DEF WakeReaders, WakePollers, ringVars, nmiVars
  <1> QED
    BY <1>1, <1>2 DEF DevInv, DeviceTypeOK, HardwareFollowsCtl, HandlerInv,
       LockInv, CallInv, FileInv, OffInv, Exclusive, ctlVars, fileVars, thrVars,
       lockVars

\* Steps of the ring that leave the device's own state and the handler alone.
LEMMA RingStepInv ==
  ASSUME DevInv, UNCHANGED <<npc, devVars>>
  PROVE  DevInv'
  BY DEF DevInv, DeviceTypeOK, HardwareFollowsCtl, HandlerInv, LockInv, CallInv,
     FileInv, OffInv, Exclusive, devVars, ctlVars, fileVars, waitVars, thrVars,
     lockVars

-----------------------------------------------------------------------------
(* The theorems.                                                           *)

\* Before the first open the hardware is off.
LEMMA DevInvInit == Init => DevInv
  <1> SUFFICES ASSUME Init PROVE DevInv
    OBVIOUS
  <1>1. DeviceTypeOK
    <2>1. /\ tpc \in [Threads -> ThreadStates]
          /\ cmd \in [Threads -> AllOps \cup {"none"}]
          /\ arg \in [Threads -> Nat \cup Opts]
      BY DEF Init, ThreadStates
    <2>2. /\ ctl \in [en : BOOLEAN, opt : Opts \cup {None}]
          /\ msr \in [en : BOOLEAN, opt : Opts \cup {None}]
      BY DEF Init, MsrZero
    <2>3. poll_threshold \in Nat
      BY DEF Init
    <2> QED BY <2>1, <2>2, <2>3 DEF Init, DeviceTypeOK
  <1>2. HardwareFollowsCtl /\ HandlerInv
    BY DEF Init, RingInit, MsrZero, HardwareFollowsCtl, HandlerInv
  <1>3. \A t \in Threads : tpc[t] = "idle" /\ cmd[t] = "none"
    BY DEF Init
  <1>4. LockInv /\ CallInv
    BY <1>3 DEF LockInv, CallInv, CtlStates, ResetStates, PassiveStates
  <1>5. FileInv /\ OffInv
    BY <1>3 DEF Init, FileInv, OffInv, Exclusive, ResetStates
  <1> QED BY <1>1, <1>2, <1>4, <1>5 DEF DevInv

\* Every step of the handler, the bottom half and the threads preserves DevInv.
LEMMA DevInvNext == DevInv /\ [Next]_vars => DevInv'
  <1> SUFFICES ASSUME DevInv, [Next]_vars
               PROVE  DevInv'
    OBVIOUS
  <1>1. CASE Interrupt
    BY <1>1, InterruptInv
  <1>2. CASE WakeReaders \/ WakePollers
    BY <1>2, BottomHalfInv
  <1>3. ASSUME NEW t \in Threads, LockStep(t)
        PROVE  DevInv'
    BY <1>3, OpenLockInv, ReleaseLockInv, IoctlBusyInv, IoctlLockInv,
       ReadPollInv DEF LockStep
  <1>4. ASSUME NEW t \in Threads, Reading(t) \/ GetLostCall(t)
        PROVE  DevInv'
    <2>1. UNCHANGED <<npc, devVars>>
      BY <1>4 DEF Reading, GetLostCall, DoIbsRead, ReadRd, ReadWr, ReadEntries,
         CopyStraight, CopyToEnd, CopyFromStart, CopyFault, SetRd, SubEntries,
         GetLost, nmiVars
    <2> QED BY <2>1, RingStepInv
  <1>5. ASSUME NEW t \in Threads, RunStep(t)
        PROVE  DevInv'
    BY <1>4, <1>5, OpenDefaultsInv, ReleaseDisableInv, ReleaseDefaultsInv,
       ReleaseUnusedInv, ResetStepInv, CtlUnlockInv, EnableCtlInv, EnableMsrInv,
       DisableHwInv, DisableCtlInv, SetOptInv, SetPollSizeInv, SetBufferSizeInv,
       SetupBufferInv, SetupBufferFailsInv, ResetBufferInv, ReadPollInv
       DEF RunStep
  <1>6. ASSUME NEW t \in Threads, FreeStep(t)
        PROVE  DevInv'
    BY <1>4, <1>6, OpenTakeInv, ReleaseInv, EnterInv, ReadPollInv DEF FreeStep
  <1>7. CASE UNCHANGED vars
    <2>1. UNCHANGED <<npc, devVars>>
      BY <1>7 DEF vars, ringVars, nmiVars
    <2> QED BY <2>1, RingStepInv
  <1> QED
    BY <1>1, <1>2, <1>3, <1>5, <1>6, <1>7 DEF Next, ThreadStep

\* The inductive invariant holds in every state of the device.
THEOREM DeviceInvariant == Spec => []DevInv
  BY DevInvInit, DevInvNext, PTL DEF Spec

\* The device's own state is typed, allocation failures included.
THEOREM DeviceTypeCorrect == Spec => []DeviceTypeOK
  <1>1. DevInv => DeviceTypeOK
    BY DEF DevInv
  <1> QED BY <1>1, DeviceInvariant, PTL

\* For any number of threads and any order of calls the hardware samples only
\* with what the driver's copy of the control register says.
THEOREM HardwareControlled == Spec => []HardwareFollowsCtl
  <1>1. DevInv => HardwareFollowsCtl
    BY DEF DevInv
  <1> QED BY <1>1, DeviceInvariant, PTL

\* No handler runs or can start while a thread resets or replaces the buffer.
THEOREM ResetsAreQuiet == Spec => []ResetIsQuiet
  <1>1. DevInv => ResetIsQuiet
    <2> SUFFICES ASSUME DevInv, NEW t \in Threads,
                        tpc[t] \in ResetStates \cup {"alloc"}
                 PROVE  npc = "idle" /\ ~msr.en
      BY DEF ResetIsQuiet
    <2>1. ~ctl.en
      BY DEF DevInv, OffInv
    <2> QED BY <2>1 DEF DevInv, HardwareFollowsCtl, HandlerInv
  <1> QED BY <1>1, DeviceInvariant, PTL

-----------------------------------------------------------------------------
(* The poll threshold.                                                     *)

\* The threshold is set by the first open, before the file is usable and
\* before any other call can be in progress, and is never cleared again.
ThresholdInv ==
  /\ opened => poll_threshold # 0
  /\ \A t \in Threads :
       tpc[t] \notin {"idle", "open_lock", "open_defaults"} => poll_threshold # 0

\* A step that leaves a nonzero threshold keeps the invariant.
LEMMA ThresholdNonzero ==
  ASSUME poll_threshold' # 0
  PROVE  ThresholdInv'
BY DEF ThresholdInv

\* Once set, the threshold stays set.
LEMMA ThresholdStays ==
  ASSUME DevInv, Next, poll_threshold # 0
  PROVE  poll_threshold' # 0
<1>1. CASE Interrupt \/ WakeReaders \/ WakePollers
  BY <1>1 DEF Interrupt, WakeReaders, WakePollers, devVars, ctlVars
<1>2. ASSUME NEW t \in Threads, LockStep(t) PROVE poll_threshold' # 0
  BY <1>2 DEF LockStep, OpenLock, ReleaseLock, IoctlBusy, IoctlLock, ReadLock, ReadCtl,
              PollData, PollHangup, PollWait, ctlVars
<1>3. ASSUME NEW t \in Threads, FreeStep(t) PROVE poll_threshold' # 0
  BY <1>3 DEF FreeStep, OpenTake, Release, Ioctl, GetLostCall, ReadCall, PollCall, ReadSignal,
              PollTimeout, devVars, ctlVars
<1>4. ASSUME NEW t \in Threads, RunStep(t) PROVE poll_threshold' # 0
  <2>1. CASE SetPollSize(t)
    <3>1. arg[t] \in Nat
      BY <2>1 DEF SetPollSize, DevInv, CallInv
    <3> QED BY <2>1, <3>1 DEF SetPollSize
  <2>2. CASE OpenDefaults(t) \/ ReleaseDefaults(t)
    BY <2>2 DEF OpenDefaults, ReleaseDefaults, SetIbsDefaults
  <2>3. CASE ReleaseDisable(t) \/ ReleaseUnused(t) \/ ResetStep(t) \/ CtlUnlock(t)
    BY <2>3 DEF ReleaseDisable, ReleaseUnused, ResetStep, ResetWr, ResetRd, ResetEntries,
                ResetLost, CtlUnlock, ctlVars
  <2>4. CASE \/ EnableCtl(t) \/ EnableMsr(t) \/ DisableHw(t) \/ DisableCtl(t) \/ SetOpt(t)
             \/ SetBufferSize(t) \/ ResetBuffer(t) \/ SetupBuffer(t) \/ SetupBufferFails(t)
    BY <2>4 DEF EnableCtl, EnableMsr, DisableHw, DisableCtl, SetOpt, SetBufferSize,
                ResetBuffer, SetupBuffer, SetupBufferFails, ctlVars
  <2>5. CASE \/ ReadData(t) \/ Reading(t) \/ ReadUnlock(t) \/ ReadNoData(t) \/ ReadQueue(t)
             \/ ReadCond(t) \/ ReadWoken(t) \/ PollWoken(t)
    BY <2>5 DEF ReadData, Reading, ReadUnlock, ReadNoData, ReadQueue, ReadCond, ReadWoken,
                PollWoken, devVars, ctlVars
  <2> QED BY <1>4, <2>1, <2>2, <2>3, <2>4, <2>5 DEF RunStep
<1> QED BY <1>1, <1>2, <1>3, <1>4 DEF Next, ThreadStep

\* While the threshold is zero only an open makes progress.
LEMMA ThresholdStep ==
  ASSUME DevInv, ThresholdInv, [Next]_vars
  PROVE  ThresholdInv'
<1>1. CASE UNCHANGED vars
  BY <1>1 DEF vars, devVars, ctlVars, fileVars, thrVars, ThresholdInv
<1>2. CASE Next /\ poll_threshold # 0
  BY <1>2, ThresholdStays, ThresholdNonzero
<1>3. CASE Next /\ poll_threshold = 0
  <2>1. ~opened /\ \A t \in Threads : tpc[t] \in {"idle", "open_lock", "open_defaults"}
    BY <1>3 DEF ThresholdInv
  <2>2. CASE Interrupt \/ WakeReaders \/ WakePollers
    BY <2>1, <2>2 DEF Interrupt, WakeReaders, WakePollers, devVars, ctlVars, fileVars, thrVars,
                      ThresholdInv
  <2>3. ASSUME NEW t \in Threads, OpenTake(t) \/ OpenLock(t)
        PROVE  ThresholdInv'
    BY <1>3, <2>1, <2>3 DEF OpenTake, OpenLock, Call, Step, Goto, fileVars, ThresholdInv,
                            DevInv, DeviceTypeOK
  <2>4. ASSUME NEW t \in Threads, OpenDefaults(t)
        PROVE  ThresholdInv'
    BY <2>4, ThresholdNonzero DEF OpenDefaults, SetIbsDefaults
  <2>5. ASSUME NEW t \in Threads, ThreadStep(t)
        PROVE  OpenTake(t) \/ OpenLock(t) \/ OpenDefaults(t)
    <3>1. tpc[t] \in {"idle", "open_lock", "open_defaults"}
      BY <2>1
    <3>2. ~(RunStep(t) /\ ~OpenDefaults(t))
      BY <3>1 DEF RunStep, ReleaseDisable, ReleaseDefaults, ReleaseUnused, ResetStep, ResetWr,
         ResetRd, ResetEntries, ResetLost, CtlUnlock, EnableCtl, EnableMsr, DisableHw,
         DisableCtl, SetOpt, SetPollSize, SetBufferSize, ResetBuffer, SetupBuffer,
         SetupBufferFails, ReadData, Reading, ReadUnlock, ReadNoData, ReadQueue, ReadCond,
         ReadWoken, PollWoken, Step
    <3>3. ~(LockStep(t) /\ ~OpenLock(t))
      BY <3>1 DEF LockStep, ReleaseLock, IoctlBusy, IoctlLock, ReadLock, ReadCtl, PollData,
         PollHangup, PollWait, Step
    <3>4. ~(FreeStep(t) /\ ~OpenTake(t))
      BY <2>1, <3>1 DEF FreeStep, Release, Ioctl, GetLostCall, ReadCall, PollCall, ReadSignal,
         PollTimeout, Step
    <3> QED BY <2>5, <3>2, <3>3, <3>4 DEF ThreadStep
  <2> QED BY <1>3, <2>2, <2>3, <2>4, <2>5 DEF Next
<1> QED BY <1>1, <1>2, <1>3

\* A poll on an open device needs at least one record, for any number of
\* threads and any order of calls.
THEOREM PollNeedsRecords == Spec => []PollNeedsData
<1>1. Init => ThresholdInv
  BY DEF Init, ThresholdInv
<1>2. DevInv /\ ThresholdInv /\ [Next]_vars => ThresholdInv'
  BY ThresholdStep
<1>3. ThresholdInv => PollNeedsData
  BY DEF ThresholdInv, PollNeedsData
<1> QED BY <1>1, <1>2, <1>3, DeviceInvariant, PTL DEF Spec

-----------------------------------------------------------------------------
(* The ring inside the device.                                             *)

\* The calls by which a user can have the buffer reset while others read.
ResetOps == {"SET_BUFFER_SIZE", "RESET_BUFFER"}

\* Program counters of ibs_read.
ReadStates == {"read_lock", "read_test", "reading", "read_ctl", "read_queue",
               "read_cond", "read_sleep"}

\* The discipline that device_reset_race shows to be needed: reset_ibs_buffer
\* holds ctl_lock and do_ibs_read holds read_lock, so a process must not have
\* one thread copy records out while another resets the buffer; and while the
\* buffer is replaced no call of read may be under way, because ibs_read has
\* compared its count with the size of the old one.  A reader may be asleep, or
\* anywhere else in ibs_read, during a reset; open and release need no care.
ResetsApart ==
  \A t, u \in Threads :
    cmd[t] \in ResetOps =>
      /\ tpc[t] \in ResetStates => tpc[u] # "reading"
      /\ tpc[t] = "alloc" => tpc[u] \notin ReadStates

\* Two ways to keep it: one thread only, or no resets while the file is open.
SerialResets == (\A t, u \in Threads : t = u) \/ Ops \cap ResetOps = {}

\* What the calls and their arguments are at each program counter.
OpsInv ==
  \A t \in Threads :
    /\ cmd[t] \in Ops \cup {"none"}
    /\ cmd[t] = "SET_BUFFER_SIZE" => arg[t] \in Capacities \cup {0}
    /\ tpc[t] = "alloc" => cmd[t] = "SET_BUFFER_SIZE" /\ arg[t] # 0
    /\ tpc[t] \in ResetStates => cmd[t] \in {"open", "release"} \cup ResetOps
    /\ tpc[t] \in ReadStates =>
         cmd[t] \in {"read", "read_nonblock"} /\ arg[t] \in 1 .. capacity

\* do_ibs_read runs in a thread that is in it; the locals of the handler and
\* of do_ibs_read end with them.
LocalsInv ==
  /\ rpc # "idle" => \E t \in Threads : tpc[t] = "reading"
  /\ npc = "idle" => old_wr = 0 /\ new_wr = 0
  /\ rpc = "idle" => l_rd = 0 /\ l_wr = 0

Resetting == \E t \in Threads : tpc[t] \in ResetStates

\* The ring while thread t is in reset_ibs_buffer: nobody else touches it, and
\* what t has already stored is there.
HalfReset(t) ==
  /\ capacity \in Capacities /\ buf \in [Slots -> Nat]
  /\ entries \in Nat /\ lost \in Nat /\ events \in Nat
  /\ stored \in Nat /\ taken \in Nat
  /\ reported \in Nat /\ want \in Nat /\ l_cnt \in Nat /\ ubuf \in Seq(Nat)
  /\ npc = "idle" /\ rpc = "idle"
  /\ EventConservation
  /\ tpc[t] # "reset_wr" => wr = 0
  /\ tpc[t] \in {"reset_entries", "reset_lost"} => rd = 0 /\ taken = stored
  /\ tpc[t] = "reset_lost" => entries = 0

\* Outside reset_ibs_buffer the ring's own inductive invariant holds.
RingState ==
  /\ ~Resetting => RingInv
  /\ \A t \in Threads : tpc[t] \in ResetStates => HalfReset(t)

\* Everything consumed or dropped since the open is newer than what was there.
BaseInv ==
  /\ base \in Nat /\ base <= stored
  /\ (\A t \in Threads : tpc[t] \notin {"reset_wr", "reset_rd"}) => base <= taken

DevRingInv == OpsInv /\ LocalsInv /\ RingState /\ BaseInv

\* Two threads in the critical section of ctl_lock are one thread.
LEMMA OneInCritical ==
  ASSUME DevInv, NEW t \in Threads, NEW u \in Threads,
         tpc[t] \in CtlStates, tpc[u] \in CtlStates
  PROVE  t = u
  BY DEF DevInv, LockInv

\* An open or a release excludes other calls.
LEMMA OpenIsAlone ==
  ASSUME DevInv, OpsInv, NEW t \in Threads, tpc[t] \notin {"idle", "ctl_unlock"},
         cmd[t] \in {"open", "release"}, NEW u \in Threads
  PROVE  tpc[u] \notin ReadStates
  <1> SUFFICES ASSUME tpc[u] \in ReadStates PROVE FALSE
    OBVIOUS
  <1>1. cmd[u] \in {"read", "read_nonblock"} /\ tpc[u] # "idle"
    BY DEF OpsInv, ReadStates
  <1>2. Exclusive(t)
    BY DEF Exclusive
  <1>3. ~opened
    BY <1>2 DEF DevInv, FileInv
  <1>4. opened
    BY <1>1 DEF DevInv, FileInv
  <1> QED BY <1>3, <1>4

\* While a thread is in reset_ibs_buffer nobody is in do_ibs_read.
LEMMA ResetAlone ==
  ASSUME DevInv, OpsInv, ResetsApart, NEW t \in Threads, tpc[t] \in ResetStates,
         NEW u \in Threads
  PROVE  tpc[u] # "reading"
  <1>1. cmd[t] \in {"open", "release"} \cup ResetOps /\ tpc[t] \notin {"idle", "ctl_unlock"}
    BY DEF OpsInv, ResetStates
  <1>2. CASE cmd[t] \in {"open", "release"}
    BY <1>1, <1>2, OpenIsAlone DEF ReadStates
  <1>3. CASE cmd[t] \in ResetOps
    BY <1>3 DEF ResetsApart
  <1> QED BY <1>1, <1>2, <1>3

\* Nor when a thread enters reset_ibs_buffer.
LEMMA EnterAlone ==
  ASSUME DevInv, OpsInv, LocalsInv, ResetsApart', NEW t \in Threads,
         NEW l \in {"open_defaults", "rel_defaults", "switch", "alloc"},
         Step(t, l, "reset_wr"), cmd[t] \in {"open", "release"} \cup ResetOps
  PROVE  rpc = "idle" /\ \A u \in Threads : tpc[u] # "reading"
  <1>1. /\ tpc[t] = l /\ cmd' = cmd /\ tpc'[t] = "reset_wr"
        /\ \A u \in Threads : u # t => tpc'[u] = tpc[u]
    BY DEF DevInv, DeviceTypeOK, Step, Goto
  <1>2. ASSUME NEW u \in Threads PROVE tpc[u] # "reading"
    <2>1. CASE cmd[t] \in {"open", "release"}
      BY <1>1, <2>1, OpenIsAlone DEF ReadStates
    <2>2. CASE cmd[t] \in ResetOps
      <3>1. tpc'[u] # "reading"
        BY <1>1, <2>2 DEF ResetsApart, ResetStates
      <3> QED BY <1>1, <3>1
    <2> QED BY <2>1, <2>2
  <1> QED BY <1>2 DEF LocalsInv

\* The ring's invariants depend on the ring's variables only.
LEMMA RingUnchanged ==
  ASSUME UNCHANGED ringVars
  PROVE  /\ RingInv => RingInv'
         /\ EventConservation' = EventConservation
         /\ Slots' = Slots
  <1>1. RingInv => RingInv'
    BY RingInvNext
  <1>2. EventConservation' = EventConservation /\ Slots' = Slots
    BY DEF EventConservation, Slots, Flag, ringVars, nmiVars, atomicVars
  <1> QED BY <1>1, <1>2

\* A step within a call that leaves the ring alone and does not enter or leave
\* reset_ibs_buffer.
LEMMA OutsideStep ==
  ASSUME DevInv, DevRingInv, NEW t \in Threads, NEW l, NEW m, Step(t, l, m),
         l \notin ResetStates, m \notin ResetStates \cup {"reading"},
         l = "reading" => rpc = "idle",
         m \in ReadStates => l \in ReadStates,
         m = "alloc" => cmd[t] = "SET_BUFFER_SIZE" /\ arg[t] # 0,
         UNCHANGED <<ringVars, base>>
  PROVE  DevRingInv'
  <1>1. /\ tpc[t] = l /\ tpc' = [tpc EXCEPT ![t] = m]
        /\ \A u \in Threads : u # t => tpc'[u] = tpc[u]
        /\ tpc'[t] = m
    BY DEF DevInv, DeviceTypeOK, Step, Goto
  <1>2. OpsInv'
    BY <1>1 DEF DevInv, DeviceTypeOK, DevRingInv, OpsInv, Step, ringVars,
                ResetStates, ReadStates
  <1>3. LocalsInv'
    <2>1. rpc # "idle" => \E u \in Threads : tpc'[u] = "reading"
      BY <1>1 DEF DevRingInv, LocalsInv
    <2> QED BY <2>1 DEF DevRingInv, LocalsInv, ringVars, nmiVars, readerVars
  <1>4. RingState'
    <2>1. Resetting' <=> Resetting
      BY <1>1 DEF Resetting
    <2>2. ASSUME NEW u \in Threads, tpc'[u] \in ResetStates
          PROVE  HalfReset(u)'
      <3>1. HalfReset(u) /\ tpc'[u] = tpc[u]
        BY <1>1, <2>2 DEF DevRingInv, RingState
      <3> QED BY <3>1, RingUnchanged
            DEF HalfReset, ringVars, nmiVars, readerVars, atomicVars
    <2> QED BY <2>1, <2>2, RingUnchanged DEF DevRingInv, RingState
  <1>5. BaseInv'
    BY <1>1 DEF DevRingInv, BaseInv, ResetStates, ringVars, nmiVars, readerVars
  <1> QED BY <1>2, <1>3, <1>4, <1>5 DEF DevRingInv

\* All of them: taking and dropping the locks, the register writes, the
\* settings, the tests and the sleeps of read and poll.
LEMMA OutsideSteps ==
  ASSUME DevInv, DevRingInv, NEW t \in Threads,
         \/ LockStep(t)
         \/ ReleaseDisable(t) \/ ReleaseUnused(t) \/ CtlUnlock(t)
         \/ EnableCtl(t) \/ EnableMsr(t) \/ DisableHw(t) \/ DisableCtl(t)
         \/ SetOpt(t) \/ SetPollSize(t) \/ SetupBufferFails(t)
         \/ ReadUnlock(t) \/ ReadNoData(t) \/ ReadQueue(t) \/ ReadCond(t)
         \/ ReadWoken(t) \/ PollWoken(t) \/ ReadSignal(t) \/ PollTimeout(t)
  PROVE  DevRingInv'
  <1>1. UNCHANGED <<ringVars, base>>
    BY DEF LockStep, OpenLock, ReleaseLock, IoctlBusy, IoctlLock, ReadLock,
       ReadCtl, PollData, PollHangup, PollWait, ReleaseDisable, ReleaseUnused,
       CtlUnlock, EnableCtl, EnableMsr, DisableHw, DisableCtl, SetOpt,
       SetPollSize, SetupBufferFails, ReadUnlock, ReadNoData, ReadQueue,
       ReadCond, ReadWoken, PollWoken, ReadSignal, PollTimeout, fileVars
  <1>2. CASE \/ OpenLock(t) \/ ReleaseLock(t) \/ IoctlBusy(t) \/ IoctlLock(t)
             \/ ReleaseDisable(t) \/ ReleaseUnused(t) \/ CtlUnlock(t)
             \/ EnableCtl(t) \/ EnableMsr(t) \/ DisableHw(t) \/ DisableCtl(t)
             \/ SetOpt(t) \/ SetPollSize(t) \/ SetupBufferFails(t)
    <2>1. \E l \in ThreadStates \ (ResetStates \cup ReadStates),
             m \in ThreadStates \ (ResetStates \cup ReadStates \cup {"alloc"}) :
            Step(t, l, m)
      BY <1>2 DEF OpenLock, ReleaseLock, IoctlBusy, IoctlLock, ReleaseDisable,
         ReleaseUnused, CtlUnlock, EnableCtl, EnableMsr, DisableHw, DisableCtl,
         SetOpt, SetPollSize, SetupBufferFails, ThreadStates, ResetStates,
         ReadStates
    <2> QED BY <1>1, <2>1, OutsideStep DEF ReadStates
  <1>3. CASE \/ PollData(t) \/ PollHangup(t) \/ PollWait(t) \/ PollWoken(t)
             \/ PollTimeout(t)
    <2>1. \E l \in {"poll_data", "poll_ctl", "poll_sleep"},
             m \in {"poll_data", "poll_ctl", "poll_sleep", "idle"} : Step(t, l, m)
      BY <1>3 DEF PollData, PollHangup, PollWait, PollWoken, PollTimeout
    <2> QED BY <1>1, <2>1, OutsideStep DEF ReadStates, ResetStates
  <1>4. CASE \/ ReadLock(t) \/ ReadCtl(t) \/ ReadNoData(t) \/ ReadQueue(t)
             \/ ReadCond(t) \/ ReadWoken(t) \/ ReadSignal(t)
    <2>1. \E l \in ReadStates \ {"reading"},
             m \in (ReadStates \cup {"idle"}) \ {"reading"} : Step(t, l, m)
      BY <1>4 DEF ReadLock, ReadCtl, ReadNoData, ReadQueue, ReadCond, ReadWoken,
         ReadSignal, ReadStates
    <2> QED BY <1>1, <2>1, OutsideStep DEF ReadStates, ResetStates
  <1>5. CASE ReadUnlock(t)
    BY <1>1, <1>5, OutsideStep DEF ReadUnlock, ReadStates, ResetStates
  <1> QED BY <1>2, <1>3, <1>4, <1>5 DEF LockStep

\* Entering a call leaves the ring alone.
LEMMA EnterSteps ==
  ASSUME DevInv, DevRingInv, NEW t \in Threads,
         OpenTake(t) \/ Release(t) \/ Ioctl(t) \/ ReadCall(t) \/ PollCall(t)
  PROVE  DevRingInv'
  <1>1. UNCHANGED <<ringVars, base>>
    BY DEF OpenTake, Release, Ioctl, ReadCall, PollCall, fileVars
  <1>2. PICK c \in Ops, a \in Nat \cup Opts,
             l \in {"open_lock", "rel_lock", "ctl_lock", "read_lock", "poll_data"} :
          /\ Call(t, c, a, l)
          /\ c = "SET_BUFFER_SIZE" => a \in Capacities \cup {0}
          /\ l = "read_lock" => c \in {"read", "read_nonblock"} /\ a \in 1 .. capacity
    <2>1. CASE Ioctl(t)
      BY <2>1, RingAssumption DEF Ioctl, CtlCmds, SetCmds, ArgsOf, Call
    <2>2. CASE ReadCall(t)
      <3>1. PICK c \in {"read", "read_nonblock"}, n \in 1 .. capacity :
              Call(t, c, n, "read_lock")
        BY <2>2 DEF ReadCall
      <3>2. c \in Ops /\ n \in Nat \cup Opts /\ c # "SET_BUFFER_SIZE"
        BY <3>1 DEF Call
      <3> QED BY <3>1, <3>2
    <2>3. CASE OpenTake(t) \/ Release(t) \/ PollCall(t)
      BY <2>3 DEF OpenTake, Release, PollCall, Call
    <2> QED BY <2>1, <2>2, <2>3
  <1>3. /\ tpc[t] = "idle" /\ tpc' = [tpc EXCEPT ![t] = l]
        /\ \A u \in Threads : u # t => tpc'[u] = tpc[u]
        /\ tpc'[t] = l
    BY <1>2 DEF DevInv, DeviceTypeOK, Call, Goto
  <1>4. l \notin ResetStates \cup {"idle", "reading", "alloc"}
    BY DEF ResetStates
  <1>5. OpsInv'
    BY <1>1, <1>2, <1>3, <1>4
       DEF DevInv, DeviceTypeOK, DevRingInv, OpsInv, Call, ringVars,
           ResetStates, ReadStates
  <1>6. LocalsInv'
    <2>1. rpc # "idle" => \E u \in Threads : tpc'[u] = "reading"
      BY <1>3 DEF DevRingInv, LocalsInv
    <2> QED BY <1>1, <2>1 DEF DevRingInv, LocalsInv, ringVars, nmiVars, readerVars
  <1>7. RingState'
    <2>1. Resetting' <=> Resetting
      BY <1>3, <1>4 DEF Resetting, ResetStates
    <2>2. ASSUME NEW u \in Threads, tpc'[u] \in ResetStates
          PROVE  HalfReset(u)'
      <3>1. HalfReset(u) /\ tpc'[u] = tpc[u]
        BY <1>3, <1>4, <2>2 DEF DevRingInv, RingState
      <3> QED BY <1>1, <3>1, RingUnchanged
            DEF HalfReset, ringVars, nmiVars, readerVars, atomicVars
    <2> QED BY <1>1, <2>1, <2>2, RingUnchanged DEF DevRingInv, RingState
  <1>8. BaseInv'
    BY <1>1, <1>3, <1>4 DEF DevRingInv, BaseInv, ResetStates, ringVars, nmiVars,
                            readerVars
  <1> QED BY <1>5, <1>6, <1>7, <1>8 DEF DevRingInv

\* A step into reset_ibs_buffer, perhaps with a new buffer: the ring is at rest.
LEMMA BeginReset ==
  ASSUME DevInv, DevRingInv, ResetsApart', NEW t \in Threads,
         NEW l \in {"open_defaults", "rel_defaults", "switch", "alloc"},
         Step(t, l, "reset_wr"),
         cmd[t] \in {"open", "release"} \cup ResetOps, npc = "idle",
         UNCHANGED <<atomicVars, nmiVars, readerVars, reported>>,
         capacity' \in Capacities, buf' \in [0 .. capacity' - 1 -> Nat],
         capacity' = capacity \/ \A u \in Threads : tpc[u] \notin ReadStates,
         base' \in {base, stored}
  PROVE  DevRingInv'
  <1>1. /\ tpc[t] = l /\ tpc' = [tpc EXCEPT ![t] = "reset_wr"]
        /\ \A u \in Threads : u # t => tpc'[u] = tpc[u]
        /\ tpc'[t] = "reset_wr"
        /\ cmd' = cmd /\ arg' = arg
    BY DEF DevInv, DeviceTypeOK, Step, Goto
  <1>2. rpc = "idle" /\ \A u \in Threads : tpc[u] # "reading"
    BY EnterAlone DEF DevRingInv
  <1>3. \A u \in Threads : tpc'[u] \in CtlStates \ {"ctl_unlock"} => u = t
    BY <1>1, OneInCritical DEF CtlStates
  <1>4. RingInv
    <2>1. ~Resetting
      BY <1>1, OneInCritical DEF Resetting, CtlStates, ResetStates
    <2> QED BY <2>1 DEF DevRingInv, RingState
  <1>5. OpsInv'
    BY <1>1, <1>2 DEF DevRingInv, OpsInv, ResetStates, ReadStates
  <1>6. LocalsInv'
    BY <1>2 DEF DevRingInv, LocalsInv, nmiVars, readerVars
  <1>7. RingState'
    <2>1. HalfReset(t)'
      BY <1>1, <1>2, <1>4 DEF HalfReset, RingInv, RingTypeOK, EventConservation,
         Flag, Slots, atomicVars, nmiVars, readerVars
    <2>2. Resetting' /\ \A u \in Threads : tpc'[u] \in ResetStates => u = t
      BY <1>1, <1>3 DEF Resetting, ResetStates, CtlStates
    <2> QED BY <2>1, <2>2 DEF RingState
  <1>8. BaseInv'
    BY <1>1, <1>4 DEF DevRingInv, BaseInv, RingInv, RingTypeOK, nmiVars, readerVars
  <1> QED BY <1>5, <1>6, <1>7, <1>8 DEF DevRingInv

\* Where reset_ibs_buffer is called from: open, release and two ioctls.
LEMMA BeginResets ==
  ASSUME DevInv, DevRingInv, ResetsApart, ResetsApart', NEW t \in Threads,
         \/ OpenDefaults(t) \/ ReleaseDefaults(t) \/ ResetBuffer(t)
         \/ SetupBuffer(t) \/ SetBufferSize(t)
  PROVE  DevRingInv'
  <1>1. ASSUME NEW l \in {"open_defaults", "rel_defaults", "switch"}, tpc[t] = l,
               l = "switch" => cmd[t] \in ResetOps
        PROVE  /\ cmd[t] \in {"open", "release"} \cup ResetOps
               /\ npc = "idle"
               /\ capacity \in Capacities /\ buf \in [0 .. capacity - 1 -> Nat]
    <2>1. ~Resetting
      BY <1>1, OneInCritical DEF Resetting, CtlStates, ResetStates
    <2>2. capacity \in Capacities /\ buf \in [0 .. capacity - 1 -> Nat]
      BY <2>1 DEF DevRingInv, RingState, RingInv, RingTypeOK, Slots
    <2>3. cmd[t] \in {"open", "release"} \cup ResetOps
      BY <1>1 DEF DevInv, CallInv
    <2>4. ~ctl.en \/ ~msr.en
      BY <1>1 DEF DevInv, OffInv, ResetOps, SetCmds
    <2>5. npc = "idle"
      BY <2>4 DEF DevInv, HardwareFollowsCtl, HandlerInv
    <2> QED BY <2>2, <2>3, <2>5
  <1>2. CASE OpenDefaults(t)
    <2>1. tpc[t] = "open_defaults" /\ Step(t, "open_defaults", "reset_wr")
      BY <1>2 DEF OpenDefaults, Step
    <2> QED BY <1>1, <1>2, <2>1, BeginReset DEF OpenDefaults, ringVars
  <1>3. CASE ReleaseDefaults(t)
    <2>1. tpc[t] = "rel_defaults" /\ Step(t, "rel_defaults", "reset_wr")
      BY <1>3 DEF ReleaseDefaults, Step
    <2> QED BY <1>1, <1>3, <2>1, BeginReset DEF ReleaseDefaults, ringVars, fileVars
  <1>4. CASE ResetBuffer(t)
    <2>1. /\ tpc[t] = "switch" /\ Step(t, "switch", "reset_wr")
          /\ cmd[t] \in ResetOps
      BY <1>4 DEF ResetBuffer, Step, ResetOps
    <2> QED BY <1>1, <1>4, <2>1, BeginReset DEF ResetBuffer, ringVars, fileVars
  <1>5. CASE SetupBuffer(t)
    <2>1. /\ tpc[t] = "alloc" /\ Step(t, "alloc", "reset_wr")
          /\ cmd[t] = "SET_BUFFER_SIZE" /\ arg[t] \in Capacities
      BY <1>5 DEF SetupBuffer, Step, DevRingInv, OpsInv
    <2>2. npc = "idle"
      BY <2>1 DEF DevInv, OffInv, HardwareFollowsCtl, HandlerInv
    <2>3. buf' \in [0 .. capacity' - 1 -> Nat]
      BY <1>5, <2>1, RingAssumption DEF SetupBuffer, NoRecord
    <2>4. \A u \in Threads : tpc[u] \notin ReadStates
      BY <2>1 DEF ResetsApart, ResetOps
    <2> QED BY <1>5, <2>1, <2>2, <2>3, <2>4, BeginReset DEF SetupBuffer, ResetOps
  <1>6. CASE SetBufferSize(t)
    <2>1. /\ tpc[t] = "switch" /\ cmd[t] = "SET_BUFFER_SIZE"
          /\ arg[t] \in Nat /\ UNCHANGED <<ringVars, base>>
      BY <1>6 DEF SetBufferSize, Step, DevInv, CallInv
    <2>2. CASE Step(t, "switch", "reset_wr")
      BY <1>1, <2>1, <2>2, BeginReset DEF ringVars, ResetOps
    <2>3. CASE Step(t, "switch", "ctl_unlock")
      BY <2>1, <2>3, OutsideStep DEF ResetStates, ReadStates
    <2>4. CASE Step(t, "switch", "alloc") /\ arg[t] >= 1
      BY <2>1, <2>4, OutsideStep DEF ResetStates, ReadStates
    <2> QED BY <1>6, <2>2, <2>3, <2>4 DEF SetBufferSize
  <1> QED BY <1>2, <1>3, <1>4, <1>5, <1>6

\* The stores of reset_ibs_buffer; after the last one the ring is empty and
\* its invariant holds again.
LEMMA ResetSteps ==
  ASSUME DevInv, DevRingInv, NEW t \in Threads, ResetStep(t)
  PROVE  DevRingInv'
  <1>1. PICK m \in ThreadStates : Step(t, tpc[t], m)
    BY DEF ResetStep, ResetWr, ResetRd, ResetEntries, ResetLost, Step, ThreadStates
  <1>2. /\ tpc[t] \in ResetStates
        /\ m \in {"reset_rd", "reset_entries", "reset_lost", "rel_unused", "ctl_unlock"}
        /\ UNCHANGED <<capacity, buf, nmiVars, rpc, want, l_rd, l_wr, l_cnt, ubuf, base>>
        /\ tpc' = [tpc EXCEPT ![t] = m] /\ cmd' = cmd /\ arg' = arg
    BY <1>1 DEF ResetStep, ResetWr, ResetRd, ResetEntries, ResetLost, Step, Goto,
       ResetStates, fileVars, DevInv, DeviceTypeOK
  <1>3. /\ \A u \in Threads : u # t => tpc'[u] = tpc[u] /\ tpc[u] \notin ResetStates
        /\ tpc'[t] = m
    BY <1>2, OneInCritical DEF DevInv, DeviceTypeOK, CtlStates
  <1>4. HalfReset(t)
    BY <1>2 DEF DevRingInv, RingState
  <1>5. OpsInv'
    BY <1>2, <1>3 DEF DevRingInv, OpsInv, ResetStates, ReadStates
  <1>6. LocalsInv'
    BY <1>2, <1>4 DEF DevRingInv, LocalsInv, HalfReset, nmiVars
  <1>7. m \in ResetStates => HalfReset(t)'
    <2>1. /\ EventConservation' /\ lost' \in Nat /\ reported' \in Nat /\ taken' \in Nat
          /\ entries' \in Nat
      BY <1>2, <1>4 DEF ResetStep, ResetWr, ResetRd, ResetEntries, ResetLost, HalfReset,
         EventConservation, Flag, nmiVars
    <2>2. m # "reset_wr" /\ wr' = 0
      BY <1>2, <1>4 DEF ResetStep, ResetWr, ResetRd, ResetEntries, ResetLost, HalfReset, Step
    <2>3. m \in {"reset_entries", "reset_lost"} => rd' = 0 /\ taken' = stored'
      BY <1>2, <1>3, <1>4 DEF ResetStep, ResetWr, ResetRd, ResetEntries, ResetLost,
         HalfReset, Step, Goto, DevInv, DeviceTypeOK, nmiVars
    <2>4. m = "reset_lost" => entries' = 0
      BY <1>2, <1>3, <1>4 DEF ResetStep, ResetWr, ResetRd, ResetEntries, ResetLost,
         HalfReset, Step, Goto, DevInv, DeviceTypeOK
    <2> QED BY <1>2, <1>3, <1>4, <2>1, <2>2, <2>3, <2>4 DEF HalfReset, Slots, nmiVars
  <1>8. CASE ResetLost(t)
    <2>1. /\ wr' = 0 /\ rd' = 0 /\ entries' = 0 /\ lost' = 0
          /\ taken' = stored' /\ reported' = reported + lost
      BY <1>4, <1>8 DEF ResetLost, Step, HalfReset, nmiVars
    <2>2. npc' = "idle" /\ rpc' = "idle" /\ 0 \in Slots'
      BY <1>2, <1>4, RingAssumption DEF HalfReset, nmiVars, Slots
    <2>3. /\ old_wr' = 0 /\ new_wr' = 0 /\ l_rd' = 0 /\ l_wr' = 0
      BY <1>2, <1>4 DEF DevRingInv, LocalsInv, HalfReset, nmiVars
    <2>4. RingTypeOK'
      BY <1>2, <1>4, <2>1, <2>2, <2>3 DEF HalfReset, RingTypeOK, NmiStates,
         ReaderStates, Slots, nmiVars
    <2>5. Occupancy' = 0
      BY <2>1 DEF Occupancy, Dist
    <2>6. EntriesAccounting' /\ EventConservation'
      BY <1>2, <1>4, <2>1, <2>2, <2>5 DEF EntriesAccounting, EventConservation,
         HalfReset, Flag, nmiVars
    <2>7. LiveRecords'
      <3>1. stored' = taken' + Occupancy' + Flag(npc = "setwr")'
        <4>1. Flag(npc = "setwr")' = 0
          BY <2>2 DEF Flag
        <4>2. taken' \in Nat /\ stored' = taken'
          BY <2>1, <2>4 DEF RingTypeOK
        <4> QED BY <2>5, <4>1, <4>2
      <3>2. ASSUME NEW s \in Slots' PROVE ~(Dist(rd, s)' < Occupancy')
        BY <2>1, <2>5, RingAssumption DEF Dist, Slots
      <3> QED BY <3>1, <3>2 DEF LiveRecords
    <2>8. NmiInv' /\ ReaderInv' /\ DeliveredInOrder' /\ CleanReadIsExact'
      BY <2>2 DEF NmiInv, ReaderInv, DeliveredInOrder, CleanReadIsExact
    <2> QED
      <3>1. RingInv'
        BY <2>4, <2>6, <2>7, <2>8 DEF RingInv
      <3>2. RingState'
        BY <1>3, <3>1, <1>8 DEF RingState, Resetting, ResetLost, Step, Goto, ResetStates, DevInv, DeviceTypeOK
      <3>3. BaseInv'
        BY <1>2, <1>4, <2>1 DEF DevRingInv, BaseInv, HalfReset, nmiVars
      <3> QED BY <1>5, <1>6, <3>2, <3>3 DEF DevRingInv
  <1>9. CASE ResetWr(t) \/ ResetRd(t) \/ ResetEntries(t)
    <2>1. m \in ResetStates
      BY <1>3, <1>9 DEF ResetWr, ResetRd, ResetEntries, Step, Goto, ResetStates, DevInv, DeviceTypeOK
    <2>2. RingState'
      BY <1>3, <1>7, <2>1 DEF RingState, Resetting
    <2>3. BaseInv'
      <3>1. base' = base /\ stored' = stored /\ base \in Nat /\ base <= stored
        BY <1>2 DEF DevRingInv, BaseInv, nmiVars
      <3>2. CASE ResetWr(t)
        BY <1>3, <3>1, <3>2 DEF ResetWr, Step, Goto, DevInv, DeviceTypeOK, BaseInv
      <3>3. CASE ResetRd(t)
        BY <3>1, <3>3 DEF ResetRd, BaseInv
      <3>4. CASE ResetEntries(t)
        <4>1. taken' = stored'
          BY <1>4, <3>1, <3>4 DEF ResetEntries, Step, HalfReset
        <4> QED BY <3>1, <4>1 DEF BaseInv
      <3> QED BY <1>9, <3>2, <3>3, <3>4
    <2> QED BY <1>5, <1>6, <2>2, <2>3 DEF DevRingInv
  <1> QED BY <1>8, <1>9 DEF ResetStep

\* A step of the handler or of do_ibs_read while nobody resets the buffer.
LEMMA RingSteps ==
  ASSUME DevInv, DevRingInv, ~Resetting, RingNext,
         \A t \in Threads : tpc'[t] = tpc[t] \/ (tpc[t] = "read_test" /\ tpc'[t] = "reading"),
         UNCHANGED <<cmd, arg, base>>,
         rpc = "idle" /\ rpc' # "idle" => \E t \in Threads : tpc'[t] = "reading"
  PROVE  DevRingInv'
  <1>1. RingInv /\ RingInv'
    BY RingInvNext DEF DevRingInv, RingState
  <1>2. capacity' = capacity /\ taken' >= taken /\ stored' >= stored
    <2>1. taken \in Nat /\ stored \in Nat /\ l_cnt \in Nat
      BY <1>1 DEF RingInv, RingTypeOK
    <2>2. capacity' = capacity
      BY DEF RingNext, Nmi, NmiCheck, NmiLost, NmiStore, NmiSetWr, NmiInc, NmiQueue,
         NmiOut, Reader, ReadBegin, DoIbsRead, ReadRd, ReadWr, ReadEntries, CopyStraight,
         CopyToEnd, CopyFromStart, CopyFault, SetRd, SubEntries, GetLost
    <2>3. taken' = taken \/ taken' = taken + l_cnt
      BY DEF RingNext, Nmi, NmiCheck, NmiLost, NmiStore, NmiSetWr, NmiInc, NmiQueue,
         NmiOut, Reader, ReadBegin, DoIbsRead, ReadRd, ReadWr, ReadEntries, CopyStraight,
         CopyToEnd, CopyFromStart, CopyFault, SetRd, SubEntries, GetLost, readerVars
    <2>4. stored' = stored \/ stored' = stored + 1
      BY DEF RingNext, Nmi, NmiCheck, NmiLost, NmiStore, NmiSetWr, NmiInc, NmiQueue,
         NmiOut, Reader, ReadBegin, DoIbsRead, ReadRd, ReadWr, ReadEntries, CopyStraight,
         CopyToEnd, CopyFromStart, CopyFault, SetRd, SubEntries, GetLost, nmiVars
    <2> QED BY <2>1, <2>2, <2>3, <2>4
  <1>3. OpsInv'
    BY <1>2 DEF DevRingInv, OpsInv, ResetStates, ReadStates
  <1>4. RingState'
    BY <1>1 DEF RingState, Resetting, ResetStates
  <1>5. BaseInv'
    <2>1. base \in Nat /\ base <= stored /\ base <= taken
      BY DEF DevRingInv, BaseInv, Resetting, ResetStates
    <2>2. /\ stored \in Nat /\ taken \in Nat /\ stored' \in Nat /\ taken' \in Nat
      BY <1>1 DEF RingInv, RingTypeOK
    <2> QED BY <1>2, <2>1, <2>2 DEF BaseInv
  <1>6. LocalsInv'
    <2>1. rpc' # "idle" => \E t \in Threads : tpc'[t] = "reading"
      BY DEF DevRingInv, LocalsInv
    <2>2. npc' = "idle" => old_wr' = 0 /\ new_wr' = 0
      BY DEF DevRingInv, LocalsInv, RingNext, Nmi, NmiCheck, NmiLost, NmiStore, NmiSetWr,
       NmiInc, NmiQueue, NmiOut, Reader, ReadBegin, DoIbsRead, ReadRd, ReadWr, ReadEntries,
       CopyStraight, CopyToEnd, CopyFromStart, CopyFault, SetRd, SubEntries, GetLost, nmiVars
    <2>3. rpc' = "idle" => l_rd' = 0 /\ l_wr' = 0
      <3>1. CASE ReadEntries
        <4>1. rpc = "entries"
          BY <3>1 DEF ReadEntries
        <4>2. entries >= 1 /\ want \in 1 .. capacity
          BY <1>1, <4>1 DEF RingInv, ReaderInv
        <4>3. entries \in Nat /\ want \in Nat
          BY <1>1 DEF RingInv, RingTypeOK
        <4>4. want # 0
          BY <4>2
        <4>5. ReadCount # 0
          BY <4>2, <4>3, <4>4 DEF ReadCount
        <4> QED BY <3>1, <4>5 DEF ReadEntries
      <3>2. CASE ~ReadEntries
        BY <3>2 DEF DevRingInv, LocalsInv, RingNext, Nmi, NmiCheck, NmiLost, NmiStore,
           NmiSetWr, NmiInc, NmiQueue, NmiOut, Reader, ReadBegin, DoIbsRead, ReadRd, ReadWr,
           CopyStraight, CopyToEnd, CopyFromStart, CopyFault, SetRd, SubEntries, GetLost,
           readerVars, ReadReturn
      <3> QED BY <3>1, <3>2
    <2> QED BY <2>1, <2>2, <2>3 DEF LocalsInv
  <1> QED BY <1>3, <1>4, <1>5, <1>6 DEF DevRingInv

\* The handler never meets a reset: the hardware is off then.
LEMMA InterruptSteps ==
  ASSUME DevInv, DevRingInv, Interrupt
  PROVE  DevRingInv'
  <1>1. Nmi /\ (npc # "idle" \/ msr.en) /\ UNCHANGED <<thrVars, base, rpc>>
    BY DEF Interrupt, Nmi, NmiCheck, NmiLost, NmiStore, NmiSetWr, NmiInc, NmiQueue, NmiOut,
       devVars, fileVars, readerVars
  <1>2. ~Resetting
    BY <1>1 DEF Resetting, DevInv, OffInv, HardwareFollowsCtl, HandlerInv
  <1> QED BY <1>1, <1>2, RingSteps DEF RingNext, thrVars

\* Neither does a reader.
LEMMA ReadingSteps ==
  ASSUME DevInv, DevRingInv, ResetsApart, ResetsApart', NEW t \in Threads,
         ReadData(t) \/ Reading(t)
  PROVE  DevRingInv'
  <1>1. tpc[t] \in {"read_test", "reading"}
    BY DEF ReadData, Reading, Step
  <1>2. ~Resetting
    <2> SUFFICES ASSUME NEW u \in Threads, tpc[u] \in ResetStates PROVE FALSE
      BY DEF Resetting
    <2>1. CASE Reading(t)
      BY <1>1, <2>1, ResetAlone DEF DevRingInv, Reading
    <2>2. CASE ReadData(t)
      <3>1. tpc'[t] = "reading" /\ tpc'[u] = tpc[u] /\ cmd' = cmd
        BY <1>1, <2>2 DEF ReadData, Step, Goto, DevInv, DeviceTypeOK, ResetStates
      <3>2. cmd[u] \in {"open", "release"} \cup ResetOps /\ tpc[u] \notin {"idle", "ctl_unlock"}
        BY DEF DevRingInv, OpsInv, ResetStates
      <3>3. CASE cmd[u] \in {"open", "release"}
        BY <1>1, <3>2, <3>3, OpenIsAlone DEF DevRingInv, ReadStates
      <3>4. CASE cmd[u] \in ResetOps
        BY <3>1, <3>4 DEF ResetsApart
      <3> QED BY <3>2, <3>3, <3>4
    <2> QED BY <2>1, <2>2
  <1>3. CASE ReadData(t)
    <2>1. arg[t] \in 1 .. capacity
      BY <1>1 DEF DevRingInv, OpsInv, ReadStates
    <2>2. RingNext
      BY <1>3, <2>1 DEF ReadData, RingNext, Reader
    <2>3. /\ \A u \in Threads : tpc'[u] = tpc[u] \/ (tpc[u] = "read_test" /\ tpc'[u] = "reading")
          /\ tpc'[t] = "reading" /\ UNCHANGED <<cmd, arg, base>>
      BY <1>3 DEF ReadData, Step, Goto, DevInv, DeviceTypeOK, fileVars
    <2> QED BY <1>2, <2>2, <2>3, RingSteps
  <1>4. CASE Reading(t)
    BY <1>2, <1>4, RingSteps DEF Reading, RingNext, Reader, devVars, thrVars, fileVars
  <1> QED BY <1>3, <1>4

\* GET_LOST may come in the middle of a reset.
LEMMA GetLostStep ==
  ASSUME DevInv, DevRingInv, NEW t \in Threads, GetLostCall(t)
  PROVE  DevRingInv'
  <1>1. GetLost /\ UNCHANGED devVars
    BY DEF GetLostCall
  <1>2. CASE ~Resetting
    BY <1>1, <1>2, RingSteps DEF RingNext, GetLost, readerVars, devVars, thrVars, fileVars
  <1>3. CASE Resetting
    <2>1. /\ UNCHANGED <<tpc, cmd, arg, base>>
          /\ UNCHANGED <<capacity, buf, wr, rd, entries, nmiVars, readerVars>>
          /\ lost' = 0 /\ reported' = reported + lost
      BY <1>1 DEF GetLost, devVars, thrVars, fileVars
    <2>2. OpsInv' /\ LocalsInv' /\ BaseInv'
      BY <2>1 DEF DevRingInv, OpsInv, LocalsInv, BaseInv, nmiVars, readerVars
    <2>3. ASSUME NEW u \in Threads, tpc[u] \in ResetStates PROVE HalfReset(u)'
      <3>1. HalfReset(u)
        BY <2>3 DEF DevRingInv, RingState
      <3> QED BY <2>1, <3>1 DEF HalfReset, EventConservation, Flag, Slots, nmiVars, readerVars
    <2> QED BY <1>3, <2>1, <2>2, <2>3 DEF DevRingInv, RingState, Resetting
  <1> QED BY <1>2, <1>3

\* A step that leaves ring, threads and base alone.
LEMMA IdleStep ==
  ASSUME DevRingInv, UNCHANGED <<ringVars, thrVars, base>>
  PROVE  DevRingInv'
  <1>1. UNCHANGED <<tpc, cmd, arg, base, capacity, stored, taken, npc, rpc, old_wr, new_wr, l_rd, l_wr>>
    BY DEF ringVars, thrVars, nmiVars, readerVars
  <1>2. OpsInv' /\ LocalsInv' /\ BaseInv'
    BY <1>1 DEF DevRingInv, OpsInv, LocalsInv, BaseInv
  <1>3. ASSUME NEW u \in Threads, tpc[u] \in ResetStates PROVE HalfReset(u)'
    <2>1. HalfReset(u)
      BY <1>3 DEF DevRingInv, RingState
    <2> QED BY <1>1, <2>1, RingUnchanged DEF HalfReset, ringVars, nmiVars, readerVars, atomicVars
  <1>4. RingState'
    BY <1>1, <1>3, RingUnchanged DEF DevRingInv, RingState, Resetting
  <1> QED BY <1>2, <1>4 DEF DevRingInv

LEMMA DevRingInvInit == Init => DevRingInv
  <1> SUFFICES ASSUME Init PROVE DevRingInv
    OBVIOUS
  <1>1. \A t \in Threads : tpc[t] = "idle" /\ cmd[t] = "none"
    BY DEF Init
  <1>2. OpsInv
    BY <1>1 DEF OpsInv, ResetStates, ReadStates
  <1>3. LocalsInv /\ BaseInv
    BY DEF Init, RingInit, LocalsInv, BaseInv
  <1>4. RingState
    BY <1>1, RingInvInit DEF Init, RingState, Resetting, ResetStates
  <1> QED BY <1>2, <1>3, <1>4 DEF DevRingInv

LEMMA DevRingInvNext ==
  ASSUME ResetsApart, ResetsApart', DevInv, DevRingInv, [Next]_vars
  PROVE  DevRingInv'
  <1>1. CASE Interrupt
    BY <1>1, InterruptSteps
  <1>2. CASE WakeReaders \/ WakePollers
    BY <1>2, IdleStep DEF WakeReaders, WakePollers, fileVars
  <1>3. ASSUME NEW t \in Threads, ThreadStep(t)
        PROVE  DevRingInv'
    BY <1>3, OutsideSteps, EnterSteps, BeginResets, ResetSteps, ReadingSteps,
       GetLostStep DEF ThreadStep, RunStep, FreeStep
  <1>4. CASE UNCHANGED vars
    BY <1>4, IdleStep DEF vars, devVars, fileVars
  <1> QED BY <1>1, <1>2, <1>3, <1>4 DEF Next

\* Under the discipline the ring's own invariant holds in the device outside
\* reset_ibs_buffer, for any number of threads, calls and allocation failures.
THEOREM DeviceRingInvariant == Spec /\ []ResetsApart => []DevRingInv
  <1>1. ResetsApart /\ ResetsApart' /\ DevInv /\ DevRingInv /\ [Next]_vars => DevRingInv'
    BY DevRingInvNext
  <1> QED BY <1>1, DevRingInvInit, DeviceInvariant, PTL DEF Spec

LEMMA DevRingConsistent == DevRingInv => RingConsistent
  BY DEF DevRingInv, RingState, Resetting, RingInv, RingTypeOK, RingConsistent

LEMMA DevRingIsolation == DevRingInv => SessionIsolation
  <1> SUFFICES ASSUME DevRingInv, rpc = "setrd", NEW i \in 1 .. l_cnt
               PROVE  ubuf[i] = NoRecord \/ ubuf[i] > base
    BY DEF SessionIsolation
  <1>1. ~Resetting
    BY DEF DevRingInv, RingState, Resetting, HalfReset
  <1>2. RingInv
    BY <1>1 DEF DevRingInv, RingState
  <1>3. base <= taken /\ base \in Nat /\ taken \in Nat /\ l_cnt \in Nat
    BY <1>1, <1>2 DEF DevRingInv, BaseInv, Resetting, ResetStates, RingInv, RingTypeOK
  <1>4. ubuf[i] \in {taken + i, NoRecord}
    BY <1>2 DEF RingInv, DeliveredInOrder
  <1> QED BY <1>3, <1>4

LEMMA DevRingInOrder == DevRingInv => OrderAcrossResets
  <1> SUFFICES ASSUME DevRingInv, rpc = "setrd" PROVE DeliveredInOrder /\ CleanReadIsExact
    BY DEF OrderAcrossResets, DeliveredInOrder, CleanReadIsExact
  <1>1. ~Resetting
    BY DEF DevRingInv, RingState, Resetting, HalfReset
  <1> QED BY <1>1 DEF DevRingInv, RingState, RingInv

\* Configuration calls (reset_ibs_buffer, setup_ibs_buffer, open, release) leave
\* wr, rd, entries and the records in agreement, also while other threads of the
\* process sample, poll and sleep in read, as long as none is inside do_ibs_read
\* during a reset and none inside ibs_read while the buffer is replaced.
THEOREM RingStaysConsistent == Spec /\ []ResetsApart => []RingConsistent
  BY DevRingConsistent, DeviceRingInvariant, PTL

\* No user of the device gets a record sampled for an earlier one: the reset of
\* ibs_open comes before any read of the new user and after every handler.
THEOREM SessionsIsolated == Spec /\ []ResetsApart => []SessionIsolation
  BY DevRingIsolation, DeviceRingInvariant, PTL

\* Threads that share the file, whoever of them holds read_lock in do_ibs_read,
\* get the records in order, and all of them if no sample comes between the loads
\* of wr and entries, whatever resets, resizes and re-opens came before; up to a
\* failed vmalloc.
THEOREM DeviceReadsInOrder == Spec /\ []ResetsApart => []OrderAcrossResets
  BY DevRingInOrder, DeviceRingInvariant, PTL

\* The threads make the calls that Ops allows.
CmdsInOps == \A t \in Threads : cmd[t] \in Ops \cup {"none"}

LEMMA CmdsInOpsNext ==
  ASSUME DevInv, CmdsInOps, [Next]_vars
  PROVE  CmdsInOps'
  <1>1. ASSUME cmd' = cmd PROVE CmdsInOps'
    BY <1>1 DEF CmdsInOps
  <1>2. ASSUME NEW t \in Threads, NEW l, NEW m, Step(t, l, m) PROVE CmdsInOps'
    BY <1>2 DEF Step, CmdsInOps, DevInv, DeviceTypeOK
  <1>3. ASSUME NEW t \in Threads, NEW c, NEW a, NEW l, Call(t, c, a, l) PROVE CmdsInOps'
    BY <1>3 DEF Call, CmdsInOps, DevInv, DeviceTypeOK
  <1>4. CASE Interrupt \/ WakeReaders \/ WakePollers \/ UNCHANGED vars
    BY <1>1, <1>4 DEF Interrupt, WakeReaders, WakePollers, vars, devVars, thrVars
  <1>5. ASSUME NEW t \in Threads, LockStep(t) PROVE CmdsInOps'
    BY <1>2, <1>5 DEF LockStep, OpenLock, ReleaseLock, IoctlBusy, IoctlLock, ReadLock,
       ReadCtl, PollData, PollHangup, PollWait
  <1>6. ASSUME NEW t \in Threads, RunStep(t) PROVE CmdsInOps'
    <2>1. CASE Reading(t)
      BY <1>1, <2>1 DEF Reading, devVars, thrVars
    <2>2. CASE ResetStep(t) \/ SetBufferSize(t)
      BY <1>2, <2>2 DEF ResetStep, ResetWr, ResetRd, ResetEntries, ResetLost, SetBufferSize
    <2>3. CASE ~(Reading(t) \/ ResetStep(t) \/ SetBufferSize(t))
      BY <1>2, <1>6, <2>3 DEF RunStep, OpenDefaults, ReleaseDisable, ReleaseDefaults,
         ReleaseUnused, CtlUnlock, EnableCtl, EnableMsr, DisableHw, DisableCtl, SetOpt,
         SetPollSize, ResetBuffer, SetupBuffer, SetupBufferFails, ReadData, ReadUnlock,
         ReadNoData, ReadQueue, ReadCond, ReadWoken, PollWoken
    <2> QED BY <2>1, <2>2, <2>3
  <1>7. ASSUME NEW t \in Threads, FreeStep(t) PROVE CmdsInOps'
    <2>1. CASE GetLostCall(t)
      BY <1>1, <2>1 DEF GetLostCall, devVars, thrVars
    <2>2. CASE ReadSignal(t) \/ PollTimeout(t)
      BY <1>2, <2>2 DEF ReadSignal, PollTimeout
    <2>3. CASE OpenTake(t) \/ Release(t) \/ Ioctl(t) \/ ReadCall(t) \/ PollCall(t)
      BY <1>3, <2>3 DEF OpenTake, Release, Ioctl, ReadCall, PollCall
    <2> QED BY <1>7, <2>1, <2>2, <2>3 DEF FreeStep
  <1> QED BY <1>4, <1>5, <1>6, <1>7 DEF Next, ThreadStep

\* One thread alone, and threads that never reset the buffer while the file is
\* open, keep the discipline whatever they do: ResetsApart asks nothing of the
\* tools, which use a device from one thread.
THEOREM SerialResetsAreApart ==
  ASSUME SerialResets
  PROVE  Spec => []ResetsApart
  <1>1. Init => CmdsInOps
    BY DEF Init, CmdsInOps
  <1>2. DevInv /\ CmdsInOps /\ [Next]_vars => CmdsInOps'
    BY CmdsInOpsNext
  <1>3. CmdsInOps => ResetsApart
    <2> SUFFICES ASSUME CmdsInOps, NEW t \in Threads, NEW u \in Threads, cmd[t] \in ResetOps
                 PROVE  /\ tpc[t] \in ResetStates => tpc[u] # "reading"
                        /\ tpc[t] = "alloc" => tpc[u] \notin ReadStates
      BY DEF ResetsApart
    <2>1. Ops \cap ResetOps # {}
      BY DEF CmdsInOps, ResetOps
    <2>2. t = u
      BY <2>1 DEF SerialResets
    <2> QED BY <2>2 DEF ResetStates, ReadStates
  <1> QED BY <1>1, <1>2, <1>3, DeviceInvariant, PTL DEF Spec

-----------------------------------------------------------------------------
(* No wake-up is lost: the safety side of the two stranding properties.    *)

\* A reader asleep on readq while rd # wr has a wake-up coming: the handler has
\* moved wr and will queue the work (handle_ibs_op_event, "inc" or "queue"), or
\* the work is queued and wake_up_queues will empty readq.
ReaderWakeUpDue ==
  \A t \in Threads :
    tpc[t] = "read_sleep" /\ t \in readq /\ rd # wr /\ ~Resetting
      => irq_work \/ npc \in {"inc", "queue"}

\* A step of thread u that neither sends it to sleep nor touches the indices,
\* the handler or the wait queue's other members.
LEMMA ReaderFrame ==
  ASSUME ReaderWakeUpDue, NEW u \in Threads,
         \A t \in Threads : t # u => tpc'[t] = tpc[t],
         tpc'[u] # "read_sleep" \/ (tpc'[u] = tpc[u] /\ readq' \subseteq readq),
         tpc[u] \notin ResetStates \/ tpc'[u] \in ResetStates,
         readq' \subseteq readq \cup {u}, UNCHANGED <<rd, wr, irq_work, npc>>
  PROVE  ReaderWakeUpDue'
  <1> SUFFICES ASSUME NEW t \in Threads, tpc'[t] = "read_sleep", t \in readq', rd' # wr',
                      ~Resetting'
               PROVE  irq_work' \/ npc' \in {"inc", "queue"}
    BY DEF ReaderWakeUpDue
  <1>1. tpc[t] = "read_sleep" /\ t \in readq
    OBVIOUS
  <1>2. ~Resetting
    BY DEF Resetting
  <1> QED BY <1>1, <1>2 DEF ReaderWakeUpDue

\* do_ibs_read moves rd only while there are records.
LEMMA ReadingKeepsDue ==
  ASSUME RingInv, DoIbsRead, rd' # wr'
  PROVE  rd # wr /\ UNCHANGED <<wr, npc>>
  <1>1. UNCHANGED <<wr, npc>> /\ (rd' = rd \/ rpc = "setrd")
    BY DEF DoIbsRead, ReadRd, ReadWr, ReadEntries, CopyStraight, CopyToEnd, CopyFromStart,
       CopyFault, SetRd, SubEntries, atomicVars, nmiVars
  <1>2. ASSUME rpc = "setrd" PROVE rd # wr
    <2>1. l_wr # rd /\ Dist(rd, l_wr) <= Occupancy
      BY <1>2 DEF RingInv, ReaderInv
    <2>2. /\ l_wr \in Slots /\ rd \in Slots /\ wr \in Slots
          /\ capacity \in Capacities
      BY <1>2 DEF RingInv, RingTypeOK
    <2>3. capacity \in Nat /\ l_wr \in Nat /\ rd \in Nat /\ l_wr < capacity /\ rd < capacity
      BY <2>2, RingAssumption DEF Slots
    <2>4. Dist(rd, l_wr) > 0
      BY <2>1, <2>3 DEF Dist
    <2>5. wr = rd => Occupancy = 0
      BY <2>3 DEF Occupancy, Dist
    <2>6. Dist(rd, l_wr) \in Int
      BY <2>3 DEF Dist
    <2> QED BY <2>1, <2>4, <2>5, <2>6
  <1> QED BY <1>1, <1>2

\* The handler queues the work after it has moved wr.
LEMMA InterruptKeepsDue ==
  ASSUME ReaderWakeUpDue, Interrupt
  PROVE  ReaderWakeUpDue'
  <1>1. UNCHANGED <<tpc, readq, rd>>
    BY DEF Interrupt, NmiCheck, NmiLost, NmiStore, NmiSetWr, NmiInc, NmiQueue, NmiOut,
       devVars, thrVars, waitVars, atomicVars
  <1>2. \/ npc' \in {"inc", "queue"} \/ irq_work'
        \/ npc \notin {"inc", "queue"} /\ UNCHANGED <<wr, irq_work>>
    BY DEF Interrupt, NmiCheck, NmiLost, NmiStore, NmiSetWr, NmiInc, NmiQueue, NmiOut,
       devVars, waitVars, atomicVars
  <1> QED BY <1>1, <1>2 DEF ReaderWakeUpDue, Resetting

\* Calls, and the steps of calls that do not concern the sleeping readers.
LEMMA OtherStepsKeepDue ==
  ASSUME DevInv, ReaderWakeUpDue, NEW u \in Threads, ThreadStep(u),
         ~Reading(u), ~ResetStep(u), ~(ReadCond(u) /\ rd = wr)
  PROVE  ReaderWakeUpDue'
  <1>1. ASSUME NEW l \in ThreadStates \ ResetStates, NEW m \in ThreadStates \ {"read_sleep"},
               Step(u, l, m), readq' \subseteq readq \cup {u},
               UNCHANGED <<rd, wr, irq_work, npc>>
        PROVE  ReaderWakeUpDue'
    <2>1. tpc[u] = l /\ tpc'[u] = m /\ \A t \in Threads : t # u => tpc'[t] = tpc[t]
      BY <1>1 DEF Step, Goto, DevInv, DeviceTypeOK
    <2> QED BY <1>1, <2>1, ReaderFrame
  <1>2. ASSUME LockStep(u) PROVE ReaderWakeUpDue'
    <2>1. UNCHANGED <<rd, wr, irq_work, npc, readq>>
      BY <1>2 DEF LockStep, OpenLock, ReleaseLock, IoctlBusy, IoctlLock, ReadLock, ReadCtl,
         PollData, PollHangup, PollWait, ringVars, atomicVars, nmiVars, waitVars
    <2>2. PICK l \in ThreadStates \ ResetStates, m \in ThreadStates \ {"read_sleep"} :
            Step(u, l, m)
      BY <1>2 DEF LockStep, OpenLock, ReleaseLock, IoctlBusy, IoctlLock, ReadLock, ReadCtl,
         PollData, PollHangup, PollWait, ThreadStates, ResetStates
    <2> QED BY <1>1, <2>1, <2>2
  <1>3. ASSUME RunStep(u) PROVE ReaderWakeUpDue'
    <2>1. /\ UNCHANGED <<rd, wr, irq_work, npc>>
          /\ readq' \subseteq readq \cup {u}
      BY <1>3 DEF RunStep, OpenDefaults, ReleaseDisable, ReleaseDefaults, ReleaseUnused,
         CtlUnlock, EnableCtl, EnableMsr, DisableHw, DisableCtl, SetOpt, SetPollSize,
         SetBufferSize, ResetBuffer, SetupBuffer, SetupBufferFails, ReadData, ReadBegin,
         ReadUnlock, ReadNoData, ReadQueue, ReadCond, ReadWoken, PollWoken, ringVars,
         atomicVars, nmiVars, waitVars
    <2>2. PICK l \in ThreadStates \ ResetStates, m \in ThreadStates \ {"read_sleep"} :
            Step(u, l, m)
      BY <1>3 DEF RunStep, OpenDefaults, ReleaseDisable, ReleaseDefaults, ReleaseUnused,
         CtlUnlock, EnableCtl, EnableMsr, DisableHw, DisableCtl, SetOpt, SetPollSize,
         SetBufferSize, ResetBuffer, SetupBuffer, SetupBufferFails, ReadData,
         ReadUnlock, ReadNoData, ReadQueue, ReadCond, ReadWoken, PollWoken, ThreadStates,
         ResetStates
    <2> QED BY <1>1, <2>1, <2>2
  <1>4. ASSUME FreeStep(u) PROVE ReaderWakeUpDue'
    <2>1. /\ UNCHANGED <<rd, wr, irq_work, npc>>
          /\ readq' \subseteq readq
      BY <1>4 DEF FreeStep, OpenTake, Release, Ioctl, GetLostCall, GetLost, ReadCall, PollCall,
         ReadSignal, PollTimeout, ringVars, atomicVars, nmiVars, waitVars, devVars
    <2>2. CASE GetLostCall(u)
      BY <2>1, <2>2, ReaderFrame DEF GetLostCall, devVars, thrVars
    <2>3. CASE ReadSignal(u) \/ PollTimeout(u)
      BY <1>1, <2>1, <2>3 DEF ReadSignal, PollTimeout, ThreadStates, ResetStates
    <2>4. CASE OpenTake(u) \/ Release(u) \/ Ioctl(u) \/ ReadCall(u) \/ PollCall(u)
      <3>1. /\ tpc[u] = "idle" /\ tpc'[u] # "read_sleep"
            /\ \A t \in Threads : t # u => tpc'[t] = tpc[t]
        BY <2>4 DEF OpenTake, Release, Ioctl, ReadCall, PollCall, Call, Goto, DevInv, DeviceTypeOK
      <3> QED BY <2>1, <3>1, ReaderFrame DEF ResetStates
    <2> QED BY <1>4, <2>2, <2>3, <2>4 DEF FreeStep
  <1> QED BY <1>2, <1>3, <1>4 DEF ThreadStep

LEMMA ReaderWakeUpDueNext ==
  ASSUME ResetsApart, DevInv, DevRingInv, ReaderWakeUpDue, [Next]_vars
  PROVE  ReaderWakeUpDue'
  <1>1. CASE Interrupt
    BY <1>1, InterruptKeepsDue
  <1>2. CASE WakeReaders
    BY <1>2 DEF WakeReaders, ReaderWakeUpDue
  <1>3. CASE WakePollers \/ UNCHANGED vars
    BY <1>3 DEF WakePollers, vars, devVars, waitVars, thrVars, ringVars, atomicVars, nmiVars,
       ReaderWakeUpDue, Resetting
  <1>4. ASSUME NEW u \in Threads, Reading(u) PROVE ReaderWakeUpDue'
    <2>1. ~Resetting
      BY <1>4, ResetAlone DEF Reading, Resetting, DevRingInv
    <2>2. RingInv /\ DoIbsRead /\ UNCHANGED <<tpc, readq, irq_work>>
      BY <1>4, <2>1 DEF Reading, DevRingInv, RingState, devVars, thrVars, waitVars
    <2> QED BY <2>1, <2>2, ReadingKeepsDue DEF ReaderWakeUpDue
  <1>5. ASSUME NEW u \in Threads, ResetStep(u) PROVE ReaderWakeUpDue'
    <2>1. CASE ResetLost(u)
      <3>1. tpc[u] = "reset_lost" /\ rd' = rd /\ wr' = wr
        BY <2>1 DEF ResetLost, Step
      <3>2. rd = 0 /\ wr = 0
        BY <3>1 DEF DevRingInv, RingState, HalfReset, ResetStates
      <3> QED BY <3>1, <3>2 DEF ReaderWakeUpDue
    <2>2. CASE ResetWr(u) \/ ResetRd(u) \/ ResetEntries(u)
      <3>1. tpc'[u] \in ResetStates
        BY <2>2 DEF ResetWr, ResetRd, ResetEntries, Step, Goto, DevInv, DeviceTypeOK, ResetStates
      <3> QED BY <3>1 DEF ReaderWakeUpDue, Resetting
    <2> QED BY <1>5, <2>1, <2>2 DEF ResetStep
  <1>6. ASSUME NEW u \in Threads, ReadCond(u), rd = wr PROVE ReaderWakeUpDue'
    BY <1>6 DEF ReadCond, ringVars, atomicVars, ReaderWakeUpDue
  <1> QED BY <1>1, <1>2, <1>3, <1>4, <1>5, <1>6, OtherStepsKeepDue DEF Next

\* No wake-up of a reader is lost between the test of wait_event_interruptible
\* and the sleep, whatever the handler, the bottom half, other readers and resets
\* do meanwhile: with the bottom half's fairness this is ReaderNotStranded.
THEOREM ReaderWakeUpIsDue == Spec /\ []ResetsApart => []ReaderWakeUpDue
  <1>1. Init => ReaderWakeUpDue
    BY DEF Init, ReaderWakeUpDue
  <1>2. ResetsApart /\ DevInv /\ DevRingInv /\ ReaderWakeUpDue /\ [Next]_vars => ReaderWakeUpDue'
    BY ReaderWakeUpDueNext
  <1> QED BY <1>1, <1>2, DeviceInvariant, DeviceRingInvariant, PTL DEF Spec

\* The program counters of a poller that has found too few records.
PollWaits == {"poll_ctl", "poll_sleep"}

\* A poller on pollq that found too few records, while there are enough, has a
\* wake-up coming: the handler has counted the record and will queue the work,
\* the work is queued, or wake_up_queues is about to compare entries with the
\* threshold.
PollerWakeUpDue ==
  \A t \in Threads :
    tpc[t] \in PollWaits /\ t \in pollq /\ entries >= poll_threshold
      => irq_work \/ npc = "queue" \/ bpc = "poll"

\* The discipline it needs: SET_POLL_SIZE wakes nobody, so the threshold is not
\* lowered under a thread asleep in poll.
PollSizeApart ==
  \A t, u \in Threads :
    cmd[t] = "SET_POLL_SIZE" /\ tpc[t] = "switch" => tpc[u] \notin PollWaits

\* A step of thread u that leaves the other pollers, the number of records, the
\* threshold and the way to a wake-up alone.
LEMMA PollerFrame ==
  ASSUME PollerWakeUpDue, NEW u \in Threads,
         \A t \in Threads : t # u => tpc'[t] = tpc[t],
         tpc'[u] \notin PollWaits \/ (tpc[u] \in PollWaits /\ pollq' \subseteq pollq),
         pollq' \subseteq pollq \cup {u},
         UNCHANGED <<entries, poll_threshold, irq_work, npc, bpc>>
  PROVE  PollerWakeUpDue'
  <1> SUFFICES ASSUME NEW t \in Threads, tpc'[t] \in PollWaits, t \in pollq',
                      entries' >= poll_threshold'
               PROVE  irq_work' \/ npc' = "queue" \/ bpc' = "poll"
    BY DEF PollerWakeUpDue
  <1>1. tpc[t] \in PollWaits /\ t \in pollq
    OBVIOUS
  <1> QED BY <1>1 DEF PollerWakeUpDue

\* Nobody polls while the file is opened or closed.
LEMMA NobodyPolls ==
  ASSUME DevInv, NEW t \in Threads, tpc[t] \in {"open_defaults", "rel_defaults"},
         NEW u \in Threads
  PROVE  tpc[u] \notin PollWaits
  <1> SUFFICES ASSUME tpc[u] \in PollWaits PROVE FALSE
    OBVIOUS
  <1>1. cmd[t] \in {"open", "release"} /\ cmd[u] \in {"read", "read_nonblock", "poll"}
    BY DEF DevInv, CallInv, PollWaits, PassiveStates
  <1>2. Exclusive(t)
    BY <1>1 DEF Exclusive
  <1>3. ~opened
    BY <1>2 DEF DevInv, FileInv
  <1>4. tpc[u] # "idle"
    BY DEF PollWaits
  <1> QED BY <1>1, <1>3, <1>4 DEF DevInv, FileInv

\* The number of records is a number also in the middle of a reset.
LEMMA RingEntriesNat == DevRingInv => entries \in Nat
  BY DEF DevRingInv, RingState, Resetting, HalfReset, RingInv, RingTypeOK

\* The handler queues the work after it has counted the record.
LEMMA InterruptKeepsPollDue ==
  ASSUME PollerWakeUpDue, Interrupt
  PROVE  PollerWakeUpDue'
  <1>1. UNCHANGED <<tpc, pollq, bpc, poll_threshold>>
    BY DEF Interrupt, NmiCheck, NmiLost, NmiStore, NmiSetWr, NmiInc, NmiQueue, NmiOut,
       devVars, thrVars, waitVars, ctlVars
  <1>2. \/ npc' = "queue" \/ irq_work'
        \/ npc # "queue" /\ UNCHANGED <<entries, irq_work>>
    BY DEF Interrupt, NmiCheck, NmiLost, NmiStore, NmiSetWr, NmiInc, NmiQueue, NmiOut,
       devVars, waitVars, atomicVars
  <1> QED BY <1>1, <1>2 DEF PollerWakeUpDue

\* do_ibs_read only lowers the number of records.
LEMMA ReadingKeepsPollDue ==
  ASSUME DevInv, RingInv, PollerWakeUpDue, NEW u \in Threads, Reading(u)
  PROVE  PollerWakeUpDue'
  <1>1. UNCHANGED <<tpc, pollq, bpc, poll_threshold, irq_work>>
    BY DEF Reading, devVars, thrVars, waitVars, ctlVars
  <1>2. entries \in Nat /\ l_cnt \in Nat /\ poll_threshold \in Nat
    BY DEF RingInv, RingTypeOK, DevInv, DeviceTypeOK
  <1>3. npc' = npc /\ (entries' = entries \/ entries' = entries - l_cnt)
    BY DEF Reading, DoIbsRead, ReadRd, ReadWr, ReadEntries, CopyStraight, CopyToEnd,
       CopyFromStart, CopyFault, SetRd, SubEntries, atomicVars, nmiVars
  <1>4. entries' >= poll_threshold' => entries >= poll_threshold
    BY <1>1, <1>2, <1>3
  <1> QED BY <1>1, <1>3, <1>4 DEF PollerWakeUpDue

\* Calls, and the steps of calls that do not concern the sleeping pollers.
LEMMA OtherStepsKeepPollDue ==
  ASSUME DevInv, PollerWakeUpDue, NEW u \in Threads, ThreadStep(u),
         ~Reading(u), ~ResetEntries(u), ~OpenDefaults(u), ~ReleaseDefaults(u),
         ~SetPollSize(u), ~PollData(u)
  PROVE  PollerWakeUpDue'
  <1>1. ASSUME NEW l, NEW m, Step(u, l, m),
               m \notin PollWaits \/ (l \in PollWaits /\ pollq' \subseteq pollq),
               pollq' \subseteq pollq \cup {u},
               UNCHANGED <<entries, poll_threshold, irq_work, npc, bpc>>
        PROVE  PollerWakeUpDue'
    <2>1. tpc[u] = l /\ tpc'[u] = m /\ \A t \in Threads : t # u => tpc'[t] = tpc[t]
      BY <1>1 DEF Step, Goto, DevInv, DeviceTypeOK
    <2> QED BY <1>1, <2>1, PollerFrame
  <1>2. ASSUME LockStep(u) PROVE PollerWakeUpDue'
    <2>1. /\ UNCHANGED <<entries, poll_threshold, irq_work, npc, bpc>>
          /\ pollq' \subseteq pollq
      BY <1>2 DEF LockStep, OpenLock, ReleaseLock, IoctlBusy, IoctlLock, ReadLock, ReadCtl,
         PollHangup, PollWait, ringVars, atomicVars, nmiVars, waitVars, ctlVars
    <2>2. \E l \in ThreadStates, m \in ThreadStates :
            Step(u, l, m) /\ (m \notin PollWaits \/ l \in PollWaits)
      BY <1>2 DEF LockStep, OpenLock, ReleaseLock, IoctlBusy, IoctlLock, ReadLock, ReadCtl,
         PollHangup, PollWait, ThreadStates, PollWaits
    <2> QED BY <1>1, <2>1, <2>2
  <1>3. ASSUME RunStep(u) PROVE PollerWakeUpDue'
    <2>1. /\ UNCHANGED <<entries, poll_threshold, irq_work, npc, bpc>>
          /\ pollq' \subseteq pollq \cup {u}
      BY <1>3 DEF RunStep, ReleaseDisable, ReleaseUnused, ResetStep, ResetWr, ResetRd,
         ResetLost, CtlUnlock, EnableCtl, EnableMsr, DisableHw, DisableCtl, SetOpt,
         SetBufferSize, ResetBuffer, SetupBuffer, SetupBufferFails, ReadData, ReadBegin,
         ReadUnlock, ReadNoData, ReadQueue, ReadCond, ReadWoken, PollWoken, ringVars,
         atomicVars, nmiVars, waitVars, ctlVars
    <2>2. \E l \in ThreadStates, m \in ThreadStates \ PollWaits : Step(u, l, m)
      BY <1>3 DEF RunStep, ReleaseDisable, ReleaseUnused, ResetStep, ResetWr, ResetRd,
         ResetLost, CtlUnlock, EnableCtl, EnableMsr, DisableHw, DisableCtl, SetOpt,
         SetBufferSize, ResetBuffer, SetupBuffer, SetupBufferFails, ReadData,
         ReadUnlock, ReadNoData, ReadQueue, ReadCond, ReadWoken, PollWoken, ThreadStates,
         PollWaits
    <2> QED BY <1>1, <2>1, <2>2
  <1>4. ASSUME FreeStep(u) PROVE PollerWakeUpDue'
    <2>1. /\ UNCHANGED <<entries, poll_threshold, irq_work, npc, bpc>>
          /\ pollq' \subseteq pollq \cup {u}
      BY <1>4 DEF FreeStep, OpenTake, Release, Ioctl, GetLostCall, GetLost, ReadCall, PollCall,
         ReadSignal, PollTimeout, ringVars, atomicVars, nmiVars, waitVars, ctlVars, devVars
    <2>2. CASE GetLostCall(u)
      BY <2>2 DEF GetLostCall, GetLost, devVars, thrVars, waitVars, ctlVars, nmiVars,
         PollerWakeUpDue
    <2>3. CASE ReadSignal(u) \/ PollTimeout(u)
      BY <1>1, <2>1, <2>3 DEF ReadSignal, PollTimeout, PollWaits
    <2>4. CASE OpenTake(u) \/ Release(u) \/ Ioctl(u) \/ ReadCall(u) \/ PollCall(u)
      <3>1. /\ tpc'[u] \notin PollWaits
            /\ \A t \in Threads : t # u => tpc'[t] = tpc[t]
        BY <2>4 DEF OpenTake, Release, Ioctl, ReadCall, PollCall, Call, Goto, DevInv,
           DeviceTypeOK, PollWaits
      <3> QED BY <2>1, <3>1, PollerFrame
    <2> QED BY <1>4, <2>2, <2>3, <2>4 DEF FreeStep
  <1> QED BY <1>2, <1>3, <1>4 DEF ThreadStep

LEMMA PollerWakeUpDueNext ==
  ASSUME ResetsApart, PollSizeApart, DevInv, ThresholdInv, DevRingInv, PollerWakeUpDue,
         [Next]_vars
  PROVE  PollerWakeUpDue'
  <1>1. CASE Interrupt
    BY <1>1, InterruptKeepsPollDue
  <1>2. CASE WakeReaders
    BY <1>2 DEF WakeReaders, PollerWakeUpDue
  <1>3. CASE WakePollers
    BY <1>3 DEF WakePollers, PollerWakeUpDue, ringVars, atomicVars, ctlVars
  <1>4. CASE UNCHANGED vars
    BY <1>4 DEF vars, devVars, waitVars, thrVars, ctlVars, ringVars, atomicVars, nmiVars,
       PollerWakeUpDue
  <1>5. ASSUME NEW u \in Threads, Reading(u) PROVE PollerWakeUpDue'
    <2>1. ~Resetting
      BY <1>5, ResetAlone DEF Reading, Resetting, DevRingInv
    <2> QED BY <1>5, <2>1, ReadingKeepsPollDue DEF DevRingInv, RingState
  <1>6. ASSUME NEW u \in Threads, ResetEntries(u) PROVE PollerWakeUpDue'
    <2>1. tpc[u] = "reset_entries" /\ entries' = 0 /\ poll_threshold' = poll_threshold
      BY <1>6 DEF ResetEntries, Step, ctlVars
    <2>2. poll_threshold \in Nat /\ poll_threshold # 0
      BY <2>1 DEF ThresholdInv, DevInv, DeviceTypeOK
    <2> QED BY <2>1, <2>2 DEF PollerWakeUpDue
  <1>7. ASSUME NEW u \in Threads, OpenDefaults(u) \/ ReleaseDefaults(u) \/ SetPollSize(u)
        PROVE  PollerWakeUpDue'
    <2>1. \A t \in Threads : tpc[t] \notin PollWaits
      <3>1. CASE OpenDefaults(u) \/ ReleaseDefaults(u)
        BY <3>1, NobodyPolls DEF OpenDefaults, ReleaseDefaults, Step
      <3>2. CASE SetPollSize(u)
        BY <3>2 DEF SetPollSize, Step, PollSizeApart
      <3> QED BY <1>7, <3>1, <3>2
    <2>2. \A t \in Threads : tpc'[t] = tpc[t] \/ tpc'[t] \in {"reset_wr", "ctl_unlock"}
      BY <1>7 DEF OpenDefaults, ReleaseDefaults, SetPollSize, Step, Goto, DevInv, DeviceTypeOK
    <2> QED BY <2>1, <2>2 DEF PollerWakeUpDue, PollWaits
  <1>8. ASSUME NEW u \in Threads, PollData(u) PROVE PollerWakeUpDue'
    <2>1. UNCHANGED <<entries, poll_threshold, irq_work, npc, bpc>> /\ pollq' \subseteq pollq
      BY <1>8 DEF PollData, ringVars, atomicVars, nmiVars, ctlVars
    <2>2. \A t \in Threads : t # u => tpc'[t] = tpc[t]
      BY <1>8 DEF PollData, Step, Goto, DevInv, DeviceTypeOK
    <2>3. CASE entries >= poll_threshold
      <3>1. entries \in Nat /\ poll_threshold \in Nat
        BY RingEntriesNat DEF DevInv, DeviceTypeOK
      <3>2. tpc'[u] = "idle"
        BY <1>8, <2>3, <3>1 DEF PollData, Step, Goto, DevInv, DeviceTypeOK
      <3> QED BY <2>1, <2>2, <3>2, PollerFrame DEF PollWaits
    <2>4. CASE ~(entries >= poll_threshold)
      BY <2>1, <2>4 DEF PollerWakeUpDue
    <2> QED BY <2>3, <2>4
  <1> QED BY <1>1, <1>2, <1>3, <1>4, <1>5, <1>6, <1>7, <1>8, OtherStepsKeepPollDue DEF Next

\* No wake-up of a poller is lost between the comparison in ibs_poll under
\* read_lock, the test of the enable bit under ctl_lock and the sleep: with the
\* bottom half's fairness this is PollerNotStranded.
THEOREM PollerWakeUpIsDue == Spec /\ []ResetsApart /\ []PollSizeApart => []PollerWakeUpDue
  <1>1. Init => PollerWakeUpDue /\ ThresholdInv
    BY DEF Init, PollerWakeUpDue, PollWaits, ThresholdInv
  <1>2. ResetsApart /\ PollSizeApart /\ DevInv /\ ThresholdInv /\ DevRingInv
          /\ PollerWakeUpDue /\ [Next]_vars => PollerWakeUpDue'
    BY PollerWakeUpDueNext
  <1>3. DevInv /\ ThresholdInv /\ [Next]_vars => ThresholdInv'
    BY ThresholdStep
  <1> QED BY <1>1, <1>2, <1>3, DeviceInvariant, DeviceRingInvariant, PTL DEF Spec

\* One thread alone keeps both disciplines, so the tools never miss a wake-up.
THEOREM SerialThreadsWakeUp ==
  ASSUME \A t, u \in Threads : t = u
  PROVE  Spec => [](ReaderWakeUpDue /\ PollerWakeUpDue)
  <1>1. SerialResets
    BY DEF SerialResets
  <1>2. PollSizeApart
    <2>1. ASSUME NEW t \in Threads, NEW u \in Threads, tpc[t] = "switch"
          PROVE  tpc[u] \notin PollWaits
      <3>1. t = u
        OBVIOUS
      <3> QED BY <2>1, <3>1 DEF PollWaits
    <2> QED BY <2>1 DEF PollSizeApart
  <1> QED BY <1>1, <1>2, SerialResetsAreApart, ReaderWakeUpIsDue, PollerWakeUpIsDue, PTL
=============================================================================
