----------------------------- MODULE IbsDevice -----------------------------
(***************************************************************************)
(* One IBS device node (struct ibs_dev) and the threads that use it: the   *)
(* file operations of driver/ibs-fops.c over the sample ring of IbsRing,   *)
(* the two mutexes, the two wait queues and the bottom half that wakes     *)
(* them (driver/ibs-interrupt.c).                                          *)
(*                                                                         *)
(* All threads share one open file, as threads of one process do.  The     *)
(* constant Ops selects the calls that the threads of an instance make.    *)
(* The control register is abstracted to its enable bit and one value opt  *)
(* for the option fields (counts, count control, randomization); msr is    *)
(* what the hardware register holds, ctl the driver's copy.                *)
(*                                                                         *)
(* The interrupt handler, the bottom half and the remote register writes   *)
(* run on the device's CPU: none of the last two runs while npc # "idle".  *)
(***************************************************************************)
EXTENDS IbsRing, FiniteSets

CONSTANTS Threads,      \* the threads of the process
          Ops,          \* the calls they make, a subset of AllOps
          Opts,         \* values of the option fields
          DefaultOpt,   \* the fields' values after set_ibs_defaults
          AllocFails,   \* TRUE: vmalloc may fail
          None          \* no thread, no option

AllOps == {"open", "release", "read", "read_nonblock", "poll", "get_lost",
           "IBS_ENABLE", "IBS_DISABLE", "SET_OPT", "SET_POLL_SIZE",
           "SET_BUFFER_SIZE", "RESET_BUFFER"}

\* The commands refused with -EBUSY while IBS is enabled.
SetCmds == {"SET_OPT", "SET_POLL_SIZE", "SET_BUFFER_SIZE", "RESET_BUFFER"}
CtlCmds == SetCmds \cup {"IBS_ENABLE", "IBS_DISABLE"}

ASSUME DeviceAssumption == /\ Ops \subseteq AllOps
                           /\ DefaultOpt \in Opts
                           /\ AllocFails \in BOOLEAN
                           /\ None \notin Threads /\ None \notin Opts

VARIABLES
  ctl, msr,             \* dev->ctl and the control MSR: [en, opt]
  poll_threshold,       \* dev->poll_threshold
  allocated,            \* whether dev->buf points to allocated memory
  in_use, opened,       \* dev->in_use; whether the file is open
  ctl_lock, read_lock,  \* owners of the mutexes
  readq, pollq,         \* threads queued and not woken since
  irq_work, bpc,        \* the bottom half: pending, program counter
  tpc, cmd, arg,        \* per thread: program counter, call, argument
  base                  \* history: value of stored when the file was opened

ctlVars  == <<ctl, msr, poll_threshold>>
fileVars == <<allocated, in_use, opened, base>>
waitVars == <<readq, pollq, irq_work, bpc>>
thrVars  == <<tpc, cmd, arg>>
lockVars == <<ctl_lock, read_lock>>
devVars  == <<ctlVars, fileVars, waitVars, thrVars, lockVars>>
vars     == <<ringVars, devVars>>

\* Program counters.  reset_* is reset_ibs_buffer, called from several places.
ThreadStates ==
  {"idle", "open_lock", "open_defaults", "rel_lock", "rel_disable",
   "rel_defaults", "rel_unused", "ctl_lock", "switch", "enable_msr",
   "disable_ctl", "alloc", "reset_wr", "reset_rd", "reset_entries",
   "reset_lost", "ctl_unlock", "read_lock", "read_test", "reading",
   "read_ctl", "read_queue", "read_cond", "read_sleep", "poll_data",
   "poll_ctl", "poll_sleep"}

\* The control register written with zero.
MsrZero == [en |-> FALSE, opt |-> None]

ResetStates == {"reset_wr", "reset_rd", "reset_entries", "reset_lost"}

\* The device after ibs_init: zeroed per-CPU memory, with a buffer.
Init ==
  /\ RingInit
  /\ ctl = MsrZero
  /\ msr = MsrZero
  /\ poll_threshold = 0
  /\ allocated = TRUE /\ in_use = FALSE /\ opened = FALSE /\ base = 0
  /\ ctl_lock = None /\ read_lock = None
  /\ readq = {} /\ pollq = {} /\ irq_work = FALSE /\ bpc = "idle"
  /\ tpc = [t \in Threads |-> "idle"]
  /\ cmd = [t \in Threads |-> "none"]
  /\ arg = [t \in Threads |-> 0]

Goto(t, l) == tpc' = [tpc EXCEPT ![t] = l]

\* Thread t moves from l to m; its call and argument live until it returns.
Step(t, l, m) ==
  /\ tpc[t] = l
  /\ Goto(t, m)
  /\ cmd' = IF m = "idle" THEN [cmd EXCEPT ![t] = "none"] ELSE cmd
  /\ arg' = IF m = "idle" THEN [arg EXCEPT ![t] = 0] ELSE arg

\* Thread t enters call c with argument a.
Call(t, c, a, l) ==
  /\ c \in Ops
  /\ tpc[t] = "idle"
  /\ Goto(t, l)
  /\ cmd' = [cmd EXCEPT ![t] = c]
  /\ arg' = [arg EXCEPT ![t] = a]

-----------------------------------------------------------------------------
(* The interrupt handler and the bottom half.                              *)

\* The handlers run when the sampling hardware is enabled; re-arming it at
\* out: writes the driver's copy of the control register.
Interrupt ==
  \/ NmiCheck /\ msr.en /\ UNCHANGED devVars
  \/ (NmiLost \/ NmiStore \/ NmiSetWr \/ NmiInc) /\ UNCHANGED devVars
  \/ /\ NmiQueue
     /\ irq_work' = TRUE
     /\ UNCHANGED <<ctlVars, fileVars, readq, pollq, bpc, thrVars, lockVars>>
  \/ /\ NmiOut
     /\ msr' = ctl
     /\ UNCHANGED <<ctl, poll_threshold, fileVars, waitVars, thrVars, lockVars>>

\* handle_ibs_work -> wake_up_queues: wake the readers ...
WakeReadersNone ==
  /\ irq_work /\ npc = "idle" /\ bpc = "idle"
  /\ irq_work' = FALSE
  /\ bpc' = "poll"
  /\ UNCHANGED <<ringVars, ctlVars, fileVars, readq, pollq, thrVars, lockVars>>
WakeReaders ==
  /\ irq_work /\ npc = "idle" /\ bpc = "idle"
  /\ irq_work' = FALSE
  /\ readq' = {}
  /\ bpc' = "poll"
  /\ UNCHANGED <<ringVars, ctlVars, fileVars, pollq, thrVars, lockVars>>

\* ... and, if there is enough data, the pollers.
WakePollersStrict ==
  /\ bpc = "poll" /\ npc = "idle"
  /\ pollq' = IF entries > poll_threshold THEN {} ELSE pollq
  /\ bpc' = "idle"
  /\ UNCHANGED <<ringVars, ctlVars, fileVars, readq, irq_work, thrVars, lockVars>>
WakePollers ==
  /\ bpc = "poll" /\ npc = "idle"
  /\ pollq' = IF entries >= poll_threshold THEN {} ELSE pollq
  /\ bpc' = "idle"
  /\ UNCHANGED <<ringVars, ctlVars, fileVars, readq, irq_work, thrVars, lockVars>>

-----------------------------------------------------------------------------
(* Locks and reset_ibs_buffer.                                             *)

LockCtl(t) == ctl_lock = None /\ ctl_lock' = t
UnlockCtl  == ctl_lock' = None

\* reset_ibs_buffer: four atomic stores.  Whatever was unread is gone; the
\* history counters follow.
ResetWr(t) ==
  /\ Step(t, "reset_wr", "reset_rd")
  /\ wr' = 0
  /\ UNCHANGED <<capacity, buf, rd, entries, lost, nmiVars, rpc, want, l_rd, l_wr, l_cnt,
                 ubuf, taken, reported, ctlVars, fileVars, waitVars, lockVars>>

ResetRdKept(t) ==
  /\ Step(t, "reset_rd", "reset_entries")
  /\ taken' = stored
  /\ UNCHANGED <<capacity, buf, atomicVars, nmiVars, rpc, want, l_rd, l_wr, l_cnt,
                 ubuf, reported, ctlVars, fileVars, waitVars, lockVars>>
ResetRd(t) ==
  /\ Step(t, "reset_rd", "reset_entries")
  /\ rd' = 0
  /\ taken' = stored
  /\ UNCHANGED <<capacity, buf, wr, entries, lost, nmiVars, rpc, want, l_rd, l_wr, l_cnt,
                 ubuf, reported, ctlVars, fileVars, waitVars, lockVars>>

ResetEntriesKept(t) ==
  /\ Step(t, "reset_entries", "reset_lost")
  /\ UNCHANGED <<capacity, buf, atomicVars, nmiVars, rpc, want, l_rd, l_wr, l_cnt,
                 ubuf, taken, reported, ctlVars, fileVars, waitVars, lockVars>>
ResetEntries(t) ==
  /\ Step(t, "reset_entries", "reset_lost")
  /\ entries' = 0
  /\ UNCHANGED <<capacity, buf, wr, rd, lost, nmiVars, rpc, want, l_rd, l_wr, l_cnt,
                 ubuf, taken, reported, ctlVars, fileVars, waitVars, lockVars>>

ResetLost(t) ==
  /\ Step(t, "reset_lost", IF cmd[t] = "release" THEN "rel_unused" ELSE "ctl_unlock")
  /\ lost' = 0
  /\ reported' = reported + lost
  /\ UNCHANGED <<capacity, buf, wr, rd, entries, nmiVars, rpc, want, l_rd, l_wr, l_cnt,
                 ubuf, taken, ctlVars, fileVars, waitVars, lockVars>>

ResetStep(t) == ResetWr(t) \/ ResetRd(t) \/ ResetEntries(t) \/ ResetLost(t)

\* mutex_unlock(&dev->ctl_lock) and return; for open the file is now usable.
CtlUnlock(t) ==
  /\ Step(t, "ctl_unlock", "idle")
  /\ UnlockCtl
  /\ opened' = (opened \/ cmd[t] = "open")
  /\ UNCHANGED <<ringVars, ctlVars, allocated, in_use, base, waitVars, read_lock>>

-----------------------------------------------------------------------------
(* ibs_open and ibs_release.                                               *)

\* atomic_cmpxchg(&dev->in_use, 0, 1); a thread that loses gets -EBUSY.
OpenTake(t) ==
  /\ Call(t, "open", 0, "open_lock")
  /\ ~in_use
  /\ in_use' = TRUE
  /\ UNCHANGED <<ringVars, ctlVars, allocated, opened, base, waitVars, lockVars>>

OpenLock(t) ==
  /\ Step(t, "open_lock", "open_defaults")
  /\ LockCtl(t)
  /\ UNCHANGED <<ringVars, ctlVars, fileVars, waitVars, read_lock>>

SetIbsDefaults ==
  /\ poll_threshold' = 1
  /\ ctl' = [en |-> FALSE, opt |-> DefaultOpt]

OpenDefaults(t) ==
  /\ Step(t, "open_defaults", "reset_wr")
  /\ SetIbsDefaults
  /\ base' = stored
  /\ UNCHANGED <<ringVars, msr, allocated, in_use, opened, waitVars, lockVars>>

\* The last reference to the file is dropped: no call is in progress on it.
Release(t) ==
  /\ Call(t, "release", 0, "rel_lock")
  /\ opened
  /\ \A u \in Threads : tpc[u] = "idle"
  /\ opened' = FALSE
  /\ UNCHANGED <<ringVars, ctlVars, allocated, in_use, base, waitVars, lockVars>>

ReleaseLock(t) ==
  /\ Step(t, "rel_lock", "rel_disable")
  /\ LockCtl(t)
  /\ UNCHANGED <<ringVars, ctlVars, fileVars, waitVars, read_lock>>

\* disable_ibs_op_on_cpu / disable_ibs_fetch_on_cpu: a call on the device's
\* CPU that zeroes the register and returns when it is done.
DisableMsr == npc = "idle" /\ msr' = MsrZero

ReleaseNoDisable(t) ==
  /\ Step(t, "rel_disable", "rel_defaults")
  /\ UNCHANGED <<ringVars, ctlVars, fileVars, waitVars, lockVars>>
ReleaseDisable(t) ==
  /\ Step(t, "rel_disable", "rel_defaults")
  /\ DisableMsr
  /\ UNCHANGED <<ringVars, ctl, poll_threshold, fileVars, waitVars, lockVars>>

ReleaseDefaults(t) ==
  /\ Step(t, "rel_defaults", "reset_wr")
  /\ SetIbsDefaults
  /\ UNCHANGED <<ringVars, msr, fileVars, waitVars, lockVars>>

ReleaseUnused(t) ==
  /\ Step(t, "rel_unused", "ctl_unlock")
  /\ in_use' = FALSE
  /\ UNCHANGED <<ringVars, ctlVars, allocated, opened, base, waitVars, lockVars>>

-----------------------------------------------------------------------------
(* ibs_ioctl: the commands that take ctl_lock.                             *)

\* Arguments tried for a command; 0 is below the size of one entry and below
\* the least poll size.
ArgsOf(c) == CASE c = "SET_OPT" -> Opts
               [] c = "SET_POLL_SIZE" -> Capacities \cup {0}
               [] c = "SET_BUFFER_SIZE" -> Capacities \cup {0}
               [] OTHER -> {0}

Ioctl(t) ==
  /\ opened
  /\ \E c \in CtlCmds \cap Ops : \E a \in ArgsOf(c) : Call(t, c, a, "ctl_lock")
  /\ UNCHANGED <<ringVars, ctlVars, fileVars, waitVars, lockVars>>

\* "For SET* commands, ensure IBS is disabled".
RefusedUnlessOpt(t) == cmd[t] \in SetCmds \ {"SET_OPT"} /\ ctl.en
Refused(t) == cmd[t] \in SetCmds /\ ctl.en

IoctlBusy(t) ==
  /\ Step(t, "ctl_lock", "idle")
  /\ ctl_lock = None
  /\ Refused(t)
  /\ UNCHANGED <<ringVars, ctlVars, fileVars, waitVars, lockVars>>

IoctlLock(t) ==
  /\ Step(t, "ctl_lock", "switch")
  /\ LockCtl(t)
  /\ ~Refused(t)
  /\ UNCHANGED <<ringVars, ctlVars, fileVars, waitVars, read_lock>>

\* IBS_ENABLE: set the bit in the copy, then write the copy to the hardware.
EnableCtl(t) ==
  /\ cmd[t] = "IBS_ENABLE"
  /\ Step(t, "switch", "enable_msr")
  /\ ctl' = [ctl EXCEPT !.en = TRUE]
  /\ UNCHANGED <<ringVars, msr, poll_threshold, fileVars, waitVars, lockVars>>

EnableMsr(t) ==
  /\ Step(t, "enable_msr", "ctl_unlock")
  /\ npc = "idle"
  /\ msr' = ctl
  /\ UNCHANGED <<ringVars, ctl, poll_threshold, fileVars, waitVars, lockVars>>

\* IBS_DISABLE: stop the hardware, then clear the bit in the copy.
DisableHw(t) ==
  /\ cmd[t] = "IBS_DISABLE"
  /\ Step(t, "switch", "disable_ctl")
  /\ DisableMsr
  /\ UNCHANGED <<ringVars, ctl, poll_threshold, fileVars, waitVars, lockVars>>

DisableCtl(t) ==
  /\ Step(t, "disable_ctl", "ctl_unlock")
  /\ ctl' = [ctl EXCEPT !.en = FALSE]
  /\ UNCHANGED <<ringVars, msr, poll_threshold, fileVars, waitVars, lockVars>>

\* SET_CUR_CNT, SET_CNT, SET_MAX_CNT, SET_CNT_CTL, SET_RAND_EN.
SetOpt(t) ==
  /\ cmd[t] = "SET_OPT"
  /\ Step(t, "switch", "ctl_unlock")
  /\ ctl' = [ctl EXCEPT !.opt = arg[t]]
  /\ UNCHANGED <<ringVars, msr, poll_threshold, fileVars, waitVars, lockVars>>

SetPollSize(t) ==
  /\ cmd[t] = "SET_POLL_SIZE"
  /\ Step(t, "switch", "ctl_unlock")
  /\ poll_threshold' = IF 0 < arg[t] /\ arg[t] < capacity THEN arg[t]
                                                          ELSE poll_threshold
  /\ UNCHANGED <<ringVars, ctl, msr, fileVars, waitVars, lockVars>>

\* SET_BUFFER_SIZE: too small (-EINVAL); unchanged (only reset); or free ...
SetBufferSize(t) ==
  /\ cmd[t] = "SET_BUFFER_SIZE"
  /\ \/ /\ arg[t] < 1
        /\ Step(t, "switch", "ctl_unlock")
        /\ UNCHANGED allocated
     \/ /\ arg[t] = capacity
        /\ Step(t, "switch", "reset_wr")
        /\ UNCHANGED allocated
     \/ /\ arg[t] >= 1 /\ arg[t] # capacity
        /\ Step(t, "switch", "alloc")
        /\ allocated' = FALSE
  /\ UNCHANGED <<ringVars, ctlVars, in_use, opened, base, waitVars, lockVars>>

\* ... and setup_ibs_buffer: allocate, set size and capacity, reset; when
\* vmalloc fails dev->buf, size and capacity are left as they were.
SetupBuffer(t) ==
  /\ Step(t, "alloc", "reset_wr")
  /\ allocated' = TRUE
  /\ capacity' = arg[t]
  /\ buf' = [s \in 0 .. arg[t] - 1 |-> NoRecord]
  /\ UNCHANGED <<atomicVars, nmiVars, readerVars, reported, ctlVars, in_use,
                 opened, base, waitVars, lockVars>>

SetupBufferFails(t) ==
  /\ AllocFails
  /\ Step(t, "alloc", "ctl_unlock")
  /\ UNCHANGED <<ringVars, ctlVars, fileVars, waitVars, lockVars>>

ResetBuffer(t) ==
  /\ cmd[t] = "RESET_BUFFER"
  /\ Step(t, "switch", "reset_wr")
  /\ UNCHANGED <<ringVars, ctlVars, fileVars, waitVars, lockVars>>

\* GET_LOST takes no lock.
GetLostCall(t) ==
  /\ "get_lost" \in Ops
  /\ opened /\ tpc[t] = "idle"
  /\ GetLost
  /\ UNCHANGED devVars

-----------------------------------------------------------------------------
(* ibs_read.                                                               *)

\* A count below one entry or above the buffer's size returns -EINVAL.
ReadCall(t) ==
  /\ opened
  /\ \E c \in {"read", "read_nonblock"}, n \in 1 .. capacity :
        Call(t, c, n, "read_lock")
  /\ UNCHANGED <<ringVars, ctlVars, fileVars, waitVars, lockVars>>

ReadLock(t) ==
  /\ Step(t, "read_lock", "read_test")
  /\ read_lock = None
  /\ read_lock' = t
  /\ UNCHANGED <<ringVars, ctlVars, fileVars, waitVars, ctl_lock>>

\* while (!atomic_long_read(&dev->entries)): data, so do_ibs_read ...
ReadData(t) ==
  /\ Step(t, "read_test", "reading")
  /\ ReadBegin(arg[t])
  /\ UNCHANGED <<ctlVars, fileVars, waitVars, lockVars>>

Reading(t) == tpc[t] = "reading" /\ DoIbsRead /\ UNCHANGED devVars

ReadUnlock(t) ==
  /\ Step(t, "reading", "idle")
  /\ rpc = "idle"
  /\ read_lock' = None
  /\ UNCHANGED <<ringVars, ctlVars, fileVars, waitVars, ctl_lock>>

\* ... or no data: drop the lock and look at the enable bit.
ReadNoDataLocked(t) ==
  /\ Step(t, "read_test", "read_ctl")
  /\ entries = 0
  /\ UNCHANGED <<ringVars, ctlVars, fileVars, waitVars, lockVars>>
ReadNoData(t) ==
  /\ Step(t, "read_test", "read_ctl")
  /\ entries = 0
  /\ read_lock' = None
  /\ UNCHANGED <<ringVars, ctlVars, fileVars, waitVars, ctl_lock>>

\* Disabled: return 0.  O_NONBLOCK: return -EAGAIN.
ReadCtl(t) ==
  /\ ctl_lock = None
  /\ Step(t, "read_ctl", IF ctl.en /\ cmd[t] = "read" THEN "read_queue" ELSE "idle")
  /\ UNCHANGED <<ringVars, ctlVars, fileVars, waitVars, lockVars>>

\* wait_event_interruptible(dev->readq, rd != wr): enqueue, then test, so that
\* a wake-up after the test is not lost.
ReadQueue(t) ==
  /\ Step(t, "read_queue", "read_cond")
  /\ readq' = readq \cup {t}
  /\ UNCHANGED <<ringVars, ctlVars, fileVars, pollq, irq_work, bpc, lockVars>>

ReadCond(t) ==
  /\ \/ /\ rd # wr
        /\ Step(t, "read_cond", "read_lock")
        /\ readq' = readq \ {t}
     \/ /\ rd = wr
        /\ Step(t, "read_cond", "read_sleep")
        /\ UNCHANGED readq
  /\ UNCHANGED <<ringVars, ctlVars, fileVars, pollq, irq_work, bpc, lockVars>>

ReadWoken(t) ==
  /\ Step(t, "read_sleep", "read_queue")
  /\ t \notin readq
  /\ UNCHANGED <<ringVars, ctlVars, fileVars, waitVars, lockVars>>

\* A signal: -ERESTARTSYS.
ReadSignal(t) ==
  /\ Step(t, "read_sleep", "idle")
  /\ readq' = readq \ {t}
  /\ UNCHANGED <<ringVars, ctlVars, fileVars, pollq, irq_work, bpc, lockVars>>

-----------------------------------------------------------------------------
(* ibs_poll, called by select, poll or epoll (external).                   *)

\* poll_wait registers the caller on pollq before the state is examined.
PollCall(t) ==
  /\ opened
  /\ Call(t, "poll", 0, "poll_data")
  /\ pollq' = pollq \cup {t}
  /\ UNCHANGED <<ringVars, ctlVars, fileVars, readq, irq_work, bpc, lockVars>>

\* Under read_lock: enough data is POLLIN | POLLRDNORM.
PollData(t) ==
  /\ read_lock = None
  /\ \/ /\ entries >= poll_threshold
        /\ Step(t, "poll_data", "idle")
        /\ pollq' = pollq \ {t}
     \/ /\ entries < poll_threshold
        /\ Step(t, "poll_data", "poll_ctl")
        /\ UNCHANGED pollq
  /\ UNCHANGED <<ringVars, ctlVars, fileVars, readq, irq_work, bpc, lockVars>>

\* Under ctl_lock: a disabled device is POLLHUP ...
PollHangup(t) ==
  /\ ctl_lock = None
  /\ ~ctl.en
  /\ Step(t, "poll_ctl", "idle")
  /\ pollq' = pollq \ {t}
  /\ UNCHANGED <<ringVars, ctlVars, fileVars, readq, irq_work, bpc, lockVars>>

\* ... otherwise the caller sleeps until woken (then asks again) or timed out.
PollWait(t) ==
  /\ ctl_lock = None
  /\ ctl.en
  /\ Step(t, "poll_ctl", "poll_sleep")
  /\ UNCHANGED <<ringVars, ctlVars, fileVars, waitVars, lockVars>>

PollWoken(t) ==
  /\ Step(t, "poll_sleep", "poll_data")
  /\ t \notin pollq
  /\ pollq' = pollq \cup {t}
  /\ UNCHANGED <<ringVars, ctlVars, fileVars, readq, irq_work, bpc, lockVars>>

PollTimeout(t) ==
  /\ Step(t, "poll_sleep", "idle")
  /\ pollq' = pollq \ {t}
  /\ UNCHANGED <<ringVars, ctlVars, fileVars, readq, irq_work, bpc, lockVars>>

-----------------------------------------------------------------------------
\* Steps that wait for a mutex.
LockStep(t) ==
  \/ OpenLock(t) \/ ReleaseLock(t) \/ IoctlBusy(t) \/ IoctlLock(t)
  \/ ReadLock(t) \/ ReadCtl(t) \/ PollData(t) \/ PollHangup(t) \/ PollWait(t)

\* Steps a thread takes inside a call without waiting for a mutex.
RunStep(t) ==
  \/ OpenDefaults(t) \/ ReleaseDisable(t) \/ ReleaseDefaults(t) \/ ReleaseUnused(t)
  \/ ResetStep(t) \/ CtlUnlock(t)
  \/ EnableCtl(t) \/ EnableMsr(t) \/ DisableHw(t) \/ DisableCtl(t)
  \/ SetOpt(t) \/ SetPollSize(t) \/ SetBufferSize(t) \/ ResetBuffer(t)
  \/ SetupBuffer(t) \/ SetupBufferFails(t)
  \/ ReadData(t) \/ Reading(t) \/ ReadUnlock(t) \/ ReadNoData(t)
  \/ ReadQueue(t) \/ ReadCond(t) \/ ReadWoken(t) \/ PollWoken(t)

\* Steps nothing obliges a thread to take.
FreeStep(t) ==
  \/ OpenTake(t) \/ Release(t) \/ Ioctl(t) \/ GetLostCall(t)
  \/ ReadCall(t) \/ PollCall(t) \/ ReadSignal(t) \/ PollTimeout(t)

ThreadStep(t) == LockStep(t) \/ RunStep(t) \/ FreeStep(t)

Next == Interrupt \/ WakeReaders \/ WakePollers \/ \E t \in Threads : ThreadStep(t)

Spec == Init /\ [][Next]_vars

\* A handler that has started finishes, the bottom half runs, a runnable
\* thread runs, and a mutex is granted to a thread that keeps asking for it.
\* New samples, new calls, signals and timeouts are never guaranteed.
Fairness ==
  /\ WF_vars(npc # "idle" /\ Interrupt)
  /\ WF_vars(WakeReaders) /\ WF_vars(WakePollers)
  /\ \A t \in Threads : WF_vars(RunStep(t)) /\ SF_vars(LockStep(t))

FairSpec == Spec /\ Fairness

-----------------------------------------------------------------------------
(* Properties.                                                             *)

\* Types of the device's own state.
DeviceTypeOK ==
  /\ ctl \in [en : BOOLEAN, opt : Opts \cup {None}]
  /\ msr \in [en : BOOLEAN, opt : Opts \cup {None}]
  /\ poll_threshold \in Nat
  /\ allocated \in BOOLEAN /\ in_use \in BOOLEAN /\ opened \in BOOLEAN
  /\ ctl_lock \in Threads \cup {None} /\ read_lock \in Threads \cup {None}
  /\ readq \subseteq Threads /\ pollq \subseteq Threads
  /\ irq_work \in BOOLEAN /\ bpc \in {"idle", "poll"}
  /\ tpc \in [Threads -> ThreadStates]
  /\ cmd \in [Threads -> AllOps \cup {"none"}]
  /\ arg \in [Threads -> Nat \cup Opts]

\* The hardware samples only while the driver's copy says so, and with the
\* options the user sees there: no order of ENABLE, DISABLE, SET_*, close and
\* re-open, and no handler re-arming the register meanwhile, leaves the
\* hardware on behind the driver's back or running with stale options.
HardwareFollowsCtl == msr.en => msr = ctl /\ in_use

\* On an open device poll never reports an empty ring as readable: no order of
\* open, SET_POLL_SIZE and close leaves the threshold at zero, where the
\* device starts.
PollNeedsData == opened => poll_threshold # 0

\* While a thread resets or replaces the buffer no handler runs and none can
\* start: this, not a lock, is what protects the ring's indices, since the
\* handler cannot take ctl_lock.
ResetIsQuiet ==
  (\E t \in Threads : tpc[t] \in ResetStates \cup {"alloc"})
    => npc = "idle" /\ ~msr.en

\* Outside reset_ibs_buffer the counters and the records in the ring agree,
\* whatever configuration calls came before, unless vmalloc failed.
RingConsistent ==
  allocated /\ (\A t \in Threads : tpc[t] \notin ResetStates)
    => wr \in Slots /\ rd \in Slots /\ EntriesAccounting /\ LiveRecords

\* A record delivered to a user was sampled since that user opened the device.
SessionIsolation ==
  allocated /\ rpc = "setrd" => \A i \in 1 .. l_cnt : ubuf[i] = NoRecord \/ ubuf[i] > base

\* Whatever sequence of resets, resizes, closes and re-opens came before, a read
\* gets, place by place, the records sampled after the last one that was read or
\* thrown away, and all it is told it got if no sample arrived between its loads
\* of wr and entries: a reset or a new buffer does not shift, repeat or revive a
\* record.  Up to a failed vmalloc.
OrderAcrossResets == allocated => DeliveredInOrder /\ CleanReadIsExact

\* "buffer occupancy in entries" (struct ibs_dev): with no call and no handler
\* in progress, entries is the number of records between rd and wr.
OccupancyWhenIdle ==
  npc = "idle" /\ (\A t \in Threads : tpc[t] = "idle") => entries = Occupancy

\* The mutual exclusion of calls never leaves one waiting forever: every call
\* returns or goes to sleep in read or poll.
CallsFinish ==
  \A t \in Threads : tpc[t] # "idle" ~> tpc[t] \in {"idle", "read_sleep", "poll_sleep"}

\* No lost wake-up: a reader is not left asleep on a ring that has records.
ReaderNotStranded ==
  \A t \in Threads : ~<>[](tpc[t] = "read_sleep" /\ rd # wr)

\* Nor is a poller left asleep when enough records are there.
PollerNotStranded ==
  \A t \in Threads : ~<>[](tpc[t] = "poll_sleep" /\ entries >= poll_threshold)
=============================================================================
