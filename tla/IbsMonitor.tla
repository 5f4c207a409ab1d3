----------------------------- MODULE IbsMonitor -----------------------------
(***************************************************************************)
(* The monitor (tools/ibs_monitor/ibs_monitor.c): it enables the devices   *)
(* of the wanted flavors, starts a program, collects samples until the     *)
(* program ends, flushes the rings and disables the devices.               *)
(*                                                                         *)
(* Device d is the op device of CPU d, or the fetch device of CPU          *)
(* d - NumCpus.  The driver appears as its calls behave for one reader: a  *)
(* ring of Capacity slots that holds one record less, a counter of lost    *)
(* samples, the enable bit, and a release when the last descriptor goes.   *)
(* Descriptors are inherited by the program and by what it starts ("heir", *)
(* which may outlive it): none is opened with O_CLOEXEC.                   *)
(*                                                                         *)
(* A CPU that goes offline stops sampling but leaves the driver's enable   *)
(* bit set, so to the monitor it is a device without further samples.      *)
(***************************************************************************)
EXTENDS Integers, Sequences, FiniteSetsExt

CONSTANTS NumCpus,      \* CPUs on the list of online CPUs
          Capacity,     \* buffer_size / sizeof an entry
          PollArgs,     \* arguments of SET_POLL_SIZE: poll_percent of Capacity
          MaxEvents     \* bound on the samples taken

\* The smallest buffer (1 kB) holds more than one entry.
ASSUME MonitorAssumption == /\ NumCpus \in Nat \ {0}
                            /\ Capacity \in Nat \ {0, 1}
                            /\ PollArgs \subseteq 0 .. Capacity
                            /\ MaxEvents \in Nat

Devs == 1 .. 2 * NumCpus
FlavorOf(d) == IF d <= NumCpus THEN "op" ELSE "fetch"
Flavors == {"op", "fetch"}

VARIABLES
  flavors, asked,       \* options: flavors, argument of SET_POLL_SIZE
  pc, i,                \* statement of main and loop index
  fds,                  \* struct pollfd *fds: the enabled devices, op first
  revents,              \* indices that poll marked
  n, nlost,             \* per flavor: n_*_samples, n_lost_*_samples
  up, spawned,          \* the program and its heir while alive; heir started
  mon, inherited,       \* devices whose descriptors the monitor, the others hold
  en, entries, lost,    \* driver: enable bits, records, lost samples
  threshold,            \* driver: poll_threshold
  taken, thrown, mark   \* history: samples, those dropped by a reset or release,
                        \* and those taken before the flush read the device

monVars  == <<pc, i, fds, revents, n, nlost, mon>>
procVars == <<up, spawned, inherited>>
drvVars  == <<en, entries, lost, threshold>>
vars == <<flavors, asked, monVars, procVars, drvVars, taken, thrown, mark>>

Zero == [d \in Devs |-> 0]

SumOver(v, S) == MapThenSumSet(LAMBDA d : v[d], S)

Init ==
  /\ flavors \in SUBSET Flavors /\ asked \in PollArgs
  /\ pc = "enable" /\ i = 1 /\ fds = <<>> /\ revents = {}
  /\ n = [f \in Flavors |-> 0] /\ nlost = [f \in Flavors |-> 0]
  /\ up = {} /\ spawned = FALSE /\ mon = {} /\ inherited = {}
  /\ en = {} /\ entries = Zero /\ lost = Zero /\ threshold = Zero
  /\ taken = Zero /\ thrown = Zero /\ mark = Zero

-----------------------------------------------------------------------------
(* The driver's side.                                                      *)

\* reset_ibs_buffer, on open, release and RESET_BUFFER: what was there is gone.
Reset(S) ==
  /\ entries' = [d \in Devs |-> IF d \in S THEN 0 ELSE entries[d]]
  /\ lost' = [d \in Devs |-> IF d \in S THEN 0 ELSE lost[d]]
  /\ thrown' = [d \in Devs |-> IF d \in S THEN thrown[d] + entries[d] + lost[d]
                                          ELSE thrown[d]]

\* ibs_release of the devices that nobody holds a descriptor of any more.
Release(S) == Reset(S) /\ en' = en \ S

\* SET_POLL_SIZE after ibs_open: a refused argument leaves the default.
ThresholdUpTo(a) == IF 0 < a /\ a <= Capacity THEN a ELSE 1
Threshold(a) == IF 0 < a /\ a < Capacity THEN a ELSE 1

\* The interrupt handler stores a sample, or counts it as lost on a full ring.
Sample(d) ==
  /\ d \in en
  /\ SumOver(taken, Devs) < MaxEvents
  /\ taken' = [taken EXCEPT ![d] = @ + 1]
  /\ IF entries[d] < Capacity - 1
     THEN entries' = [entries EXCEPT ![d] = @ + 1] /\ UNCHANGED lost
     ELSE lost' = [lost EXCEPT ![d] = @ + 1] /\ UNCHANGED entries
  /\ UNCHANGED <<flavors, asked, monVars, procVars, en, threshold, thrown, mark>>

-----------------------------------------------------------------------------
(* Starting: enable_ibs_flavors, fork, reset_ibs_buffers.                  *)

\* A flavor that is not wanted, or a device that another process has open.
SkipDevice ==
  /\ pc = "enable" /\ i \in Devs
  /\ i' = i + 1
  /\ UNCHANGED <<flavors, asked, pc, fds, revents, n, nlost, mon, procVars, drvVars,
                 taken, thrown, mark>>

\* open, SET_BUFFER_SIZE, SET_POLL_SIZE, SET_MAX_CNT, IBS_ENABLE; the driver's
\* IBS_ENABLE does not fail.  The monitor ignores the results of the SET_* calls:
\* a device whose new buffer could not be allocated is enabled all the same, on a
\* freed buffer.  That failure is a case of IbsDevice, not of this module.
EnableDevice ==
  /\ pc = "enable" /\ i \in Devs /\ FlavorOf(i) \in flavors
  /\ mon' = mon \cup {i} /\ fds' = Append(fds, i)
  /\ en' = en \cup {i} /\ threshold' = [threshold EXCEPT ![i] = Threshold(asked)]
  /\ i' = i + 1
  /\ UNCHANGED <<flavors, asked, pc, revents, n, nlost, procVars, entries, lost,
                 taken, thrown, mark>>

EnableEnd ==
  /\ pc = "enable" /\ i \notin Devs
  /\ pc' = "fork" /\ i' = 1
  /\ UNCHANGED <<flavors, asked, fds, revents, n, nlost, mon, procVars, drvVars,
                 taken, thrown, mark>>

\* exit(EXIT_FAILURE) closes the descriptors; devices that a child still holds
\* keep sampling.
Fail ==
  /\ pc' = "failed" /\ mon' = {}
  /\ Release(IF up = {} THEN mon ELSE mon \ inherited)
  /\ UNCHANGED <<flavors, asked, i, fds, revents, n, nlost, procVars, threshold,
                 taken, mark>>

Fork ==
  /\ pc = "fork"
  /\ pc' = "reset" /\ up' = {"child"} /\ inherited' = mon
  /\ UNCHANGED <<flavors, asked, i, fds, revents, n, nlost, mon, spawned, drvVars,
                 taken, thrown, mark>>
ForkFails == pc = "fork" /\ Fail

InLoop == i \in 1 .. Len(fds)

\* RESET_BUFFER: the driver refuses it (-EBUSY) while the device is enabled.
ResetBuffer ==
  /\ pc = "reset" /\ InLoop
  /\ Reset({fds[i]} \ en)
  /\ i' = i + 1
  /\ UNCHANGED <<flavors, asked, pc, fds, revents, n, nlost, mon, procVars, en,
                 threshold, taken, mark>>

-----------------------------------------------------------------------------
(* The poll loop: waitpid, poll_ibs, read_and_write_*_data.                *)

\* A loop over fds ends at l.
LoopEnd(l, m) ==
  /\ pc = l /\ ~InLoop
  /\ pc' = m /\ i' = 1
  /\ UNCHANGED <<flavors, asked, fds, revents, n, nlost, mon, procVars, drvVars,
                 taken, thrown, mark>>

\* while (!waitpid(cpid, &i, WNOHANG)): the program has ended, or not yet.
Waitpid ==
  /\ pc = "wait"
  /\ pc' = IF "child" \in up THEN "poll" ELSE "flush"
  /\ UNCHANGED <<flavors, asked, i, fds, revents, n, nlost, mon, procVars, drvVars,
                 taken, thrown, mark>>

\* ibs_poll: enough data, or a device that is disabled.
Ready == {k \in DOMAIN fds : \/ entries[fds[k]] >= threshold[fds[k]]
                             \/ fds[k] \notin en}

PollReturns ==
  /\ pc = "poll" /\ Ready # {}
  /\ revents' = Ready /\ pc' = "read"
  /\ UNCHANGED <<flavors, asked, i, fds, n, nlost, mon, procVars, drvVars, taken,
                 thrown, mark>>

\* "Wait up to POLL_TIMEOUT if nothing is ready": return without reading.
PollTimeoutRetry ==
  /\ pc = "poll" /\ Ready = {}
  /\ pc' = "poll" /\ revents' = {}
  /\ UNCHANGED <<flavors, asked, i, fds, n, nlost, mon, procVars, drvVars, taken,
                 thrown, mark>>
PollTimeout ==
  /\ pc = "poll" /\ Ready = {}
  /\ pc' = "wait" /\ revents' = {}
  /\ UNCHANGED <<flavors, asked, i, fds, n, nlost, mon, procVars, drvVars, taken,
                 thrown, mark>>

PollError == pc = "poll" /\ Fail

\* poll_ibs reads the devices that poll marked, flush_ibs_buffers all.
SelectedMarked(k) == k \in revents
Selected(k) == pc = "flush" \/ k \in revents

\* read(fd, global_buffer, buffer_size): all records of the ring, or -EAGAIN.  A
\* short fwrite to the trace file is only reported, and n counts what was read.
ReadDevice ==
  LET d == fds[i]
      f == FlavorOf(d)
      Got == Selected(i) /\ entries[d] > 0
  IN  /\ pc \in {"read", "flush"} /\ InLoop
      /\ n' = IF Got THEN [n EXCEPT ![f] = @ + entries[d]] ELSE n
      /\ entries' = IF Got THEN [entries EXCEPT ![d] = 0] ELSE entries
      /\ i' = IF Got THEN i ELSE i + 1
      /\ pc' = IF ~Got THEN pc ELSE IF pc = "read" THEN "read_lost" ELSE "flush_lost"
      /\ mark' = IF pc = "flush" THEN [mark EXCEPT ![d] = taken[d]] ELSE mark
      /\ UNCHANGED <<flavors, asked, fds, revents, nlost, mon, procVars, en, lost,
                     threshold, taken, thrown>>

\* n_lost_*_samples += ioctl(fd, GET_LOST), which clears the counter.
GetLostDropped ==
  LET d == fds[i]
  IN  /\ pc \in {"read_lost", "flush_lost"}
      /\ lost' = [lost EXCEPT ![d] = 0]
      /\ i' = i + 1 /\ pc' = IF pc = "read_lost" THEN "read" ELSE "flush"
      /\ UNCHANGED <<flavors, asked, fds, revents, n, nlost, mon, procVars, en,
                     entries, threshold, taken, thrown, mark>>
GetLost ==
  LET d == fds[i]
  IN  /\ pc \in {"read_lost", "flush_lost"}
      /\ nlost' = [nlost EXCEPT ![FlavorOf(d)] = @ + lost[d]]
      /\ lost' = [lost EXCEPT ![d] = 0]
      /\ i' = i + 1 /\ pc' = IF pc = "read_lost" THEN "read" ELSE "flush"
      /\ UNCHANGED <<flavors, asked, fds, revents, n, mon, procVars, en, entries,
                     threshold, taken, thrown, mark>>

-----------------------------------------------------------------------------
(* disable_ibs, and the end of the other processes.                        *)

DisableLeftToClose ==
  /\ pc = "disable" /\ InLoop
  /\ pc' = "close"
  /\ UNCHANGED <<flavors, asked, i, fds, revents, n, nlost, mon, procVars, drvVars,
                 taken, thrown, mark>>
Disable ==
  /\ pc = "disable" /\ InLoop
  /\ en' = en \ {fds[i]} /\ pc' = "close"
  /\ UNCHANGED <<flavors, asked, i, fds, revents, n, nlost, mon, procVars, entries,
                 lost, threshold, taken, thrown, mark>>

Close ==
  /\ pc = "close"
  /\ mon' = mon \ {fds[i]}
  /\ Release(IF up = {} THEN {fds[i]} ELSE {fds[i]} \ inherited)
  /\ pc' = "disable" /\ i' = i + 1
  /\ UNCHANGED <<flavors, asked, fds, revents, n, nlost, procVars, threshold, taken,
                 mark>>

\* The program starts a process that inherits the descriptors.
ChildSpawns ==
  /\ "child" \in up /\ ~spawned
  /\ up' = up \cup {"heir"} /\ spawned' = TRUE
  /\ UNCHANGED <<flavors, asked, monVars, inherited, drvVars, taken, thrown, mark>>

\* A process ends and its descriptors close.
ProcessExit(p) ==
  /\ p \in up
  /\ up' = up \ {p}
  /\ Release(IF up = {p} THEN inherited \ mon ELSE {})
  /\ UNCHANGED <<flavors, asked, monVars, spawned, inherited, threshold, taken, mark>>

-----------------------------------------------------------------------------
Monitor ==
  \/ SkipDevice \/ EnableDevice \/ EnableEnd \/ Fork
  \/ ResetBuffer \/ LoopEnd("reset", "wait")
  \/ Waitpid \/ PollReturns \/ PollTimeout
  \/ ReadDevice \/ GetLost \/ LoopEnd("read", "wait") \/ LoopEnd("flush", "disable")
  \/ Disable \/ Close \/ LoopEnd("disable", "done")

Failure == ForkFails \/ PollError

Others == ChildSpawns \/ (\E p \in up : ProcessExit(p)) \/ \E d \in Devs : Sample(d)

Next == Monitor \/ Failure \/ Others

Spec == Init /\ [][Next]_vars

\* The monitor runs, and poll returns at the latest when its timeout expires.
\* Nothing is assumed of failures, the program, its heirs and the samples.
FairSpec == Spec /\ WF_vars(Monitor)

-----------------------------------------------------------------------------
(* Properties.                                                             *)

Ended == pc \in {"done", "failed"}
Tracked == {fds[k] : k \in DOMAIN fds}
Unread(d) == entries[d] + lost[d] + thrown[d]
DevsOf(f) == {d \in Devs : FlavorOf(d) = f}

\* The statistics that main prints are right at every moment: per flavor the
\* samples read and the samples reported as lost, with those still in the
\* driver or dropped by it, are all the samples ever taken; none is counted
\* twice by a poll and the flush, or in both statistics.
SamplesAccounted ==
  \A f \in Flavors :
    n[f] + nlost[f] + SumOver([d \in Devs |-> Unread(d)], DevsOf(f))
      = SumOver(taken, DevsOf(f))

\* What the monitor never reports was taken after the flush had read its device,
\* in the window before disable_ibs reaches it: a loss cannot hide in a device
\* whose ring poll never marked or whose read found nothing.
OnlyLateMissed ==
  pc \in {"disable", "close", "done"}
    => \A d \in Tracked : Unread(d) <= taken[d] - mark[d]

\* A monitor that has finished leaves no device sampling although heirs of the
\* program still hold its descriptors; one that failed leaves none once the
\* program and its heirs are gone.
SamplingStops == pc = "done" \/ (pc = "failed" /\ up = {}) => en = {}

\* The monitor ends after its program does, whatever the devices hold and
\* whoever still uses the descriptors.
MonitorEnds == (pc \notin {"enable", "fork"} /\ "child" \notin up) ~> Ended

\* No ring stays full behind a threshold it cannot reach: for every poll_percent
\* a full ring is read while the program runs.
FullRingIsRead ==
  \A d \in Devs : (d \in Tracked /\ entries[d] = Capacity - 1)
                    ~> (entries[d] < Capacity - 1 \/ Ended)
=============================================================================
