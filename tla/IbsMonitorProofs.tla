-------------------------- MODULE IbsMonitorProofs --------------------------
(***************************************************************************)
(* Proofs about IbsMonitor for any number of CPUs, every buffer size and   *)
(* poll threshold, and any number of samples.                              *)
(***************************************************************************)
EXTENDS IbsMonitor, FiniteSetTheorems, TLAPS

\* Types of the monitor's descriptors and of the driver's counters.
MonTypeOK ==
  /\ i \in Nat \ {0}
  /\ fds \in Seq(Devs)
  /\ entries \in [Devs -> Nat] /\ lost \in [Devs -> Nat]
  /\ taken \in [Devs -> Nat] /\ thrown \in [Devs -> Nat] /\ mark \in [Devs -> Nat]

\* main has not begun to disable the devices.
Collecting == pc \notin {"disable", "close", "done", "failed"}

\* The loops over fds: each device is there once, and a loop starts at its
\* first entry.
LoopInv ==
  /\ \A j, k \in 1 .. Len(fds) : j < k => fds[j] < fds[k]
  /\ pc = "enable" => \A k \in 1 .. Len(fds) : fds[k] < i
  /\ pc \in {"fork", "wait", "poll"} => i = 1
  /\ pc \in {"read_lost", "flush_lost", "close"} => InLoop

\* Who holds descriptors, and which devices can still be sampling.
HolderInv ==
  /\ pc \in {"enable", "fork"} => up = {}
  /\ up # {} => inherited = Tracked
  /\ Collecting => mon = Tracked /\ en = Tracked
  /\ pc = "failed" => mon = {} /\ (up = {} => en = {}) /\ en \subseteq Tracked
  /\ pc = "disable" => \A d \in en : \E k \in 1 .. Len(fds) : i <= k /\ d = fds[k]
  /\ pc = "close" => \A d \in en : \E k \in 1 .. Len(fds) : i < k /\ d = fds[k]
  /\ pc = "done" => en = {}

\* The bound of OnlyLateMissed for one device.
LateOnly(d) == Unread(d) <= taken[d] - mark[d]

\* Where unread samples can be: nothing is thrown away while devices are
\* collected from; a counted loss lies behind a full ring until GET_LOST comes
\* round to it; the flush leaves each device it is done with to late samples.
LossInv ==
  /\ Collecting => \A d \in Devs : thrown[d] = 0
  /\ Collecting => \A d \in Devs : \/ lost[d] = 0 \/ entries[d] > 0
                                   \/ pc \in {"read_lost", "flush_lost"} /\ d = fds[i]
  /\ pc \in {"flush", "flush_lost"} => \A k \in 1 .. Len(fds) : k < i => LateOnly(fds[k])
  /\ pc = "flush_lost" => entries[fds[i]] + thrown[fds[i]] <= taken[fds[i]] - mark[fds[i]]

\* The inductive invariant.
MonInv ==
  /\ MonTypeOK
  /\ LoopInv
  /\ HolderInv
  /\ LossInv
  /\ OnlyLateMissed

-----------------------------------------------------------------------------
(* Every action preserves the invariant.                                   *)

\* Devices are numbered from 1.
LEMMA DevsPositive == Devs \subseteq Nat \ {0}
  BY MonitorAssumption DEF Devs

\* The monitor tracks devices.
LEMMA TrackedDevs ==
  ASSUME MonTypeOK
  PROVE  /\ Tracked \subseteq Devs
         /\ \A k \in 1 .. Len(fds) : fds[k] \in Tracked
  <1>1. fds \in Seq(Devs)
    BY DEF MonTypeOK
  <1>2. \A k \in 1 .. Len(fds) : fds[k] \in Devs
    BY <1>1
  <1> QED BY <1>2 DEF Tracked

\* A reset moves what the ring and the lost counter hold to thrown, and touches
\* no other device.
LEMMA ResetKeeps ==
  ASSUME MonTypeOK, NEW S, Reset(S)
  PROVE  /\ entries' \in [Devs -> Nat] /\ lost' \in [Devs -> Nat] /\ thrown' \in [Devs -> Nat]
         /\ \A d \in Devs :
              /\ entries'[d] + lost'[d] + thrown'[d] = entries[d] + lost[d] + thrown[d]
              /\ d \notin S => entries'[d] = entries[d] /\ lost'[d] = lost[d] /\ thrown'[d] = thrown[d]
  <1>1. ASSUME NEW d \in Devs
        PROVE  /\ entries'[d] = IF d \in S THEN 0 ELSE entries[d]
               /\ lost'[d] = IF d \in S THEN 0 ELSE lost[d]
               /\ thrown'[d] = IF d \in S THEN thrown[d] + entries[d] + lost[d] ELSE thrown[d]
               /\ entries[d] \in Nat /\ lost[d] \in Nat /\ thrown[d] \in Nat
    BY DEF Reset, MonTypeOK
  <1>2. entries' \in [Devs -> Nat] /\ lost' \in [Devs -> Nat] /\ thrown' \in [Devs -> Nat]
    BY DEF Reset, MonTypeOK
  <1> QED BY <1>1, <1>2

LEMMA SkipDeviceInv ==
  ASSUME MonInv, SkipDevice
  PROVE  MonInv'
  <1>0. /\ Tracked \subseteq Devs
        /\ \A k \in 1 .. Len(fds) : fds[k] \in Tracked
    BY TrackedDevs DEF MonInv
  <1>a. Tracked' = Tracked
    BY DEF SkipDevice, Tracked, monVars, procVars, drvVars
  <1>b. i \in Nat /\ \A k \in 1 .. Len(fds) : fds[k] \in Nat
    BY <1>0, DevsPositive DEF MonInv, MonTypeOK
  <1>1. MonTypeOK'
    BY <1>0, <1>a, <1>b
       DEF MonInv, SkipDevice, MonTypeOK, LoopInv, InLoop, monVars, procVars,
           drvVars
  <1>2. LoopInv'
    BY <1>0, <1>a, <1>b
       DEF MonInv, SkipDevice, MonTypeOK, LoopInv, InLoop, monVars, procVars,
           drvVars
  <1>3. HolderInv'
    BY <1>0, <1>a, <1>b
       DEF MonInv, SkipDevice, MonTypeOK, LoopInv, HolderInv, Collecting,
           InLoop, monVars, procVars, drvVars
  <1>4. LossInv'
    BY <1>0, <1>a, <1>b
       DEF MonInv, SkipDevice, MonTypeOK, LoopInv, HolderInv, LossInv,
           Collecting, InLoop, LateOnly, Unread, monVars, procVars, drvVars
  <1>5. OnlyLateMissed'
    BY <1>0, <1>a, <1>b
       DEF MonInv, SkipDevice, MonTypeOK, LoopInv, HolderInv, LossInv,
           OnlyLateMissed, Collecting, InLoop, LateOnly, Unread, monVars,
           procVars, drvVars
  <1> QED BY <1>1, <1>2, <1>3, <1>4, <1>5 DEF MonInv

\* A device joins the list behind those with smaller numbers.
LEMMA EnableDeviceInv ==
  ASSUME MonInv, EnableDevice
  PROVE  MonInv'
  <1>0. /\ Tracked \subseteq Devs
        /\ \A k \in 1 .. Len(fds) : fds[k] \in Tracked
    BY TrackedDevs DEF MonInv
  <1>a. i \in Devs /\ i \in Nat \ {0} /\ pc = "enable" /\ pc' = pc /\ i' = i + 1
    BY DevsPositive DEF EnableDevice
  <1>b. /\ Len(fds') = Len(fds) + 1 /\ Len(fds) \in Nat
        /\ \A k \in 1 .. Len(fds) : fds'[k] = fds[k]
        /\ fds'[Len(fds) + 1] = i
        /\ fds' \in Seq(Devs)
    BY <1>a DEF EnableDevice, MonInv, MonTypeOK
  <1>c. Tracked' = Tracked \cup {i}
    <2>1. DOMAIN fds' = 1 .. Len(fds) + 1 /\ DOMAIN fds = 1 .. Len(fds)
      BY <1>b DEF MonInv, MonTypeOK
    <2> QED BY <1>b, <2>1 DEF Tracked
  <1>d. \A k \in 1 .. Len(fds) : fds[k] \in Nat
    BY <1>0, DevsPositive
  <1>1. MonTypeOK'
    BY <1>0, <1>a, <1>b
       DEF MonInv, EnableDevice, MonTypeOK, LoopInv, InLoop, monVars,
           procVars, drvVars
  <1>2. LoopInv'
    <2>1. \A k \in 1 .. Len(fds) : fds[k] < i
      BY <1>a DEF MonInv, LoopInv
    <2>2. \A k \in 1 .. Len(fds') : fds'[k] < i'
      BY <1>a, <1>b, <1>d, <2>1
    <2>3. ASSUME NEW j \in 1 .. Len(fds'), NEW k \in 1 .. Len(fds'), j < k
          PROVE  fds'[j] < fds'[k]
      <3>1. j \in 1 .. Len(fds) /\ fds'[j] = fds[j]
        BY <1>b, <2>3
      <3>2. CASE k = Len(fds) + 1
        BY <1>b, <2>1, <3>1, <3>2
      <3>3. CASE k # Len(fds) + 1
        <4>1. k \in 1 .. Len(fds) /\ fds'[k] = fds[k]
          BY <1>b, <3>3
        <4> QED BY <2>3, <3>1, <4>1 DEF MonInv, LoopInv
      <3> QED BY <3>2, <3>3
    <2> QED BY <1>a, <2>2, <2>3 DEF LoopInv
  <1>3. HolderInv'
    BY <1>0, <1>a, <1>c
       DEF MonInv, EnableDevice, MonTypeOK, LoopInv, HolderInv, Collecting,
           InLoop, monVars, procVars, drvVars
  <1>4. LossInv'
    BY <1>0, <1>a
       DEF MonInv, EnableDevice, MonTypeOK, LoopInv, HolderInv, LossInv,
           Collecting, InLoop, LateOnly, Unread, monVars, procVars, drvVars
  <1>5. OnlyLateMissed'
    BY <1>0
       DEF MonInv, EnableDevice, MonTypeOK, LoopInv, HolderInv, LossInv,
           OnlyLateMissed, Collecting, InLoop, LateOnly, Unread, monVars,
           procVars, drvVars
  <1> QED BY <1>1, <1>2, <1>3, <1>4, <1>5 DEF MonInv

LEMMA EnableEndInv ==
  ASSUME MonInv, EnableEnd
  PROVE  MonInv'
  <1>0. /\ Tracked \subseteq Devs
        /\ \A k \in 1 .. Len(fds) : fds[k] \in Tracked
    BY TrackedDevs DEF MonInv
  <1>a. Tracked' = Tracked
    BY DEF EnableEnd, Tracked, monVars, procVars, drvVars
  <1>1. MonTypeOK'
    BY <1>0, <1>a
       DEF MonInv, EnableEnd, MonTypeOK, LoopInv, InLoop, monVars, procVars,
           drvVars
  <1>2. LoopInv'
    BY <1>0, <1>a
       DEF MonInv, EnableEnd, MonTypeOK, LoopInv, InLoop, monVars, procVars,
           drvVars
  <1>3. HolderInv'
    BY <1>0, <1>a
       DEF MonInv, EnableEnd, MonTypeOK, LoopInv, HolderInv, Collecting,
           InLoop, monVars, procVars, drvVars
  <1>4. LossInv'
    BY <1>0, <1>a
       DEF MonInv, EnableEnd, MonTypeOK, LoopInv, HolderInv, LossInv,
           Collecting, InLoop, LateOnly, Unread, monVars, procVars, drvVars
  <1>5. OnlyLateMissed'
    BY <1>0, <1>a
       DEF MonInv, EnableEnd, MonTypeOK, LoopInv, HolderInv, LossInv,
           OnlyLateMissed, Collecting, InLoop, LateOnly, Unread, monVars,
           procVars, drvVars
  <1> QED BY <1>1, <1>2, <1>3, <1>4, <1>5 DEF MonInv

LEMMA ForkInv ==
  ASSUME MonInv, Fork
  PROVE  MonInv'
  <1>0. /\ Tracked \subseteq Devs
        /\ \A k \in 1 .. Len(fds) : fds[k] \in Tracked
    BY TrackedDevs DEF MonInv
  <1>a. Tracked' = Tracked
    BY DEF Fork, Tracked, monVars, procVars, drvVars
  <1>1. MonTypeOK'
    BY <1>0, <1>a
       DEF MonInv, Fork, MonTypeOK, LoopInv, InLoop, monVars, procVars,
           drvVars
  <1>2. LoopInv'
    BY <1>0, <1>a
       DEF MonInv, Fork, MonTypeOK, LoopInv, InLoop, monVars, procVars,
           drvVars
  <1>3. HolderInv'
    BY <1>0, <1>a
       DEF MonInv, Fork, MonTypeOK, LoopInv, HolderInv, Collecting, InLoop,
           monVars, procVars, drvVars
  <1>4. LossInv'
    BY <1>0, <1>a
       DEF MonInv, Fork, MonTypeOK, LoopInv, HolderInv, LossInv, Collecting,
           InLoop, LateOnly, Unread, monVars, procVars, drvVars
  <1>5. OnlyLateMissed'
    BY <1>0, <1>a
       DEF MonInv, Fork, MonTypeOK, LoopInv, HolderInv, LossInv,
           OnlyLateMissed, Collecting, InLoop, LateOnly, Unread, monVars,
           procVars, drvVars
  <1> QED BY <1>1, <1>2, <1>3, <1>4, <1>5 DEF MonInv

LEMMA FailInv ==
  ASSUME MonInv, pc \in {"fork", "poll"}, Fail
  PROVE  MonInv'
  <1>0. /\ Tracked \subseteq Devs
        /\ \A k \in 1 .. Len(fds) : fds[k] \in Tracked
    BY TrackedDevs DEF MonInv
  <1>a. Tracked' = Tracked
    BY DEF Fail, Release, Reset, Tracked, monVars, procVars, drvVars
  <1>1. MonTypeOK'
    BY <1>0, <1>a
       DEF MonInv, Fail, Release, Reset, MonTypeOK, LoopInv, InLoop, monVars,
           procVars, drvVars
  <1>2. LoopInv'
    BY <1>0, <1>a
       DEF MonInv, Fail, Release, Reset, MonTypeOK, LoopInv, InLoop, monVars,
           procVars, drvVars
  <1>3. HolderInv'
    BY <1>0, <1>a
       DEF MonInv, Fail, Release, Reset, MonTypeOK, LoopInv, HolderInv,
           Collecting, InLoop, monVars, procVars, drvVars
  <1>4. LossInv'
    BY <1>0, <1>a
       DEF MonInv, Fail, Release, Reset, MonTypeOK, LoopInv, HolderInv,
           LossInv, Collecting, InLoop, LateOnly, Unread, monVars, procVars,
           drvVars
  <1>5. OnlyLateMissed'
    BY <1>0, <1>a
       DEF MonInv, Fail, Release, Reset, MonTypeOK, LoopInv, HolderInv,
           LossInv, OnlyLateMissed, Collecting, InLoop, LateOnly, Unread,
           monVars, procVars, drvVars
  <1> QED BY <1>1, <1>2, <1>3, <1>4, <1>5 DEF MonInv

LEMMA ResetBufferInv ==
  ASSUME MonInv, ResetBuffer
  PROVE  MonInv'
  <1>0. /\ Tracked \subseteq Devs
        /\ \A k \in 1 .. Len(fds) : fds[k] \in Tracked
    BY TrackedDevs DEF MonInv
  <1>a. Tracked' = Tracked
    BY DEF ResetBuffer, Tracked, monVars, procVars, drvVars
  <1>b. /\ entries' \in [Devs -> Nat] /\ lost' \in [Devs -> Nat] /\ thrown' \in [Devs -> Nat]
        /\ \A d \in Devs :
             /\ entries'[d] + lost'[d] + thrown'[d] = entries[d] + lost[d] + thrown[d]
             /\ d \notin ({fds[i]} \ en) => entries'[d] = entries[d] /\ lost'[d] = lost[d] /\ thrown'[d] = thrown[d]
    BY ResetKeeps DEF MonInv, ResetBuffer
  <1>1. MonTypeOK'
    <2>1. i' \in Nat \ {0} /\ UNCHANGED <<fds, taken, mark>>
      BY DEF MonInv, MonTypeOK, ResetBuffer
    <2> QED BY <1>b, <2>1 DEF MonInv, MonTypeOK
  <1>2. LoopInv'
    BY <1>0, <1>a, <1>b
       DEF MonInv, ResetBuffer, MonTypeOK, LoopInv, InLoop, monVars,
           procVars, drvVars
  <1>3. HolderInv'
    BY <1>0, <1>a, <1>b
       DEF MonInv, ResetBuffer, MonTypeOK, LoopInv, HolderInv, Collecting,
           InLoop, monVars, procVars, drvVars
  <1>4. LossInv'
    <2>1. fds[i] \in en /\ Collecting /\ Collecting' /\ pc' = "reset" /\ pc = "reset"
      BY <1>0 DEF MonInv, HolderInv, ResetBuffer, InLoop, Collecting
    <2>2. \A d \in Devs : entries'[d] = entries[d] /\ lost'[d] = lost[d] /\ thrown'[d] = thrown[d]
      BY <1>b, <2>1
    <2> QED BY <2>1, <2>2 DEF MonInv, LossInv
  <1>5. OnlyLateMissed'
    BY <1>0, <1>a, <1>b
       DEF MonInv, ResetBuffer, MonTypeOK, LoopInv, HolderInv, LossInv,
           OnlyLateMissed, Collecting, InLoop, LateOnly, Unread, monVars,
           procVars, drvVars
  <1> QED BY <1>1, <1>2, <1>3, <1>4, <1>5 DEF MonInv

LEMMA LoopEndInv ==
  ASSUME MonInv, NEW l, NEW m, l \in {"reset", "read", "flush", "disable"},
         m = IF l = "flush" THEN "disable" ELSE IF l = "disable" THEN "done" ELSE "wait",
         LoopEnd(l, m)
  PROVE  MonInv'
  <1>0. /\ Tracked \subseteq Devs
        /\ \A k \in 1 .. Len(fds) : fds[k] \in Tracked
    BY TrackedDevs DEF MonInv
  <1>a. Tracked' = Tracked
    BY DEF LoopEnd, Tracked, monVars, procVars, drvVars
  <1>b. /\ pc = l /\ pc' = m /\ i' = 1 /\ i > Len(fds) /\ i \in Nat /\ Len(fds) \in Nat
        /\ UNCHANGED <<fds, up, inherited, mon, en, entries, lost, taken, thrown, mark>>
    BY DEF LoopEnd, InLoop, MonInv, MonTypeOK, procVars, drvVars
  <1>1. MonTypeOK'
    BY <1>0, <1>a
       DEF MonInv, LoopEnd, MonTypeOK, LoopInv, InLoop, monVars, procVars,
           drvVars
  <1>2. LoopInv'
    BY <1>0, <1>a
       DEF MonInv, LoopEnd, MonTypeOK, LoopInv, InLoop, monVars, procVars,
           drvVars
  <1>3. HolderInv'
    <2>1. CASE l \in {"reset", "read"}
      BY <1>a, <1>b, <2>1 DEF MonInv, HolderInv, Collecting
    <2>2. CASE l = "flush"
      <3>1. \A d \in en : \E k \in 1 .. Len(fds) : 1 <= k /\ d = fds[k]
        BY <1>b, <2>2 DEF MonInv, MonTypeOK, HolderInv, Collecting, Tracked
      <3> QED BY <1>a, <1>b, <2>2, <3>1 DEF MonInv, HolderInv, Collecting
    <2>3. CASE l = "disable"
      <3>1. en = {}
        BY <1>b, <2>3 DEF MonInv, HolderInv
      <3> QED BY <1>a, <1>b, <2>3, <3>1 DEF MonInv, HolderInv, Collecting
    <2> QED BY <2>1, <2>2, <2>3
  <1>4. LossInv'
    BY <1>0, <1>a
       DEF MonInv, LoopEnd, MonTypeOK, LoopInv, HolderInv, LossInv,
           Collecting, InLoop, LateOnly, Unread, monVars, procVars, drvVars
  <1>5. OnlyLateMissed'
    <2>1. CASE l \in {"reset", "read"}
      BY <1>b, <2>1 DEF OnlyLateMissed
    <2>2. CASE l = "flush"
      <3>1. ASSUME NEW d \in Tracked
            PROVE  Unread(d) <= taken[d] - mark[d]
        <4>1. PICK k \in 1 .. Len(fds) : d = fds[k]
          BY DEF Tracked, MonInv, MonTypeOK
        <4>2. LateOnly(fds[k])
          BY <1>b, <2>2 DEF MonInv, LossInv
        <4> QED BY <4>1, <4>2 DEF LateOnly
      <3> QED BY <1>a, <1>b, <3>1 DEF OnlyLateMissed, Unread
    <2>3. CASE l = "disable"
      BY <1>a, <1>b, <2>3 DEF MonInv, OnlyLateMissed, Unread
    <2> QED BY <2>1, <2>2, <2>3
  <1> QED BY <1>1, <1>2, <1>3, <1>4, <1>5 DEF MonInv

LEMMA WaitpidInv ==
  ASSUME MonInv, Waitpid
  PROVE  MonInv'
  <1>0. /\ Tracked \subseteq Devs
        /\ \A k \in 1 .. Len(fds) : fds[k] \in Tracked
    BY TrackedDevs DEF MonInv
  <1>a. Tracked' = Tracked
    BY DEF Waitpid, Tracked, monVars, procVars, drvVars
  <1>1. MonTypeOK'
    BY <1>0, <1>a
       DEF MonInv, Waitpid, MonTypeOK, LoopInv, InLoop, monVars, procVars,
           drvVars
  <1>2. LoopInv'
    BY <1>0, <1>a
       DEF MonInv, Waitpid, MonTypeOK, LoopInv, InLoop, monVars, procVars,
           drvVars
  <1>3. HolderInv'
    BY <1>0, <1>a
       DEF MonInv, Waitpid, MonTypeOK, LoopInv, HolderInv, Collecting,
           InLoop, monVars, procVars, drvVars
  <1>4. LossInv'
    BY <1>0, <1>a
       DEF MonInv, Waitpid, MonTypeOK, LoopInv, HolderInv, LossInv,
           Collecting, InLoop, LateOnly, Unread, monVars, procVars, drvVars
  <1>5. OnlyLateMissed'
    BY <1>0, <1>a
       DEF MonInv, Waitpid, MonTypeOK, LoopInv, HolderInv, LossInv,
           OnlyLateMissed, Collecting, InLoop, LateOnly, Unread, monVars,
           procVars, drvVars
  <1> QED BY <1>1, <1>2, <1>3, <1>4, <1>5 DEF MonInv

LEMMA PollReturnsInv ==
  ASSUME MonInv, PollReturns
  PROVE  MonInv'
  <1>0. /\ Tracked \subseteq Devs
        /\ \A k \in 1 .. Len(fds) : fds[k] \in Tracked
    BY TrackedDevs DEF MonInv
  <1>a. Tracked' = Tracked
    BY DEF PollReturns, Tracked, monVars, procVars, drvVars
  <1>1. MonTypeOK'
    BY <1>0, <1>a
       DEF MonInv, PollReturns, MonTypeOK, LoopInv, InLoop, monVars,
           procVars, drvVars
  <1>2. LoopInv'
    BY <1>0, <1>a
       DEF MonInv, PollReturns, MonTypeOK, LoopInv, InLoop, monVars,
           procVars, drvVars
  <1>3. HolderInv'
    BY <1>0, <1>a
       DEF MonInv, PollReturns, MonTypeOK, LoopInv, HolderInv, Collecting,
           InLoop, monVars, procVars, drvVars
  <1>4. LossInv'
    BY <1>0, <1>a
       DEF MonInv, PollReturns, MonTypeOK, LoopInv, HolderInv, LossInv,
           Collecting, InLoop, LateOnly, Unread, monVars, procVars, drvVars
  <1>5. OnlyLateMissed'
    BY <1>0, <1>a
       DEF MonInv, PollReturns, MonTypeOK, LoopInv, HolderInv, LossInv,
           OnlyLateMissed, Collecting, InLoop, LateOnly, Unread, monVars,
           procVars, drvVars
  <1> QED BY <1>1, <1>2, <1>3, <1>4, <1>5 DEF MonInv

LEMMA PollTimeoutInv ==
  ASSUME MonInv, PollTimeout
  PROVE  MonInv'
  <1>0. /\ Tracked \subseteq Devs
        /\ \A k \in 1 .. Len(fds) : fds[k] \in Tracked
    BY TrackedDevs DEF MonInv
  <1>a. Tracked' = Tracked
    BY DEF PollTimeout, Tracked, monVars, procVars, drvVars
  <1>1. MonTypeOK'
    BY <1>0, <1>a
       DEF MonInv, PollTimeout, MonTypeOK, LoopInv, InLoop, monVars,
           procVars, drvVars
  <1>2. LoopInv'
    BY <1>0, <1>a
       DEF MonInv, PollTimeout, MonTypeOK, LoopInv, InLoop, monVars,
           procVars, drvVars
  <1>3. HolderInv'
    BY <1>0, <1>a
       DEF MonInv, PollTimeout, MonTypeOK, LoopInv, HolderInv, Collecting,
           InLoop, monVars, procVars, drvVars
  <1>4. LossInv'
    BY <1>0, <1>a
       DEF MonInv, PollTimeout, MonTypeOK, LoopInv, HolderInv, LossInv,
           Collecting, InLoop, LateOnly, Unread, monVars, procVars, drvVars
  <1>5. OnlyLateMissed'
    BY <1>0, <1>a
       DEF MonInv, PollTimeout, MonTypeOK, LoopInv, HolderInv, LossInv,
           OnlyLateMissed, Collecting, InLoop, LateOnly, Unread, monVars,
           procVars, drvVars
  <1> QED BY <1>1, <1>2, <1>3, <1>4, <1>5 DEF MonInv

\* A device that the flush has read has nothing left that was there before.
LEMMA ReadDeviceInv ==
  ASSUME MonInv, ReadDevice
  PROVE  MonInv'
  <1>0. /\ Tracked \subseteq Devs
        /\ \A k \in 1 .. Len(fds) : fds[k] \in Tracked
    BY TrackedDevs DEF MonInv
  <1>a. Tracked' = Tracked
    BY DEF ReadDevice, Tracked, monVars, procVars, drvVars
  <1> DEFINE d == fds[i]
             Got == Selected(i) /\ entries[d] > 0
  <1>b. /\ i \in 1 .. Len(fds) /\ d \in Devs
        /\ pc \in {"read", "flush"} /\ Collecting
        /\ pc = "flush" => Selected(i)
        /\ pc' = IF ~Got THEN pc ELSE IF pc = "read" THEN "read_lost" ELSE "flush_lost"
        /\ i' = IF Got THEN i ELSE i + 1
        /\ UNCHANGED <<fds, lost, taken, thrown, up, inherited, mon, en>>
    BY <1>0 DEF ReadDevice, InLoop, Collecting, Selected, procVars
  <1>c. /\ entries' = [entries EXCEPT ![d] = IF Got THEN 0 ELSE @]
        /\ mark' = [mark EXCEPT ![d] = IF pc = "flush" THEN taken[d] ELSE @]
    BY DEF ReadDevice, MonInv, MonTypeOK
  <1> HIDE DEF Got
  <1>1. MonTypeOK'
    <2>1. entries' \in [Devs -> Nat] /\ mark' \in [Devs -> Nat]
      BY <1>b, <1>c DEF MonInv, MonTypeOK
    <2>2. i' \in Nat \ {0}
      BY <1>b DEF MonInv, MonTypeOK
    <2> QED BY <1>b, <2>1, <2>2 DEF MonInv, MonTypeOK
  <1>2. LoopInv'
    BY <1>b DEF MonInv, MonTypeOK, LoopInv, InLoop
  <1>3. HolderInv'
    BY <1>a, <1>b DEF MonInv, HolderInv, Collecting
  <1>4. LossInv'
    <2>1. Collecting' /\ \A e \in Devs : thrown'[e] = 0
      BY <1>b DEF MonInv, LossInv, Collecting
    <2>2. ASSUME NEW e \in Devs
          PROVE  \/ lost'[e] = 0 \/ entries'[e] > 0
                 \/ pc' \in {"read_lost", "flush_lost"} /\ e = fds'[i']
      <3>1. lost[e] = 0 \/ entries[e] > 0
        BY <1>b DEF MonInv, LossInv
      <3>2. CASE e # d
        BY <1>b, <1>c, <3>1, <3>2 DEF MonInv, MonTypeOK
      <3>3. CASE e = d
        BY <1>b, <1>c, <3>1, <3>3 DEF MonInv, MonTypeOK
      <3> QED BY <3>2, <3>3
    <2>3. ASSUME pc = "flush", NEW k \in 1 .. Len(fds), k < i
          PROVE  /\ fds[k] # d /\ fds[k] \in Devs
                 /\ entries'[fds[k]] + lost'[fds[k]] + thrown'[fds[k]] <= taken'[fds[k]] - mark'[fds[k]]
      <3>1. fds[k] < d /\ fds[k] \in Devs /\ fds[k] \in Nat
        BY <1>0, <1>b, <2>3, DevsPositive DEF MonInv, LoopInv
      <3>2. entries[fds[k]] + lost[fds[k]] + thrown[fds[k]] <= taken[fds[k]] - mark[fds[k]]
        BY <2>3 DEF MonInv, LossInv, LateOnly, Unread
      <3>2a. d \in Nat
        BY <1>b, DevsPositive
      <3>3. fds[k] # d
        BY <3>1, <3>2a
      <3>4. DOMAIN entries = Devs /\ DOMAIN mark = Devs
        BY DEF MonInv, MonTypeOK
      <3>5. entries'[fds[k]] = entries[fds[k]] /\ mark'[fds[k]] = mark[fds[k]]
        BY <1>c, <3>1, <3>3, <3>4
      <3>6. UNCHANGED <<lost, taken, thrown>>
        BY <1>b
      <3> QED BY <3>1, <3>2, <3>3, <3>5, <3>6
    <2>4. pc = "flush" => /\ entries'[d] = 0 /\ thrown'[d] = 0 /\ mark'[d] = taken'[d]
                          /\ ~Got => lost'[d] = 0
      <3> HAVE pc = "flush"
      <3>1. /\ DOMAIN entries = Devs /\ DOMAIN mark = Devs /\ entries[d] \in Nat
            /\ lost[d] = 0 \/ entries[d] > 0
        BY <1>b DEF MonInv, MonTypeOK, LossInv
      <3>2. Got \/ entries[d] = 0
        BY <1>b, <3>1 DEF Got
      <3>3. entries'[d] = 0 /\ mark'[d] = taken[d]
        BY <1>b, <1>c, <3>1, <3>2
      <3>4. ~Got => lost[d] = 0
        BY <1>b, <3>1 DEF Got
      <3> QED BY <1>b, <2>1, <3>3, <3>4
    <2>5. taken'[d] \in Nat
      BY <1>b DEF MonInv, MonTypeOK
    <2>6. pc' = "flush_lost" => entries'[fds'[i']] + thrown'[fds'[i']] <= taken'[fds'[i']] - mark'[fds'[i']]
      BY <1>b, <2>4, <2>5
    <2>7. ASSUME pc' \in {"flush", "flush_lost"}, NEW k \in 1 .. Len(fds'), k < i'
          PROVE  LateOnly(fds[k])'
      <3>1. pc = "flush" /\ k \in 1 .. Len(fds)
        BY <1>b, <2>7
      <3>2. CASE k < i
        BY <1>b, <2>3, <3>1, <3>2 DEF LateOnly, Unread
      <3>3. CASE ~(k < i)
        <4>1. k = i /\ ~Got
          BY <1>b, <2>7, <3>3
        <4> QED BY <1>b, <2>4, <2>5, <3>1, <4>1 DEF LateOnly, Unread
      <3> QED BY <3>2, <3>3
    <2> QED BY <2>1, <2>2, <2>6, <2>7 DEF LossInv
  <1>5. OnlyLateMissed'
    BY <1>b DEF OnlyLateMissed
  <1> QED BY <1>1, <1>2, <1>3, <1>4, <1>5 DEF MonInv

\* GET_LOST clears what was lost before the ring was emptied.
LEMMA GetLostInv ==
  ASSUME MonInv, GetLost
  PROVE  MonInv'
  <1>0. /\ Tracked \subseteq Devs
        /\ \A k \in 1 .. Len(fds) : fds[k] \in Tracked
    BY TrackedDevs DEF MonInv
  <1>a. Tracked' = Tracked
    BY DEF GetLost, Tracked, monVars, procVars, drvVars
  <1> DEFINE d == fds[i]
  <1>b. /\ i \in 1 .. Len(fds) /\ d \in Devs
        /\ pc \in {"read_lost", "flush_lost"} /\ Collecting
        /\ pc' = IF pc = "read_lost" THEN "read" ELSE "flush"
        /\ i' = i + 1
        /\ lost' = [lost EXCEPT ![d] = 0]
        /\ UNCHANGED <<fds, entries, taken, thrown, mark, up, inherited, mon, en>>
    BY <1>0 DEF GetLost, MonInv, LoopInv, InLoop, Collecting, procVars
  <1>1. MonTypeOK'
    <2>1. lost' \in [Devs -> Nat]
      BY <1>b DEF MonInv, MonTypeOK
    <2>2. i' \in Nat \ {0}
      BY <1>b DEF MonInv, MonTypeOK
    <2> QED BY <1>b, <2>1, <2>2 DEF MonInv, MonTypeOK
  <1>2. LoopInv'
    BY <1>b DEF MonInv, MonTypeOK, LoopInv, InLoop
  <1>3. HolderInv'
    BY <1>a, <1>b DEF MonInv, HolderInv, Collecting
  <1>4. LossInv'
    <2>1. Collecting' /\ \A e \in Devs : thrown'[e] = 0
      BY <1>b DEF MonInv, LossInv, Collecting
    <2>2. ASSUME NEW e \in Devs
          PROVE  lost'[e] = 0 \/ entries'[e] > 0
      BY <1>b DEF MonInv, MonTypeOK, LossInv
    <2>3. ASSUME pc' = "flush", NEW k \in 1 .. Len(fds), k < i'
          PROVE  entries'[fds[k]] + lost'[fds[k]] + thrown'[fds[k]] <= taken'[fds[k]] - mark'[fds[k]]
      <3>1. fds[k] \in Devs /\ fds[k] \in Nat /\ d \in Nat
        BY <1>0, <1>b, DevsPositive
      <3>2. CASE k = i
        <4>1. entries[d] + thrown[d] <= taken[d] - mark[d]
          BY <1>b, <2>3 DEF MonInv, LossInv
        <4>2. lost'[d] = 0 /\ entries[d] \in Nat /\ thrown[d] \in Nat
          BY <1>b DEF MonInv, MonTypeOK
        <4> QED BY <1>b, <3>2, <4>1, <4>2
      <3>3. CASE k < i
        <4>1. fds[k] # d
          BY <1>b, <3>1, <3>3 DEF MonInv, LoopInv
        <4>2. entries[fds[k]] + lost[fds[k]] + thrown[fds[k]] <= taken[fds[k]] - mark[fds[k]]
          BY <1>b, <2>3, <3>3 DEF MonInv, LossInv, LateOnly, Unread
        <4> QED BY <1>b, <3>1, <4>1, <4>2 DEF MonInv, MonTypeOK
      <3> QED BY <1>b, <2>3, <3>2, <3>3
    <2> QED BY <1>b, <2>1, <2>2, <2>3 DEF LossInv, LateOnly, Unread
  <1>5. OnlyLateMissed'
    BY <1>b DEF OnlyLateMissed
  <1> QED BY <1>1, <1>2, <1>3, <1>4, <1>5 DEF MonInv

LEMMA DisableInv ==
  ASSUME MonInv, Disable
  PROVE  MonInv'
  <1>0. /\ Tracked \subseteq Devs
        /\ \A k \in 1 .. Len(fds) : fds[k] \in Tracked
    BY TrackedDevs DEF MonInv
  <1>a. Tracked' = Tracked
    BY DEF Disable, Tracked, monVars, procVars, drvVars
  <1>1. MonTypeOK'
    BY <1>0, <1>a
       DEF MonInv, Disable, MonTypeOK, LoopInv, InLoop, monVars, procVars,
           drvVars
  <1>2. LoopInv'
    BY <1>0, <1>a
       DEF MonInv, Disable, MonTypeOK, LoopInv, InLoop, monVars, procVars,
           drvVars
  <1>3. HolderInv'
    <2>1. /\ pc = "disable" /\ pc' = "close" /\ i' = i /\ i \in Nat /\ Len(fds) \in Nat
          /\ en' = en \ {fds[i]} /\ UNCHANGED <<fds, up, inherited>>
      BY DEF MonInv, MonTypeOK, Disable, procVars
    <2>2. \A d \in en : \E k \in 1 .. Len(fds) : i <= k /\ d = fds[k]
      BY <2>1 DEF MonInv, HolderInv
    <2>3. ASSUME NEW d \in en'
          PROVE  \E k \in 1 .. Len(fds) : i < k /\ d = fds[k]
      <3>1. PICK k \in 1 .. Len(fds) : i <= k /\ d = fds[k]
        BY <2>1, <2>2
      <3>2. k # i
        BY <2>1, <3>1
      <3> QED BY <2>1, <3>1, <3>2
    <2> QED BY <1>a, <2>1, <2>3 DEF MonInv, HolderInv, Collecting
  <1>4. LossInv'
    BY <1>0, <1>a
       DEF MonInv, Disable, MonTypeOK, LoopInv, HolderInv, LossInv,
           Collecting, InLoop, LateOnly, Unread, monVars, procVars, drvVars
  <1>5. OnlyLateMissed'
    BY <1>0, <1>a
       DEF MonInv, Disable, MonTypeOK, LoopInv, HolderInv, LossInv,
           OnlyLateMissed, Collecting, InLoop, LateOnly, Unread, monVars,
           procVars, drvVars
  <1> QED BY <1>1, <1>2, <1>3, <1>4, <1>5 DEF MonInv

LEMMA CloseInv ==
  ASSUME MonInv, Close
  PROVE  MonInv'
  <1>0. /\ Tracked \subseteq Devs
        /\ \A k \in 1 .. Len(fds) : fds[k] \in Tracked
    BY TrackedDevs DEF MonInv
  <1>a. Tracked' = Tracked
    BY DEF Close, Release, Tracked, monVars, procVars, drvVars
  <1>b. /\ entries' \in [Devs -> Nat] /\ lost' \in [Devs -> Nat] /\ thrown' \in [Devs -> Nat]
        /\ \A d \in Devs :
             /\ entries'[d] + lost'[d] + thrown'[d] = entries[d] + lost[d] + thrown[d]
             /\ d \notin (IF up = {} THEN {fds[i]} ELSE {fds[i]} \ inherited) => entries'[d] = entries[d] /\ lost'[d] = lost[d] /\ thrown'[d] = thrown[d]
    BY ResetKeeps DEF MonInv, Close, Release
  <1>1. MonTypeOK'
    <2>1. i' \in Nat \ {0} /\ UNCHANGED <<fds, taken, mark>>
      BY DEF MonInv, MonTypeOK, Close
    <2> QED BY <1>b, <2>1 DEF MonInv, MonTypeOK
  <1>2. LoopInv'
    BY <1>0, <1>a, <1>b
       DEF MonInv, Close, Release, MonTypeOK, LoopInv, InLoop, monVars,
           procVars, drvVars
  <1>3. HolderInv'
    <2>1. /\ pc = "close" /\ pc' = "disable" /\ i' = i + 1 /\ i \in Nat /\ Len(fds) \in Nat
          /\ en' \subseteq en /\ UNCHANGED <<fds, up, inherited>>
      BY DEF MonInv, MonTypeOK, Close, Release, procVars
    <2>2. \A d \in en : \E k \in 1 .. Len(fds) : i < k /\ d = fds[k]
      BY <2>1 DEF MonInv, HolderInv
    <2>3. \A d \in en' : \E k \in 1 .. Len(fds) : i' <= k /\ d = fds[k]
      BY <2>1, <2>2
    <2> QED BY <1>a, <2>1, <2>3 DEF MonInv, HolderInv, Collecting
  <1>4. LossInv'
    BY <1>0, <1>a, <1>b
       DEF MonInv, Close, Release, MonTypeOK, LoopInv, HolderInv, LossInv,
           Collecting, InLoop, LateOnly, Unread, monVars, procVars, drvVars
  <1>5. OnlyLateMissed'
    BY <1>0, <1>a, <1>b
       DEF MonInv, Close, Release, MonTypeOK, LoopInv, HolderInv, LossInv,
           OnlyLateMissed, Collecting, InLoop, LateOnly, Unread, monVars,
           procVars, drvVars
  <1> QED BY <1>1, <1>2, <1>3, <1>4, <1>5 DEF MonInv

LEMMA ChildSpawnsInv ==
  ASSUME MonInv, ChildSpawns
  PROVE  MonInv'
  <1>0. /\ Tracked \subseteq Devs
        /\ \A k \in 1 .. Len(fds) : fds[k] \in Tracked
    BY TrackedDevs DEF MonInv
  <1>a. Tracked' = Tracked
    BY DEF ChildSpawns, Tracked, monVars, procVars, drvVars
  <1>1. MonTypeOK'
    BY <1>0, <1>a
       DEF MonInv, ChildSpawns, MonTypeOK, LoopInv, InLoop, monVars,
           procVars, drvVars
  <1>2. LoopInv'
    BY <1>0, <1>a
       DEF MonInv, ChildSpawns, MonTypeOK, LoopInv, InLoop, monVars,
           procVars, drvVars
  <1>3. HolderInv'
    BY <1>0, <1>a
       DEF MonInv, ChildSpawns, MonTypeOK, LoopInv, HolderInv, Collecting,
           InLoop, monVars, procVars, drvVars
  <1>4. LossInv'
    BY <1>0, <1>a
       DEF MonInv, ChildSpawns, MonTypeOK, LoopInv, HolderInv, LossInv,
           Collecting, InLoop, LateOnly, Unread, monVars, procVars, drvVars
  <1>5. OnlyLateMissed'
    BY <1>0, <1>a
       DEF MonInv, ChildSpawns, MonTypeOK, LoopInv, HolderInv, LossInv,
           OnlyLateMissed, Collecting, InLoop, LateOnly, Unread, monVars,
           procVars, drvVars
  <1> QED BY <1>1, <1>2, <1>3, <1>4, <1>5 DEF MonInv

LEMMA ProcessExitInv ==
  ASSUME MonInv, NEW p \in up, ProcessExit(p)
  PROVE  MonInv'
  <1>0. /\ Tracked \subseteq Devs
        /\ \A k \in 1 .. Len(fds) : fds[k] \in Tracked
    BY TrackedDevs DEF MonInv
  <1>a. Tracked' = Tracked
    BY DEF ProcessExit, Release, Tracked, monVars, procVars, drvVars
  <1>b. /\ entries' \in [Devs -> Nat] /\ lost' \in [Devs -> Nat] /\ thrown' \in [Devs -> Nat]
        /\ \A d \in Devs :
             /\ entries'[d] + lost'[d] + thrown'[d] = entries[d] + lost[d] + thrown[d]
             /\ d \notin (IF up = {p} THEN inherited \ mon ELSE {}) => entries'[d] = entries[d] /\ lost'[d] = lost[d] /\ thrown'[d] = thrown[d]
    BY ResetKeeps DEF MonInv, ProcessExit, Release
  <1>1. MonTypeOK'
    BY <1>0, <1>a, <1>b
       DEF MonInv, ProcessExit, Release, MonTypeOK, LoopInv, InLoop, monVars,
           procVars, drvVars
  <1>2. LoopInv'
    BY <1>0, <1>a, <1>b
       DEF MonInv, ProcessExit, Release, MonTypeOK, LoopInv, InLoop, monVars,
           procVars, drvVars
  <1>3. HolderInv'
    BY <1>0, <1>a DEF MonInv, ProcessExit, Release, HolderInv, Collecting, monVars
  <1>4. LossInv'
    BY <1>0, <1>a, <1>b
       DEF MonInv, ProcessExit, Release, MonTypeOK, LoopInv, HolderInv,
           LossInv, Collecting, InLoop, LateOnly, Unread, monVars, procVars,
           drvVars
  <1>5. OnlyLateMissed'
    BY <1>0, <1>a, <1>b
       DEF MonInv, ProcessExit, Release, MonTypeOK, LoopInv, HolderInv,
           LossInv, OnlyLateMissed, Collecting, InLoop, LateOnly, Unread,
           monVars, procVars, drvVars
  <1> QED BY <1>1, <1>2, <1>3, <1>4, <1>5 DEF MonInv

\* A sample adds one to what was taken and to what is unread.
LEMMA SampleInv ==
  ASSUME MonInv, NEW d \in Devs, Sample(d)
  PROVE  MonInv'
  <1>0. /\ Tracked \subseteq Devs
        /\ \A k \in 1 .. Len(fds) : fds[k] \in Tracked
    BY TrackedDevs DEF MonInv
  <1>a. Tracked' = Tracked
    BY DEF Sample, Tracked, monVars, procVars, drvVars
  <1>b. /\ d \in en
        /\ UNCHANGED <<pc, i, fds, up, inherited, mon, en, thrown, mark>>
    BY DEF Sample, monVars, procVars
  <1>c. /\ entries[d] \in Nat /\ lost[d] \in Nat /\ taken[d] \in Nat
        /\ taken' = [taken EXCEPT ![d] = taken[d] + 1]
        /\ \/ entries' = [entries EXCEPT ![d] = entries[d] + 1] /\ lost' = lost
           \/ entries[d] > 0 /\ lost' = [lost EXCEPT ![d] = lost[d] + 1] /\ entries' = entries
    BY MonitorAssumption DEF Sample, MonInv, MonTypeOK
  <1>d. ASSUME NEW e \in Devs
        PROVE  /\ entries'[e] + lost'[e] + thrown'[e] =
                    entries[e] + lost[e] + thrown[e] + (IF e = d THEN 1 ELSE 0)
               /\ taken'[e] = taken[e] + (IF e = d THEN 1 ELSE 0)
               /\ entries'[e] - entries[e] \in 0 .. (IF e = d THEN 1 ELSE 0)
               /\ lost'[e] # lost[e] => entries'[e] > 0
               /\ {entries[e], lost[e], taken[e], thrown[e], mark[e],
                   entries'[e], lost'[e], taken'[e]} \subseteq Nat
    <2>1. /\ entries[e] \in Nat /\ lost[e] \in Nat /\ taken[e] \in Nat
          /\ thrown[e] \in Nat /\ mark[e] \in Nat /\ thrown'[e] = thrown[e]
      BY <1>b DEF MonInv, MonTypeOK
    <2>2. taken'[e] = taken[e] + (IF e = d THEN 1 ELSE 0)
      BY <1>c DEF MonInv, MonTypeOK
    <2>3. \/ entries'[e] = entries[e] + (IF e = d THEN 1 ELSE 0) /\ lost'[e] = lost[e]
          \/ /\ lost'[e] = lost[e] + (IF e = d THEN 1 ELSE 0) /\ entries'[e] = entries[e]
             /\ e = d => entries[e] > 0
      BY <1>c DEF MonInv, MonTypeOK
    <2> QED BY <2>1, <2>2, <2>3
  <1>e. Collecting' = Collecting
    BY <1>b DEF Collecting
  <1>f. ASSUME NEW e \in Devs, entries[e] + lost[e] + thrown[e] <= taken[e] - mark[e]
        PROVE  entries'[e] + lost'[e] + thrown'[e] <= taken'[e] - mark'[e]
    BY <1>b, <1>d, <1>f
  <1>1. MonTypeOK'
    <2>1. taken' \in [Devs -> Nat] /\ entries' \in [Devs -> Nat] /\ lost' \in [Devs -> Nat]
      <3>1. \A f \in [Devs -> Nat] : [f EXCEPT ![d] = f[d] + 1] \in [Devs -> Nat]
        OBVIOUS
      <3>2. taken \in [Devs -> Nat] /\ entries \in [Devs -> Nat] /\ lost \in [Devs -> Nat]
        BY DEF MonInv, MonTypeOK
      <3> QED BY <1>c, <3>1, <3>2
    <2> QED BY <1>b, <2>1 DEF MonInv, MonTypeOK
  <1>2. LoopInv'
    BY <1>b DEF MonInv, LoopInv, InLoop
  <1>3. HolderInv'
    BY <1>a, <1>b DEF MonInv, HolderInv, Collecting
  <1>4. LossInv'
    <2>1. Collecting => \A e \in Devs : thrown'[e] = 0
      BY <1>b DEF MonInv, LossInv
    <2>2. ASSUME Collecting, NEW e \in Devs
          PROVE  \/ lost'[e] = 0 \/ entries'[e] > 0
                 \/ pc \in {"read_lost", "flush_lost"} /\ e = fds[i]
      <3>1. \/ lost[e] = 0 \/ entries[e] > 0
            \/ pc \in {"read_lost", "flush_lost"} /\ e = fds[i]
        BY <2>2 DEF MonInv, LossInv
      <3>2. /\ entries'[e] >= entries[e] /\ (lost'[e] # lost[e] => entries'[e] > 0)
            /\ entries[e] \in Nat /\ entries'[e] \in Nat
        BY <1>d
      <3> QED BY <3>1, <3>2
    <2>3. ASSUME pc \in {"flush", "flush_lost"}, NEW k \in 1 .. Len(fds), k < i
          PROVE  entries'[fds[k]] + lost'[fds[k]] + thrown'[fds[k]] <= taken'[fds[k]] - mark'[fds[k]]
      <3>1. fds[k] \in Devs
        BY <1>0
      <3>2. entries[fds[k]] + lost[fds[k]] + thrown[fds[k]] <= taken[fds[k]] - mark[fds[k]]
        BY <2>3 DEF MonInv, LossInv, LateOnly, Unread
      <3> QED BY <1>f, <3>1, <3>2
    <2>4. ASSUME pc = "flush_lost"
          PROVE  entries'[fds[i]] + thrown'[fds[i]] <= taken'[fds[i]] - mark'[fds[i]]
      <3>1. fds[i] \in Devs
        BY <1>0, <2>4 DEF MonInv, LoopInv, InLoop
      <3>2. entries[fds[i]] + thrown[fds[i]] <= taken[fds[i]] - mark[fds[i]]
        BY <2>4 DEF MonInv, LossInv
      <3> QED BY <1>b, <1>d, <3>1, <3>2
    <2> QED BY <1>b, <1>e, <2>1, <2>2, <2>3, <2>4 DEF LossInv, LateOnly, Unread
  <1>5. OnlyLateMissed'
    <2>1. ASSUME pc \in {"disable", "close", "done"}, NEW e \in Tracked
          PROVE  entries'[e] + lost'[e] + thrown'[e] <= taken'[e] - mark'[e]
      <3>1. e \in Devs /\ entries[e] + lost[e] + thrown[e] <= taken[e] - mark[e]
        BY <1>0, <2>1 DEF MonInv, OnlyLateMissed, Unread
      <3> QED BY <1>f, <3>1
    <2> QED BY <1>a, <1>b, <2>1 DEF OnlyLateMissed, Unread
  <1> QED BY <1>1, <1>2, <1>3, <1>4, <1>5 DEF MonInv

-----------------------------------------------------------------------------
(* Sums over the devices of a flavor.                                      *)

\* The element that the fold takes first.
Pick(s) == CHOOSE x \in s : TRUE
\* g is the function that the fold of SumOver defines by recursion over the
\* subsets of S, and SumFun the one it chooses.
SumDef(v, S, g) == 
  g = [s \in SUBSET S |-> IF s = {} THEN 0 ELSE v[Pick(s)] + g[s \ {Pick(s)}]]
SumFun(v, S) == CHOOSE g : SumDef(v, S, g)
\* A sum is the chosen function's value at the whole set.
LEMMA SumIsFun == ASSUME NEW v, NEW S PROVE SumOver(v,S) = SumFun(v,S)[S]
  BY DEF SumOver, MapThenSumSet, MapThenFoldSet, SumFun, SumDef, Pick

\* A nonempty collection of subsets of a finite set has a minimal member: the
\* proofs below look at a smallest set that violates the claim.
LEMMA MinimalSet ==
  ASSUME NEW S, IsFiniteSet(S), NEW B, B \subseteq SUBSET S, B # {}
  PROVE  \E T \in B : \A U \in B : U \subseteq T => U = T
  <1>1. IsWellFoundedOn(StrictSubsetOrdering(S), SUBSET S)
    BY FS_StrictSubsetOrderingWellFounded, FS_FiniteSubsetsOfFinite
  <1>2. PICK T \in B : \A U \in B : ~ (<<U, T>> \in StrictSubsetOrdering(S))
    BY <1>1, WFMin
  <1>3. \A U \in B : U \subseteq T => U = T
    BY <1>2 DEF StrictSubsetOrdering
  <1> QED BY <1>3

LEMMA PickIn == ASSUME NEW s, s # {} PROVE Pick(s) \in s
  BY DEF Pick

\* The recursion has at most one solution ...
LEMMA SumUnique ==
  ASSUME NEW v, NEW S, NEW T, NEW g, NEW h, IsFiniteSet(S), T \subseteq S, SumDef(v, S, g), SumDef(v, T, h)
  PROVE  \A s \in SUBSET T : g[s] = h[s]
  <1> DEFINE B == {s \in SUBSET T : g[s] # h[s]}
  <1> SUFFICES ASSUME B # {} PROVE FALSE
    OBVIOUS
  <1>0. B \subseteq SUBSET S
    OBVIOUS
  <1>1. PICK s \in B : \A U \in B : U \subseteq s => U = s
    <2> HIDE DEF B
    <2> QED BY <1>0, MinimalSet
  <1>2. s # {}
    BY DEF SumDef
  <1>3. Pick(s) \in s
    BY <1>2, PickIn
  <1>4. g[s \ {Pick(s)}] = h[s \ {Pick(s)}]
    BY <1>1, <1>3
  <1>5. g[s] = v[Pick(s)] + g[s \ {Pick(s)}] /\ h[s] = v[Pick(s)] + h[s \ {Pick(s)}]
    BY <1>2 DEF SumDef
  <1> QED BY <1>4, <1>5

\* ... and at least one, over every finite set.
LEMMA SumExists ==
  ASSUME NEW v, NEW S, IsFiniteSet(S)
  PROVE  \A T \in SUBSET S : SumDef(v, T, SumFun(v, T))
  <1> DEFINE B == {T \in SUBSET S : ~ SumDef(v, T, SumFun(v, T))}
  <1> SUFFICES ASSUME B # {} PROVE FALSE
    OBVIOUS
  <1>0. B \subseteq SUBSET S
    OBVIOUS
  <1>1. PICK T \in B : \A U \in B : U \subseteq T => U = T
    <2> HIDE DEF B
    <2> QED BY <1>0, MinimalSet
  <1> DEFINE G == [s \in SUBSET T |-> IF s = {} THEN 0
                     ELSE v[Pick(s)] + SumFun(v, s \ {Pick(s)})[s \ {Pick(s)}]]
  <1>2. ASSUME NEW s \in SUBSET T, s # {}
        PROVE  G[s \ {Pick(s)}] = SumFun(v, s \ {Pick(s)})[s \ {Pick(s)}]
    <2> DEFINE W == s \ {Pick(s)}
               X == W \ {Pick(W)}
    <2>1. W \subseteq T /\ W # T /\ W \in SUBSET S
      BY <1>2, PickIn
    <2>2. SumDef(v, W, SumFun(v, W))
      BY <1>1, <2>1
    <2>3. CASE W = {}
      BY <2>1, <2>2, <2>3 DEF SumDef
    <2>4. CASE W # {}
      <3>1. X \subseteq W /\ X # T /\ X \in SUBSET S
        BY <2>1, <2>4, PickIn
      <3>2. SumDef(v, X, SumFun(v, X))
        BY <1>1, <2>1, <3>1
      <3>3. IsFiniteSet(W)
        BY <2>1, FS_Subset
      <3>4. SumFun(v, W)[X] = SumFun(v, X)[X]
        BY <2>2, <3>1, <3>2, <3>3, SumUnique
      <3>5. SumFun(v, W)[W] = v[Pick(W)] + SumFun(v, W)[X]
        BY <2>2, <2>4 DEF SumDef
      <3>6. G[W] = v[Pick(W)] + SumFun(v, X)[X]
        BY <2>1, <2>4
      <3> QED BY <3>4, <3>5, <3>6
    <2> QED BY <2>3, <2>4
  <1>3. SumDef(v, T, G)
    <2>1. G = [s \in SUBSET T |-> IF s = {} THEN 0 ELSE v[Pick(s)] + G[s \ {Pick(s)}]]
      BY <1>2
    <2> QED BY <2>1 DEF SumDef
  <1>4. SumDef(v, T, SumFun(v, T))
    BY <1>3 DEF SumFun
  <1> QED BY <1>1, <1>4

\* So a sum is its first term and the sum of the others.
LEMMA SumStep ==
  ASSUME NEW v, NEW S, IsFiniteSet(S)
  PROVE  SumOver(v, S) = IF S = {} THEN 0 ELSE v[Pick(S)] + SumOver(v, S \ {Pick(S)})
  <1> DEFINE X == S \ {Pick(S)}
  <1>1. SumDef(v, S, SumFun(v, S)) /\ SumDef(v, X, SumFun(v, X))
    BY SumExists
  <1>2. SumFun(v, S)[X] = SumFun(v, X)[X]
    BY <1>1, SumUnique
  <1>3. SumFun(v, S)[S] = IF S = {} THEN 0 ELSE v[Pick(S)] + SumFun(v, S)[X]
    BY <1>1 DEF SumDef
  <1> QED BY <1>2, <1>3, SumIsFun

\* A finite sum of integers is an integer.
LEMMA SumType ==
  ASSUME NEW D, NEW v \in [D -> Int], NEW S \in SUBSET D, IsFiniteSet(S)
  PROVE  SumOver(v, S) \in Int
  <1> DEFINE B == {T \in SUBSET S : SumOver(v, T) \notin Int}
  <1> SUFFICES ASSUME B # {} PROVE FALSE
    OBVIOUS
  <1>0. B \subseteq SUBSET S
    OBVIOUS
  <1>1. PICK T \in B : \A U \in B : U \subseteq T => U = T
    <2> HIDE DEF B
    <2> QED BY <1>0, MinimalSet
  <1>2. IsFiniteSet(T)
    BY FS_Subset
  <1>3. SumOver(v, T) = IF T = {} THEN 0 ELSE v[Pick(T)] + SumOver(v, T \ {Pick(T)})
    BY <1>2, SumStep
  <1>4. T # {}
    BY <1>3
  <1>5. Pick(T) \in T
    BY <1>4, PickIn
  <1>6. SumOver(v, T \ {Pick(T)}) \in Int
    BY <1>1, <1>5
  <1>7. v[Pick(T)] \in Int
    BY <1>5
  <1> QED BY <1>3, <1>4, <1>6, <1>7

\* Changing one term changes the sum by as much, if the term is in it.
LEMMA SumChange ==
  ASSUME NEW D, NEW v \in [D -> Int], NEW w \in [D -> Int], NEW S \in SUBSET D, IsFiniteSet(S),
         NEW d \in D, \A e \in D : e # d => w[e] = v[e]
  PROVE  SumOver(w, S) = SumOver(v, S) + (IF d \in S THEN w[d] - v[d] ELSE 0)
  <1> DEFINE P(T) == SumOver(w, T) = SumOver(v, T) + (IF d \in T THEN w[d] - v[d] ELSE 0)
             B == {T \in SUBSET S : ~P(T)}
  <1> SUFFICES ASSUME B # {} PROVE FALSE
    OBVIOUS
  <1>0. B \subseteq SUBSET S
    OBVIOUS
  <1>1. PICK T \in B : \A U \in B : U \subseteq T => U = T
    <2> HIDE DEF B
    <2> QED BY <1>0, MinimalSet
  <1>2. IsFiniteSet(T)
    BY FS_Subset
  <1>3. /\ SumOver(v, T) = IF T = {} THEN 0 ELSE v[Pick(T)] + SumOver(v, T \ {Pick(T)})
        /\ SumOver(w, T) = IF T = {} THEN 0 ELSE w[Pick(T)] + SumOver(w, T \ {Pick(T)})
    BY <1>2, SumStep
  <1>4. T # {}
    BY <1>3
  <1> DEFINE x == Pick(T)
             U == T \ {x}
  <1>5. x \in T /\ x \in D /\ U \in SUBSET S
    BY <1>4, PickIn
  <1>6. P(U)
    BY <1>1, <1>5
  <1>7. IsFiniteSet(U)
    BY <1>5, FS_Subset
  <1>8. SumOver(v, U) \in Int /\ SumOver(w, U) \in Int
    BY <1>5, <1>7, SumType
  <1>9. v[x] \in Int /\ w[x] \in Int /\ v[d] \in Int /\ w[d] \in Int
    BY <1>5
  <1>10. CASE x = d
    <2>1. d \in T /\ d \notin U
      BY <1>5, <1>10
    <2>2. SumOver(w, U) = SumOver(v, U)
      BY <1>6, <1>8, <2>1
    <2>3. P(T)
      BY <1>3, <1>4, <1>8, <1>9, <1>10, <2>1, <2>2
    <2> QED BY <2>3
  <1>11. CASE x # d
    <2>1. (d \in T <=> d \in U) /\ w[x] = v[x]
      BY <1>5, <1>11
    <2>2. P(T)
      BY <1>3, <1>4, <1>6, <1>8, <1>9, <2>1
    <2> QED BY <2>2
  <1> QED BY <1>10, <1>11

-----------------------------------------------------------------------------
(* The balance of samples.                                                 *)

\* The statistics and the balance they are part of.
CountInv ==
  /\ n \in [Flavors -> Nat] /\ nlost \in [Flavors -> Nat]
  /\ SamplesAccounted

\* What the monitor has not reported, as a function.
Pending == [d \in Devs |-> Unread(d)]

\* The devices of a flavor.
LEMMA DevsOfFinite ==
  ASSUME NEW f
  PROVE  DevsOf(f) \in SUBSET Devs /\ IsFiniteSet(DevsOf(f))
  <1>1. IsFiniteSet(Devs)
    BY MonitorAssumption, FS_Interval DEF Devs
  <1>2. DevsOf(f) \in SUBSET Devs
    BY DEF DevsOf
  <1> QED BY <1>1, <1>2, FS_Subset

\* Pending and taken are functions to the integers.
LEMMA PendingType ==
  ASSUME MonTypeOK
  PROVE  Pending \in [Devs -> Int] /\ taken \in [Devs -> Int]
  BY DEF MonTypeOK, Pending, Unread

\* The sums of the balance are integers.
LEMMA BalanceType ==
  ASSUME MonTypeOK, NEW f
  PROVE  SumOver(Pending, DevsOf(f)) \in Int /\ SumOver(taken, DevsOf(f)) \in Int
  BY PendingType, DevsOfFinite, SumType

\* A step that changes neither the statistics nor what is pending or taken.
LEMMA CountKept ==
  ASSUME CountInv, UNCHANGED <<n, nlost, taken>>, Pending' = Pending
  PROVE  CountInv'
  BY DEF CountInv, SamplesAccounted, Pending

\* A reset leaves what is pending alone.
LEMMA ResetCounts ==
  ASSUME MonInv, CountInv, NEW S, Reset(S), UNCHANGED <<n, nlost, taken>>
  PROVE  CountInv'
  <1>1. \A d \in Devs : entries'[d] + lost'[d] + thrown'[d] = entries[d] + lost[d] + thrown[d]
    BY ResetKeeps DEF MonInv
  <1>2. Pending' = Pending
    BY <1>1 DEF Pending, Unread
  <1> QED BY <1>2, CountKept

\* The change of one device's pending samples, from its counters.
LEMMA PendingShift ==
  ASSUME NEW d \in Devs, NEW k \in Int, MonTypeOK,
         \A e \in Devs : entries'[e] + lost'[e] + thrown'[e] =
                           entries[e] + lost[e] + thrown[e] + (IF e = d THEN k ELSE 0)
  PROVE  Pending' = [Pending EXCEPT ![d] = @ + k]
  <1>1. \A e \in Devs : entries[e] + lost[e] + thrown[e] \in Int
    BY DEF MonTypeOK
  <1>2. \A e \in Devs : Pending[e] = entries[e] + lost[e] + thrown[e]
    BY DEF Pending, Unread
  <1>3. \A e \in Devs : Pending'[e] = [Pending EXCEPT ![d] = @ + k][e]
    <2>1. \A e \in Devs : Pending'[e] = entries'[e] + lost'[e] + thrown'[e]
      BY DEF Pending, Unread
    <2>2. \A e \in Devs : [Pending EXCEPT ![d] = @ + k][e] = Pending[e] + (IF e = d THEN k ELSE 0)
      BY <1>1, <1>2 DEF Pending
    <2> QED BY <1>2, <2>1, <2>2
  <1> QED BY <1>3 DEF Pending

\* A report of k samples of device d moves them from pending to the statistics.
LEMMA ReportCounts ==
  ASSUME MonInv, MonInv', CountInv, NEW d \in Devs, NEW k \in Nat,
         UNCHANGED taken,
         Pending' = [Pending EXCEPT ![d] = @ + (0 - k)],
         \/ n' = [n EXCEPT ![FlavorOf(d)] = @ + k] /\ nlost' = nlost
         \/ nlost' = [nlost EXCEPT ![FlavorOf(d)] = @ + k] /\ n' = n
  PROVE  CountInv'
  <1>1. Pending \in [Devs -> Int] /\ Pending' \in [Devs -> Int]
    <2>1. Pending \in [Devs -> Int]
      BY PendingType DEF MonInv
    <2> QED BY <2>1
  <1>2. FlavorOf(d) \in Flavors
    BY DEF FlavorOf, Flavors
  <1>3. n' \in [Flavors -> Nat] /\ nlost' \in [Flavors -> Nat]
    BY <1>2 DEF CountInv
  <1>4. ASSUME NEW f \in Flavors
        PROVE  n'[f] + nlost'[f] + SumOver(Pending', DevsOf(f)) = SumOver(taken, DevsOf(f))
    <2>1. n[f] + nlost[f] + SumOver(Pending, DevsOf(f)) = SumOver(taken, DevsOf(f))
      BY DEF CountInv, SamplesAccounted, Pending
    <2>2. SumOver(Pending', DevsOf(f)) = SumOver(Pending, DevsOf(f))
            + (IF d \in DevsOf(f) THEN Pending'[d] - Pending[d] ELSE 0)
      <3>1. \A e \in Devs : e # d => Pending'[e] = Pending[e]
        BY <1>1
      <3>2. DevsOf(f) \in SUBSET Devs /\ IsFiniteSet(DevsOf(f))
        BY DevsOfFinite
      <3>3. ASSUME NEW w \in [Devs -> Int], \A e \in Devs : e # d => w[e] = Pending[e]
            PROVE  SumOver(w, DevsOf(f)) = SumOver(Pending, DevsOf(f))
                     + (IF d \in DevsOf(f) THEN w[d] - Pending[d] ELSE 0)
        BY <1>1, <3>2, <3>3, SumChange
      <3> QED BY <1>1, <3>1, <3>3, Zenon
    <2>3. Pending'[d] - Pending[d] = 0 - k
      BY <1>1
    <2>4. d \in DevsOf(f) <=> f = FlavorOf(d)
      BY DEF DevsOf
    <2>5. n'[f] + nlost'[f] = n[f] + nlost[f] + (IF f = FlavorOf(d) THEN k ELSE 0)
      BY <1>2 DEF CountInv
    <2>6. n[f] \in Nat /\ nlost[f] \in Nat /\ n'[f] \in Nat /\ nlost'[f] \in Nat
      BY <1>3 DEF CountInv
    <2>7. SumOver(Pending, DevsOf(f)) \in Int /\ SumOver(taken, DevsOf(f)) \in Int
      BY BalanceType DEF MonInv
    <2> QED BY <2>1, <2>2, <2>3, <2>4, <2>5, <2>6, <2>7
  <1> QED BY <1>3, <1>4 DEF CountInv, SamplesAccounted, Pending

\* Reading a ring counts its records once.
LEMMA ReadDeviceCounts ==
  ASSUME MonInv, MonInv', CountInv, ReadDevice
  PROVE  CountInv'
  <1> DEFINE d == fds[i]
  <1>1. d \in Devs
    BY TrackedDevs DEF MonInv, ReadDevice, InLoop
  <1>2. CASE Selected(i) /\ entries[d] > 0
    <2>1. /\ n' = [n EXCEPT ![FlavorOf(d)] = @ + entries[d]] /\ nlost' = nlost
          /\ entries' = [entries EXCEPT ![d] = 0]
          /\ UNCHANGED <<lost, thrown, taken>> /\ entries[d] \in Nat
      BY <1>1, <1>2 DEF ReadDevice, MonInv, MonTypeOK
    <2>2. Pending' = [Pending EXCEPT ![d] = @ + (0 - entries[d])]
      <3>1. ASSUME NEW e \in Devs
            PROVE  entries'[e] + lost'[e] + thrown'[e] =
              entries[e] + lost[e] + thrown[e] + (IF e = d THEN 0 - entries[d] ELSE 0)
        <4>1. entries'[e] = (IF e = d THEN 0 ELSE entries[e]) /\ lost'[e] = lost[e] /\ thrown'[e] = thrown[e]
          BY <1>1, <2>1 DEF MonInv, MonTypeOK
        <4>2. entries[e] \in Nat /\ lost[e] \in Nat /\ thrown[e] \in Nat
          BY DEF MonInv, MonTypeOK
        <4> QED BY <4>1, <4>2
      <3>2. 0 - entries[d] \in Int
        BY <2>1
      <3> QED BY <1>1, <3>1, <3>2, PendingShift DEF MonInv
    <2> QED BY <1>1, <2>1, <2>2, ReportCounts
  <1>3. CASE ~(Selected(i) /\ entries[d] > 0)
    <2>1. UNCHANGED <<n, nlost, taken, entries, lost, thrown>>
      BY <1>3 DEF ReadDevice
    <2> QED BY <2>1, CountKept DEF Pending, Unread
  <1> QED BY <1>2, <1>3

\* GET_LOST counts what it clears.
LEMMA GetLostCounts ==
  ASSUME MonInv, MonInv', CountInv, GetLost
  PROVE  CountInv'
  <1> DEFINE d == fds[i]
  <1>1. d \in Devs
    BY TrackedDevs DEF MonInv, LoopInv, GetLost, InLoop
  <1>2. /\ nlost' = [nlost EXCEPT ![FlavorOf(d)] = @ + lost[d]] /\ n' = n
        /\ lost' = [lost EXCEPT ![d] = 0]
        /\ UNCHANGED <<entries, thrown, taken>> /\ lost[d] \in Nat
    BY <1>1 DEF GetLost, MonInv, MonTypeOK
  <1>3. Pending' = [Pending EXCEPT ![d] = @ + (0 - lost[d])]
    <2>1. ASSUME NEW e \in Devs
          PROVE  entries'[e] + lost'[e] + thrown'[e] =
            entries[e] + lost[e] + thrown[e] + (IF e = d THEN 0 - lost[d] ELSE 0)
      <3>1. lost'[e] = (IF e = d THEN 0 ELSE lost[e]) /\ entries'[e] = entries[e] /\ thrown'[e] = thrown[e]
        BY <1>1, <1>2 DEF MonInv, MonTypeOK
      <3>2. entries[e] \in Nat /\ lost[e] \in Nat /\ thrown[e] \in Nat
        BY DEF MonInv, MonTypeOK
      <3> QED BY <3>1, <3>2
    <2>2. 0 - lost[d] \in Int
      BY <1>2
    <2> QED BY <1>1, <2>1, <2>2, PendingShift DEF MonInv
  <1> QED BY <1>1, <1>2, <1>3, ReportCounts

\* A sample is pending from the moment it is taken.
LEMMA SampleCounts ==
  ASSUME MonInv, CountInv, NEW d \in Devs, Sample(d)
  PROVE  CountInv'
  <1>1. /\ taken' = [taken EXCEPT ![d] = @ + 1]
        /\ \/ entries' = [entries EXCEPT ![d] = @ + 1] /\ lost' = lost
           \/ lost' = [lost EXCEPT ![d] = @ + 1] /\ entries' = entries
        /\ UNCHANGED <<n, nlost, thrown>>
    BY DEF Sample, monVars
  <1>2. Pending' = [Pending EXCEPT ![d] = @ + 1]
    <2>1. ASSUME NEW e \in Devs
          PROVE  entries'[e] + lost'[e] + thrown'[e] =
            entries[e] + lost[e] + thrown[e] + (IF e = d THEN 1 ELSE 0)
      <3>1. /\ entries[e] \in Nat /\ lost[e] \in Nat /\ thrown[e] \in Nat
            /\ thrown'[e] = thrown[e]
        BY <1>1 DEF MonInv, MonTypeOK
      <3>2. \/ entries'[e] = entries[e] + (IF e = d THEN 1 ELSE 0) /\ lost'[e] = lost[e]
            \/ lost'[e] = lost[e] + (IF e = d THEN 1 ELSE 0) /\ entries'[e] = entries[e]
        BY <1>1 DEF MonInv, MonTypeOK
      <3> QED BY <3>1, <3>2
    <2> QED BY <2>1, PendingShift DEF MonInv
  <1>3. /\ Pending \in [Devs -> Int] /\ Pending' \in [Devs -> Int]
        /\ taken \in [Devs -> Int] /\ taken' \in [Devs -> Int]
    <2>1. Pending \in [Devs -> Int] /\ taken \in [Devs -> Int]
      BY PendingType DEF MonInv
    <2> QED BY <1>1, <1>2, <2>1
  <1>4. ASSUME NEW f \in Flavors
        PROVE  n[f] + nlost[f] + SumOver(Pending', DevsOf(f)) = SumOver(taken', DevsOf(f))
    <2>1. n[f] + nlost[f] + SumOver(Pending, DevsOf(f)) = SumOver(taken, DevsOf(f))
      BY DEF CountInv, SamplesAccounted, Pending
    <2>2. /\ SumOver(Pending', DevsOf(f)) = SumOver(Pending, DevsOf(f))
               + (IF d \in DevsOf(f) THEN Pending'[d] - Pending[d] ELSE 0)
          /\ SumOver(taken', DevsOf(f)) = SumOver(taken, DevsOf(f))
               + (IF d \in DevsOf(f) THEN taken'[d] - taken[d] ELSE 0)
      <3>1. \A e \in Devs : e # d => Pending'[e] = Pending[e] /\ taken'[e] = taken[e]
        BY <1>1, <1>2, <1>3
      <3>2. DevsOf(f) \in SUBSET Devs /\ IsFiniteSet(DevsOf(f))
        BY DevsOfFinite
      <3> QED BY <1>3, <3>1, <3>2, SumChange
    <2>3. Pending'[d] - Pending[d] = 1 /\ taken'[d] - taken[d] = 1
      BY <1>1, <1>2, <1>3
    <2>4. n[f] \in Nat /\ nlost[f] \in Nat
      BY DEF CountInv
    <2>5. SumOver(Pending, DevsOf(f)) \in Int /\ SumOver(taken, DevsOf(f)) \in Int
      BY BalanceType DEF MonInv
    <2> QED BY <2>1, <2>2, <2>3, <2>4, <2>5
  <1> QED BY <1>1, <1>4 DEF CountInv, SamplesAccounted, Pending

\* Nothing is taken or reported at first.
LEMMA CountInit == Init => CountInv
  <1> SUFFICES ASSUME Init
               PROVE  CountInv
    OBVIOUS
  <1>1. Pending = Zero /\ taken = Zero /\ Zero \in [Devs -> Int]
    BY DEF Init, Pending, Unread, Zero
  <1>2. ASSUME NEW f \in Flavors
        PROVE  n[f] + nlost[f] + SumOver(Pending, DevsOf(f)) = SumOver(taken, DevsOf(f))
    <2>1. SumOver(Zero, DevsOf(f)) \in Int
      BY <1>1, DevsOfFinite, SumType
    <2>2. n[f] = 0 /\ nlost[f] = 0
      BY DEF Init
    <2> QED BY <1>1, <2>1, <2>2
  <1> QED BY <1>2 DEF Init, CountInv, SamplesAccounted, Pending

\* Every step keeps the balance.
LEMMA CountNext == MonInv /\ MonInv' /\ CountInv /\ [Next]_vars => CountInv'
  <1> SUFFICES ASSUME MonInv, MonInv', CountInv, [Next]_vars
               PROVE  CountInv'
    OBVIOUS
  <1>1. ASSUME UNCHANGED <<n, nlost, taken, entries, lost, thrown>>
        PROVE  CountInv'
    BY <1>1, CountKept DEF Pending, Unread
  <1>2. ASSUME NEW l, NEW m, LoopEnd(l, m)
        PROVE  CountInv'
    BY <1>1, <1>2 DEF LoopEnd, drvVars
  <1>3. CASE \/ SkipDevice \/ EnableDevice \/ EnableEnd \/ Fork \/ Waitpid
             \/ PollReturns \/ PollTimeout \/ Disable \/ ChildSpawns
    BY <1>1, <1>3 DEF SkipDevice, EnableDevice, EnableEnd, Fork, Waitpid,
       PollReturns, PollTimeout, Disable, ChildSpawns, monVars, drvVars
  <1>4. CASE ResetBuffer \/ Fail \/ Close
    BY <1>4, ResetCounts DEF ResetBuffer, Fail, Close, Release
  <1>5. ASSUME NEW p, ProcessExit(p)
        PROVE  CountInv'
    BY <1>5, ResetCounts DEF ProcessExit, Release, monVars
  <1>6. CASE UNCHANGED vars
    BY <1>1, <1>6 DEF vars, monVars, drvVars
  <1>7. CASE Monitor
    BY <1>2, <1>3, <1>4, <1>7, ReadDeviceCounts, GetLostCounts DEF Monitor
  <1>8. CASE Failure
    BY <1>4, <1>8 DEF Failure, ForkFails, PollError
  <1>9. CASE Others
    BY <1>3, <1>5, <1>9, SampleCounts DEF Others
  <1> QED BY <1>6, <1>7, <1>8, <1>9 DEF Next


-----------------------------------------------------------------------------
(* The theorems.                                                           *)

\* The invariant holds when main starts.
LEMMA MonInvInit == Init => MonInv
  <1> SUFFICES ASSUME Init
               PROVE  MonInv
    OBVIOUS
  <1>1. MonTypeOK
    BY DEF Init, MonTypeOK, Zero
  <1>2. Tracked = {} /\ Len(fds) = 0
    BY DEF Init, Tracked
  <1>3. LoopInv
    BY <1>2 DEF Init, LoopInv
  <1>4. HolderInv
    BY <1>2 DEF Init, HolderInv
  <1>5. LossInv /\ OnlyLateMissed
    BY DEF Init, LossInv, OnlyLateMissed, Zero
  <1> QED BY <1>1, <1>3, <1>4, <1>5 DEF MonInv

\* Every step of the monitor, the program, its heirs and the hardware preserves
\* it.
LEMMA MonInvNext == MonInv /\ [Next]_vars => MonInv'
  <1> SUFFICES ASSUME MonInv, [Next]_vars
               PROVE  MonInv'
    OBVIOUS
  <1>1. CASE Monitor
    <2>1. CASE \/ LoopEnd("reset", "wait") \/ LoopEnd("read", "wait")
               \/ LoopEnd("flush", "disable") \/ LoopEnd("disable", "done")
      BY <2>1, LoopEndInv
    <2> QED BY <1>1, <2>1, SkipDeviceInv, EnableDeviceInv, EnableEndInv,
               ForkInv, ResetBufferInv, WaitpidInv, PollReturnsInv,
               PollTimeoutInv, ReadDeviceInv, GetLostInv, DisableInv, CloseInv
            DEF Monitor
  <1>2. CASE Failure
    BY <1>2, FailInv DEF Failure, ForkFails, PollError
  <1>3. CASE Others
    BY <1>3, ChildSpawnsInv, ProcessExitInv, SampleInv DEF Others
  <1>4. CASE UNCHANGED vars
    <2>1. Tracked' = Tracked
      BY <1>4 DEF Tracked, vars, monVars
    <2> QED BY <1>4, <2>1 DEF MonInv, MonTypeOK, LoopInv, HolderInv, LossInv,
               OnlyLateMissed, Collecting, InLoop, LateOnly, Unread, vars,
               monVars, procVars, drvVars
  <1> QED BY <1>1, <1>2, <1>3, <1>4 DEF Next

\* The inductive invariant holds in every state of the monitor.
THEOREM MonInvariant == Spec => []MonInv
  BY MonInvInit, MonInvNext, PTL DEF Spec

\* For any number of devices and samples, what the finished monitor never
\* reports was taken after its flush had read the device.
THEOREM LateOnlyMissed == Spec => []OnlyLateMissed
  <1>1. MonInv => OnlyLateMissed
    BY DEF MonInv
  <1> QED BY <1>1, MonInvariant, PTL

\* A finished monitor leaves no device sampling, whoever holds its descriptors;
\* a failed one leaves none once the program and its heirs are gone.
THEOREM MonitorStopsSampling == Spec => []SamplingStops
  <1>1. MonInv => SamplingStops
    BY DEF MonInv, HolderInv, SamplingStops
  <1> QED BY <1>1, MonInvariant, PTL

\* For any number of devices and samples the printed statistics are right at
\* every moment: samples written, reported lost and still pending are all the
\* samples taken.
THEOREM SamplesAreAccounted == Spec => []SamplesAccounted
  <1>1. CountInv => SamplesAccounted
    BY DEF CountInv
  <1> QED BY <1>1, CountInit, CountNext, MonInvariant, PTL DEF Spec
=============================================================================
