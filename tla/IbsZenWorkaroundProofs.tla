----------------------- MODULE IbsZenWorkaroundProofs -----------------------
(***************************************************************************)
(* Proofs that the dynamic workaround of IbsZenWorkaround is never left on *)
(* and, but for one race, never off while a device samples: for any number *)
(* of siblings and of overlapping calls.                                   *)
(***************************************************************************)
EXTENDS IbsZenWorkaround, TLAPS

Locked == {"scan", "wa1", "wa3", "unlock"}

\* The lock is held by the one caller inside its critical section.
LockInv ==
  /\ \A d \in Devs : pc[d] \in Locked <=> lock = d
  /\ \A d \in Devs : pc[d] # "idle" => call[d] \in {"enable", "disable"}

\* A device that samples, or whose call will still make it sample or will
\* still look whether the workaround is needed.
Responsible(d) ==
  \/ en[d]
  \/ call[d] = "enable" /\ pc[d] \in {"wa3", "unlock", "msr"}
  \/ call[d] = "disable" /\ pc[d] \in {"lock", "scan", "wa1"}

\* While WA_1 differs from what the firmware left, someone is responsible.
Owed == wa1 # orig_1 => \E d \in Devs : Responsible(d)

ZenInv == ZenTypeOK /\ LockInv /\ old_1 = orig_1 /\ Owed

\* The responsible device of the state before, if it is not the one that
\* moves, is responsible after the step too.
LEMMA OtherStaysResponsible ==
  ASSUME NEW d, NEW e \in Devs, e # d, Responsible(e),
         en'[e] = en[e], pc'[e] = pc[e], call'[e] = call[e]
  PROVE  Responsible(e)'
  BY DEF Responsible

LEMMA ZenInitTypes ==
  ASSUME Init
  PROVE  ZenTypeOK /\ LockInv
<1>1. /\ orig_1 \in BOOLEAN /\ orig_3 \in BOOLEAN /\ old_1 \in BOOLEAN /\ old_3 \in BOOLEAN
      /\ wa1 \in BOOLEAN /\ wa3 \in BOOLEAN /\ raced \in BOOLEAN
  BY Zenon DEF Init
<1>2. /\ en \in [Devs -> BOOLEAN] /\ lock \in Devs \cup {NoDev} /\ scan \in Devs
      /\ pc \in [Devs -> States] /\ call \in [Devs -> {"none", "enable", "disable"}]
  BY ZenAssumption DEF Init, States, Devs, NoDev
<1>3. LockInv
  BY ZenAssumption DEF Init, LockInv, Locked, Devs, NoDev
<1> QED BY <1>1, <1>2, <1>3 DEF ZenTypeOK

\* The types and the lock.
LEMMA ZenStepTypes ==
  ASSUME ZenTypeOK, LockInv, [Next]_vars
  PROVE  ZenTypeOK' /\ LockInv'
<1> USE ZenAssumption DEF ZenTypeOK, LockInv, Locked, States, Devs, NoDev, oldVars, Goto
<1>1. CASE UNCHANGED vars
  BY <1>1 DEF vars
<1>2. ASSUME NEW d \in Devs, Enable(d) \/ Disable(d) PROVE ZenTypeOK' /\ LockInv'
  <2>1. CASE Enable(d)
    BY <2>1 DEF Enable
  <2>2. CASE Disable(d)
    BY <2>2 DEF Disable
  <2> QED BY <1>2, <2>1, <2>2
<1>3. ASSUME NEW d \in Devs, WriteMsr(d) PROVE ZenTypeOK' /\ LockInv'
  BY <1>3 DEF WriteMsr
<1>4. ASSUME NEW d \in Devs, Lock(d) PROVE ZenTypeOK' /\ LockInv'
  <2>1. raced' \in BOOLEAN
    BY <1>4, Zenon DEF Lock
  <2> QED BY <1>4, <2>1 DEF Lock
<1>5. ASSUME NEW d \in Devs, ScanEnd(d) \/ ScanNext(d) PROVE ZenTypeOK' /\ LockInv'
  BY <1>5 DEF ScanEnd, ScanNext
<1>6. ASSUME NEW d \in Devs, WriteWa1(d) \/ WriteWa3(d) PROVE ZenTypeOK' /\ LockInv'
  <2>1. wa1' \in BOOLEAN /\ wa3' \in BOOLEAN
    BY <1>6, Zenon DEF WriteWa1, WriteWa3, RestoredWa1
  <2> QED BY <1>6, <2>1 DEF WriteWa1, WriteWa3
<1>7. ASSUME NEW d \in Devs, Unlock(d) PROVE ZenTypeOK' /\ LockInv'
  BY <1>7 DEF Unlock
<1> QED BY <1>1, <1>2, <1>3, <1>4, <1>5, <1>6, <1>7 DEF Next

\* Every step leaves someone responsible for a WA_1 that is not restored.
LEMMA ZenStep ==
  ASSUME ZenInv, [Next]_vars
  PROVE  ZenInv'
<1>1. ZenTypeOK' /\ LockInv'
  BY ZenStepTypes DEF ZenInv
<1>2. old_1' = orig_1'
  BY DEF ZenInv, Next, vars, oldVars, Enable, Disable, WriteMsr, Lock, ScanEnd, ScanNext,
         WriteWa1, WriteWa3, Unlock
<1>3. Owed'
  <2> SUFFICES ASSUME wa1' # orig_1'
               PROVE  (\E e \in Devs : Responsible(e))'
    BY DEF Owed
  <2> USE DEF ZenInv, ZenTypeOK, Goto, oldVars
  <2>1. CASE UNCHANGED vars
    BY <2>1 DEF vars, Owed, Responsible
  <2>2. ASSUME NEW d \in Devs, WriteWa1(d) PROVE (\E e \in Devs : Responsible(e))'
    <3>1. call[d] = "enable"
      BY <2>2, Zenon DEF WriteWa1, RestoredWa1
    <3>2. Responsible(d)'
      BY <2>2, <3>1 DEF WriteWa1, Responsible
    <3> QED BY <3>2
  <2>3. ASSUME NEW d \in Devs,
               Enable(d) \/ Disable(d) \/ WriteMsr(d) \/ Lock(d) \/ ScanEnd(d)
                 \/ ScanNext(d) \/ WriteWa3(d) \/ Unlock(d)
        PROVE  (\E e \in Devs : Responsible(e))'
    <3>1. wa1 # orig_1
      BY <2>3 DEF Enable, Disable, WriteMsr, Lock, ScanEnd, ScanNext, WriteWa3, Unlock
    <3>2. PICK e \in Devs : Responsible(e)
      BY <3>1 DEF Owed
    <3>3. CASE e # d
      <4>1. en'[e] = en[e] /\ pc'[e] = pc[e] /\ call'[e] = call[e]
        BY <2>3, <3>3 DEF Enable, Disable, WriteMsr, Lock, ScanEnd, ScanNext, WriteWa3, Unlock
      <4> QED BY <3>2, <3>3, <4>1, OtherStaysResponsible
    <3>4. CASE e = d
      <4>1. CASE ScanEnd(d) /\ en[scan]
        <5>1. scan \in Devs /\ en'[scan]
          BY <4>1 DEF ScanEnd
        <5> QED BY <5>1 DEF Responsible
      <4>2. CASE ~(ScanEnd(d) /\ en[scan])
        <5>1. Responsible(d)'
          BY <2>3, <3>2, <3>4, <4>2 DEF Enable, Disable, WriteMsr, Lock, ScanEnd, ScanOn,
             ScanNext, WriteWa3, Unlock, Responsible, LockInv
        <5> QED BY <5>1
      <4> QED BY <4>1, <4>2
    <3> QED BY <3>3, <3>4
  <2> QED BY <2>1, <2>2, <2>3 DEF Next
<1> QED BY <1>1, <1>2, <1>3 DEF ZenInv

\* When the firmware's values were saved, the workaround's WA_1 bits are as
\* the firmware left them whenever no device of the core samples and no call
\* is in progress: for any number of siblings and of overlapping calls.
THEOREM Wa1AlwaysRestored ==
  ASSUME Saved = TRUE
  PROVE  Spec => []Wa1Restored
<1>1. Init => ZenInv
  BY ZenInitTypes, Zenon DEF Init, ZenInv, Owed
<1>2. ZenInv /\ [Next]_vars => ZenInv'
  BY ZenStep
<1>3. ZenInv => Wa1Restored
  BY DEF ZenInv, ZenTypeOK, Owed, Responsible, Wa1Restored, Quiet
<1> QED BY <1>1, <1>2, <1>3, PTL DEF Spec

-----------------------------------------------------------------------------
(* The workaround is on while a device samples.                            *)

WaOn == wa1 /\ ~wa3

\* A device that samples, or whose call is past starting the workaround.
Needs(d) == en[d] \/ (call[d] = "enable" /\ pc[d] \in {"unlock", "msr"})

\* A caller in its critical section: an enable has set WA_1 before WA_3; a
\* disable has seen no enable bit so far, and none is about to be set.
StartHalf(d) == call[d] = "enable" /\ pc[d] = "wa3" => wa1

StopAlone(d) ==
  call[d] = "disable" =>
    /\ pc[d] \in Locked => \A e \in Devs : ~Enabling(e)
    /\ pc[d] = "scan" => \A e \in Devs : e < scan => ~en[e]
    /\ pc[d] \in {"wa1", "wa3"} => \A e \in Devs : ~en[e]

OnInv ==
  /\ \A d \in Devs : Needs(d) => WaOn
  /\ \A d \in Devs : StartHalf(d) /\ StopAlone(d)

\* One step per action.
LEMMA OnStep ==
  ASSUME ZenTypeOK, LockInv, OnInv, ~raced', [Next]_vars
  PROVE  OnInv'
<1> USE ZenAssumption DEF ZenTypeOK, LockInv, Locked, OnInv, Needs, WaOn, StartHalf, StopAlone,
        Enabling, oldVars, Goto
<1>1. CASE UNCHANGED vars
  BY <1>1 DEF vars
<1>2. ASSUME NEW d \in Devs, Enable(d) \/ Disable(d) PROVE OnInv'
  BY <1>2 DEF Enable, Disable
<1>3. ASSUME NEW d \in Devs, WriteMsr(d) PROVE OnInv'
  BY <1>3 DEF WriteMsr
<1>4. ASSUME NEW d \in Devs, Lock(d) PROVE OnInv'
  <2>1. call[d] = "disable" => \A e \in Devs : ~Enabling(e)
    BY <1>4, Zenon DEF Lock
  <2> QED BY <1>4, <2>1 DEF Lock, Devs, NoDev
<1>5. ASSUME NEW d \in Devs, ScanEnd(d) PROVE OnInv'
  <2>1. CASE en[scan]
    BY <1>5, <2>1 DEF ScanEnd, ScanOn
  <2>2. CASE ~en[scan]
    <3>1. call[d] = "disable" => \A e \in Devs : ~en[e]
      BY <1>5, <2>2 DEF ScanEnd, ScanOn, Devs
    <3> QED BY <1>5, <2>2, <3>1 DEF ScanEnd, ScanOn
  <2> QED BY <2>1, <2>2
<1>6. ASSUME NEW d \in Devs, ScanNext(d) PROVE OnInv'
  BY <1>6 DEF ScanNext, ScanOn, Devs
<1>7. ASSUME NEW d \in Devs, WriteWa1(d) PROVE OnInv'
  BY <1>7 DEF WriteWa1, RestoredWa1
<1>8. ASSUME NEW d \in Devs, WriteWa3(d) PROVE OnInv'
  BY <1>8 DEF WriteWa3
<1>9. ASSUME NEW d \in Devs, Unlock(d) PROVE OnInv'
  BY <1>9 DEF Unlock
<1> QED BY <1>1, <1>2, <1>3, <1>4, <1>5, <1>6, <1>7, <1>8, <1>9 DEF Next

LEMMA RacedStays ==
  ASSUME raced, [Next]_vars
  PROVE  raced'
BY Zenon DEF Next, vars, Enable, Disable, WriteMsr, Lock, ScanEnd, ScanNext, WriteWa1, WriteWa3,
   Unlock

\* A device samples with the workaround off only after a disable took the lock
\* between another enable's unlock and its register write.
THEOREM WorkaroundOnUnlessRaced == Spec => []WorkedAroundUnlessRaced
<1> DEFINE Inv == ZenTypeOK /\ LockInv /\ (raced \/ OnInv)
<1>1. Init => Inv
  <2> SUFFICES ASSUME Init PROVE Inv
    OBVIOUS
  <2>1. OnInv
    BY DEF Init, OnInv, Needs, StartHalf, StopAlone, Locked
  <2> QED BY <2>1, ZenInitTypes
<1>2. Inv /\ [Next]_vars => Inv'
  <2> SUFFICES ASSUME Inv, [Next]_vars PROVE Inv'
    OBVIOUS
  <2>1. ZenTypeOK' /\ LockInv'
    BY ZenStepTypes
  <2>2. raced' \/ OnInv'
    BY RacedStays, OnStep
  <2> QED BY <2>1, <2>2
<1>3. Inv => WorkedAroundUnlessRaced
  BY DEF OnInv, Needs, WaOn, WorkedAroundUnlessRaced, SamplingIsWorkedAround
<1> HIDE DEF Inv
<1> QED BY <1>1, <1>2, <1>3, PTL DEF Spec
=============================================================================
