---------------------------- MODULE IbsNmiProofs ----------------------------
(***************************************************************************)
(* Proofs about IbsNmi, for both flavors together or either alone.         *)
(***************************************************************************)
EXTENDS IbsNmi, TLAPS

-----------------------------------------------------------------------------
(* Stopping: types, phantom samples and devices that stay off.             *)

\* Each of the two checks of a handler run claims at most one event.
HandledInv ==
  /\ npc = "op" => handled = 0
  /\ npc = "fetch" => handled \in 0 .. 1

\* A valid bit the handler will act on was set by a sample; the register of a
\* device that was just stopped is zero, so the handler will not act on it.
ValidInv ==
  \A f \in Flavors :
    /\ reg[f].val /\ ~Skip(f) => f \in sampled
    /\ ppc[f] = "clear" => reg[f] = Zero

StopInv == NmiTypeOK /\ HandledInv /\ ValidInv /\ NoPhantomSample /\ StoppedStaysOff

\* The handler's part for one flavor.
LEMMA HandleFlavor ==
  ASSUME NEW f, StopInv, Handle(f) \/ Pass(f), UNCHANGED <<ctl, ppc>>
  PROVE  /\ reg' \in [Flavors -> Register] /\ sampled' \subseteq Flavors
         /\ handled' \in {handled, handled + 1}
         /\ phantom' = FALSE
         /\ ValidInv' /\ StoppedStaysOff'
<1> USE DEF StopInv, NmiTypeOK, Register, Zero
<1>1. CASE Pass(f) \/ (Handle(f) /\ Skip(f))
  <2>1. UNCHANGED <<reg, sampled, phantom>> /\ handled' \in {handled, handled + 1}
    BY <1>1 DEF Pass, Handle
  <2> QED BY <2>1 DEF ValidInv, Skip, StoppedStaysOff, NoPhantomSample
<1>2. CASE Handle(f) /\ ~Skip(f)
  <2>1. f \in Flavors /\ reg[f].val /\ f \in sampled /\ ppc[f] # "clear"
    BY <1>2 DEF Handle, HasSample, ValidInv
  <2>2. /\ reg' = [reg EXCEPT ![f] = FromCtl(f)] /\ sampled' = sampled \ {f}
        /\ handled' = handled + 1
    BY <1>2 DEF Handle, Write
  <2>3. phantom' = FALSE
    BY <1>2, <2>1, Zenon DEF Handle, NoPhantomSample
  <2>4. reg' \in [Flavors -> Register]
    BY <2>1, <2>2 DEF FromCtl
  <2>5. ValidInv'
    BY <2>1, <2>2 DEF ValidInv, Skip, FromCtl
  <2>6. StoppedStaysOff'
    BY <2>1, <2>2 DEF StoppedStaysOff, FromCtl
  <2> QED BY <2>2, <2>3, <2>4, <2>5, <2>6
<1> QED BY <1>1, <1>2

LEMMA StopStep ==
  ASSUME StopInv, [Next]_vars
  PROVE  StopInv'
<1> USE NmiAssumption
<1>1. CASE UNCHANGED vars
  BY <1>1 DEF vars, hwVars, nmiVars, StopInv, NmiTypeOK, HandledInv, ValidInv, Skip,
              NoPhantomSample, StoppedStaysOff
<1>2. CASE NmiEnter
  <2>1. swallow' \in BOOLEAN /\ b2b' \in BOOLEAN
    BY <1>2, Zenon DEF NmiEnter, StopInv, NmiTypeOK
  <2>2. /\ latched' = FALSE /\ follows' = FALSE /\ npc' = "op" /\ handled' = 0
        /\ UNCHANGED <<err420, reg, ctl, sampled, sent, unknown, phantom, discarded, ppc>>
    BY <1>2 DEF NmiEnter
  <2>3. latched' \in BOOLEAN /\ follows' \in BOOLEAN
    BY <2>2, Zenon
  <2>4. handled' \in 0 .. 2 /\ npc' \in {"idle", "op", "fetch", "exit"}
        /\ UNCHANGED <<err420, reg, ctl, sampled, sent, unknown, phantom, discarded, ppc>>
    BY <2>2
  <2>5. NmiTypeOK'
    BY <2>1, <2>3, <2>4 DEF StopInv, NmiTypeOK
  <2> QED BY <2>2, <2>5 DEF StopInv, HandledInv, ValidInv, Skip, NoPhantomSample,
                            StoppedStaysOff
<1>3. CASE HandleOp
  <2>1. UNCHANGED <<ctl, ppc>> /\ npc' = "fetch" /\ npc = "op"
        /\ (Handle("op") \/ Pass("op")) 
        /\ UNCHANGED <<hwVars, b2b, swallow, unknown, discarded>>
    BY <1>3 DEF HandleOp
  <2>2. /\ reg' \in [Flavors -> Register] /\ sampled' \subseteq Flavors
        /\ handled' \in {handled, handled + 1} /\ phantom' = FALSE
        /\ ValidInv' /\ StoppedStaysOff'
    BY <2>1, HandleFlavor
  <2>3. HandledInv' /\ handled' \in 0 .. 2
    BY <2>1, <2>2 DEF StopInv, HandledInv
  <2>4. NmiTypeOK'
    BY <2>1, <2>2, <2>3 DEF StopInv, NmiTypeOK, hwVars
  <2>5. NoPhantomSample'
    BY <2>2 DEF NoPhantomSample
  <2> QED BY <2>2, <2>3, <2>4, <2>5 DEF StopInv
<1>4. CASE HandleFetch
  <2>1. UNCHANGED <<ctl, ppc>> /\ npc' = "exit" /\ npc = "fetch"
        /\ (Handle("fetch") \/ Pass("fetch")) 
        /\ UNCHANGED <<hwVars, b2b, swallow, unknown, discarded>>
    BY <1>4 DEF HandleFetch
  <2>2. /\ reg' \in [Flavors -> Register] /\ sampled' \subseteq Flavors
        /\ handled' \in {handled, handled + 1} /\ phantom' = FALSE
        /\ ValidInv' /\ StoppedStaysOff'
    BY <2>1, HandleFlavor
  <2>3. HandledInv' /\ handled' \in 0 .. 2
    BY <2>1, <2>2 DEF StopInv, HandledInv
  <2>4. NmiTypeOK'
    BY <2>1, <2>2, <2>3 DEF StopInv, NmiTypeOK, hwVars
  <2>5. NoPhantomSample'
    BY <2>2 DEF NoPhantomSample
  <2> QED BY <2>2, <2>3, <2>4, <2>5 DEF StopInv
<1>5. CASE NmiExit
  <2>1. unknown' \in BOOLEAN /\ swallow' \in BOOLEAN /\ b2b' \in BOOLEAN
    BY <1>5, Zenon DEF NmiExit
  <2>2. /\ npc' = "idle" /\ handled' = 0
        /\ UNCHANGED <<reg, ctl, sampled, hwVars, phantom, discarded, ppc>>
    BY <1>5 DEF NmiExit
  <2>3. NmiTypeOK'
    BY <2>1, <2>2 DEF hwVars, StopInv, NmiTypeOK
  <2> QED BY <2>2, <2>3 DEF StopInv, HandledInv, ValidInv, Skip, NoPhantomSample,
                            StoppedStaysOff
<1>6. ASSUME NEW f \in Flavors, Sample(f) PROVE StopInv'
  <2> USE <1>6 DEF Sample, nmiVars, StopInv
  <2>0. /\ reg'[f] = [reg[f] EXCEPT !.val = TRUE] /\ reg[f] \in Register
        /\ \A g \in Flavors : g # f => reg'[g] = reg[g]
        /\ reg' \in [Flavors -> Register]
    <3>1. reg[f] \in Register /\ reg'[f] = [reg[f] EXCEPT !.val = TRUE]
          /\ \A g \in Flavors : g # f => reg'[g] = reg[g]
      BY DEF NmiTypeOK
    <3>2. [reg[f] EXCEPT !.val = TRUE] \in Register
      BY <3>1 DEF Register
    <3> QED BY <3>1, <3>2 DEF NmiTypeOK
  <2>1. NmiTypeOK'
    BY <2>0 DEF NmiTypeOK
  <2>2. HandledInv' /\ NoPhantomSample'
    BY DEF HandledInv, NoPhantomSample
  <2>3. ValidInv'
    <3> SUFFICES ASSUME NEW g \in Flavors
                 PROVE  /\ reg'[g].val /\ ~(g = "op" /\ ~reg'[g].max) => g \in sampled'
                        /\ ppc'[g] = "clear" => reg'[g] = Zero
      BY DEF ValidInv, Skip
    <3>1. CASE g = f
      <4>1. g \in sampled' /\ ppc[f] # "clear"
        BY <3>1 DEF ValidInv, Zero
      <4> QED BY <3>1, <4>1
    <3>2. CASE g # f
      BY <2>0, <3>2 DEF ValidInv, Skip
    <3> QED BY <3>1, <3>2
  <2>4. StoppedStaysOff'
    BY DEF NmiTypeOK, Register, StoppedStaysOff
  <2> QED BY <2>1, <2>2, <2>3, <2>4
<1>7. ASSUME NEW f \in Flavors, Deliver(f) PROVE StopInv'
  <2>1. follows' \in BOOLEAN
    BY <1>7, Zenon DEF Deliver
  <2> QED BY <1>7, <2>1 DEF Deliver, nmiVars, StopInv, NmiTypeOK, HandledInv, ValidInv, Skip,
                            NoPhantomSample, StoppedStaysOff
<1>8. ASSUME NEW f \in Flavors, EnableCtl(f) \/ DisableCtl(f) PROVE StopInv'
  <2> USE <1>8 DEF EnableCtl, DisableCtl, Goto, hwVars, nmiVars, StopInv
  <2>1. NmiTypeOK'
    <3>1. ctl' \in [Flavors -> BOOLEAN]
      BY DEF NmiTypeOK
    <3>2. ppc' \in [Flavors -> {"idle", "enable", "disable", "delay", "clear"}]
      BY DEF NmiTypeOK
    <3>3. UNCHANGED <<reg, sampled, hwVars, nmiVars, discarded>>
      OBVIOUS
    <3>4. NmiTypeOK
      OBVIOUS
    <3> HIDE <1>8 DEF EnableCtl, DisableCtl, StopInv
    <3> QED BY <3>1, <3>2, <3>3, <3>4 DEF NmiTypeOK
  <2>2. HandledInv' /\ NoPhantomSample'
    BY DEF HandledInv, NoPhantomSample
  <2>3. ValidInv'
    BY DEF NmiTypeOK, ValidInv, Skip
  <2>4. StoppedStaysOff'
    BY DEF NmiTypeOK, Register, ValidInv, Zero, StoppedStaysOff
  <2> QED BY <2>1, <2>2, <2>3, <2>4
<1>9. ASSUME NEW f \in Flavors, EnableMsr(f) PROVE StopInv'
  <2>1. discarded' \in BOOLEAN
    BY <1>9, Zenon DEF EnableMsr, Overwrite
  <2>2. NmiTypeOK'
    <3>1. reg' \in [Flavors -> Register] /\ sampled' \subseteq Flavors
      BY <1>9 DEF EnableMsr, Overwrite, Write, FromCtl, Register, StopInv, NmiTypeOK
    <3>2. ppc' \in [Flavors -> {"idle", "enable", "disable", "delay", "clear"}]
      BY <1>9 DEF EnableMsr, Goto, StopInv, NmiTypeOK
    <3> QED BY <1>9, <2>1, <3>1, <3>2 DEF EnableMsr, hwVars, nmiVars, StopInv, NmiTypeOK
  <2>3. HandledInv' /\ NoPhantomSample'
    BY <1>9 DEF EnableMsr, nmiVars, StopInv, HandledInv, NoPhantomSample
  <2>4. ValidInv'
    BY <1>9 DEF EnableMsr, Overwrite, Write, Goto, FromCtl, Zero, ValidInv, Skip, StopInv, NmiTypeOK
  <2>5. StoppedStaysOff'
    BY <1>9 DEF EnableMsr, Overwrite, Write, Goto, FromCtl, StoppedStaysOff, StopInv, NmiTypeOK
  <2> QED BY <2>2, <2>3, <2>4, <2>5 DEF StopInv
<1>10. ASSUME NEW f \in Flavors, Wa420(f) PROVE StopInv'
  BY <1>10 DEF Wa420, Write, Goto, nmiVars, StopInv, NmiTypeOK, Register,
               HandledInv, ValidInv, Skip, Zero, NoPhantomSample, StoppedStaysOff
<1>11. ASSUME NEW f \in Flavors, DisableVal(f) PROVE StopInv'
  BY <1>11 DEF DisableVal, OnlyVal, Write, Goto, hwVars, nmiVars, StopInv, NmiTypeOK, Register,
               HandledInv, ValidInv, Skip, Zero, NoPhantomSample, StoppedStaysOff
<1>12. ASSUME NEW f \in Flavors, DisableZero(f) PROVE StopInv'
  <2>1. discarded' \in BOOLEAN
    BY <1>12, Zenon DEF DisableZero, Overwrite
  <2>2. NmiTypeOK'
    <3>1. reg' \in [Flavors -> Register] /\ sampled' \subseteq Flavors
      BY <1>12 DEF DisableZero, Overwrite, Write, Zero, Register, StopInv, NmiTypeOK
    <3>2. ppc' \in [Flavors -> {"idle", "enable", "disable", "delay", "clear"}]
      BY <1>12 DEF DisableZero, Goto, StopInv, NmiTypeOK
    <3> QED BY <1>12, <2>1, <3>1, <3>2 DEF DisableZero, hwVars, nmiVars, StopInv, NmiTypeOK
  <2>3. HandledInv' /\ NoPhantomSample'
    BY <1>12 DEF DisableZero, nmiVars, StopInv, HandledInv, NoPhantomSample
  <2>4. ValidInv'
    BY <1>12 DEF DisableZero, Overwrite, Write, Goto, FromCtl, Zero, ValidInv, Skip, StopInv, NmiTypeOK
  <2>5. StoppedStaysOff'
    BY <1>12 DEF DisableZero, Overwrite, Write, Goto, Zero, StoppedStaysOff, StopInv, NmiTypeOK
  <2> QED BY <2>2, <2>3, <2>4, <2>5 DEF StopInv
<1> QED BY <1>1, <1>2, <1>3, <1>4, <1>5, <1>6, <1>7, <1>8, <1>9, <1>10, <1>11, <1>12 DEF Next

\* The inductive invariant of stopping.
THEOREM StopInvariant == Spec => []StopInv
<1>1. Init => StopInv
  <2> SUFFICES ASSUME Init PROVE StopInv
    OBVIOUS
  <2>0. err420 \in BOOLEAN
    BY NmiAssumption, Zenon DEF Init
  <2>1. /\ latched \in BOOLEAN /\ follows \in BOOLEAN /\ b2b \in BOOLEAN
        /\ swallow \in BOOLEAN /\ unknown \in BOOLEAN /\ phantom \in BOOLEAN
        /\ discarded \in BOOLEAN
    BY Zenon DEF Init
  <2>3. reg \in [Flavors -> Register] /\ ctl \in [Flavors -> BOOLEAN]
    BY DEF Init, Register, Zero
  <2>4. /\ sampled \subseteq Flavors /\ sent \subseteq Flavors /\ handled \in 0 .. 2
        /\ npc \in {"idle", "op", "fetch", "exit"}
        /\ ppc \in [Flavors -> {"idle", "enable", "disable", "delay", "clear"}]
    BY DEF Init
  <2>5. NmiTypeOK
    BY <2>0, <2>1, <2>3, <2>4 DEF NmiTypeOK
  <2>2. HandledInv /\ ValidInv /\ NoPhantomSample /\ StoppedStaysOff
    BY DEF Init, HandledInv, ValidInv, Zero, NoPhantomSample, StoppedStaysOff
  <2> QED BY <2>2, <2>5 DEF StopInv
<1> QED BY <1>1, StopStep, PTL DEF Spec

\* Nothing the driver writes while disabling is ever recorded as a sample.
THEOREM NoPhantoms == Spec => []NoPhantomSample
BY StopInvariant, PTL DEF StopInv

\* A stopped device stays off, whatever NMIs were on their way.
THEOREM StoppedIsOff == Spec => []StoppedStaysOff
BY StopInvariant, PTL DEF StopInv

-----------------------------------------------------------------------------
(* Claiming: every NMI finds a valid bit, or is absorbed by the kernel.    *)

\* Outside an NMI and before its first check, an NMI on its way has its valid
\* bit; the NMI that is pending or being handled has a valid bit of its own,
\* or follows one whose handlers claimed two events.
IdleInv ==
  npc = "idle" =>
    /\ \A f \in sent : HasSample(f)
    /\ latched => (\E f \in Flavors \ sent : HasSample(f)) \/ (follows /\ swallow)

OpInv ==
  npc = "op" =>
    /\ \A f \in sent : HasSample(f)
    /\ (\E f \in Flavors \ sent : HasSample(f)) \/ (b2b /\ swallow)
    /\ latched => swallow \/ (HasSample("op") /\ HasSample("fetch"))

\* After the check of op: an NMI that arrives now for a sample this run has
\* claimed will be absorbed, because this run claims two.
FetchInv ==
  npc = "fetch" =>
    /\ "fetch" \in sent => HasSample("fetch")
    /\ handled = 1 \/ (HasSample("fetch") /\ "fetch" \notin sent) \/ (b2b /\ swallow)
    /\ "op" \in sent \/ latched
         => HasSample("op") \/ swallow \/ (handled = 1 /\ HasSample("fetch"))

ExitInv ==
  npc = "exit" =>
    /\ handled # 0 \/ (b2b /\ swallow)
    /\ latched \/ sent # {}
         => HasSample("op") \/ HasSample("fetch") \/ swallow \/ handled = 2

NoUnknownNmi == ~unknown

\* As long as no register was written under an NMI on its way.
ClaimInv ==
  /\ IdleInv /\ OpInv /\ FetchInv /\ ExitInv
  /\ npc # "idle" /\ latched => follows
  /\ NoUnknownNmi

\* A step outside any NMI that leaves every NMI on its way its valid bit.
LEMMA QuietStep ==
  ASSUME npc = "idle", latched = FALSE, UNCHANGED <<npc, latched, unknown>>, NoUnknownNmi,
         \A f \in sent' : HasSample(f)'
  PROVE  ClaimInv'
BY DEF ClaimInv, IdleInv, OpInv, FetchInv, ExitInv, NoUnknownNmi

\* A step that concerns neither registers nor interrupts.
LEMMA OtherStep ==
  ASSUME ClaimInv, UNCHANGED <<reg, hwVars, nmiVars>>
  PROVE  ClaimInv'
BY DEF ClaimInv, IdleInv, OpInv, FetchInv, ExitInv, NoUnknownNmi, HasSample, hwVars, nmiVars

\* What a handler's check of one flavor does.
LEMMA HandleEffect ==
  ASSUME NEW f, StopInv, Handle(f) \/ Pass(f)
  PROVE  /\ \A g : g # f => (HasSample(g)' <=> HasSample(g))
         /\ HasSample(f)' => HasSample(f)
         /\ HasSample(f) => handled' = handled + 1
         /\ ~HasSample(f) => handled' = handled
<1>1. CASE Pass(f) \/ (Handle(f) /\ Skip(f))
  BY <1>1 DEF Pass, Handle, HasSample
<1>2. CASE Handle(f) /\ ~Skip(f)
  <2>1. reg' = [reg EXCEPT ![f] = FromCtl(f)] /\ HasSample(f) /\ handled' = handled + 1
    BY <1>2 DEF Handle, Write
  <2>2. \A g : g # f => (HasSample(g)' <=> HasSample(g))
    BY <2>1 DEF HasSample, StopInv, NmiTypeOK
  <2> QED BY <2>1, <2>2
<1> QED BY <1>1, <1>2

LEMMA ClaimStep ==
  ASSUME StopInv, ClaimInv, ~discarded', [Next]_vars
  PROVE  ClaimInv'
<1> USE NmiAssumption
<1>1. CASE UNCHANGED vars
  BY <1>1, OtherStep DEF vars
<1>2. CASE NmiEnter
  <2>1. npc = "idle" /\ latched /\ latched' = FALSE /\ npc' = "op"
        /\ UNCHANGED <<reg, ctl, sent, unknown, ppc>>
    BY <1>2 DEF NmiEnter
  <2>2. NoUnknownNmi'
    BY <2>1 DEF ClaimInv, NoUnknownNmi
  <2>3. \A f \in sent' : HasSample(f)'
    BY <2>1 DEF ClaimInv, IdleInv, HasSample
  <2>4. (\E f \in Flavors \ sent : HasSample(f)) \/ (follows /\ swallow)
    BY <2>1 DEF ClaimInv, IdleInv
  <2>5. (\E f \in Flavors \ sent : HasSample(f))' \/ (b2b' /\ swallow')
    BY <1>2, <2>1, <2>4, Zenon DEF NmiEnter, HasSample
  <2> QED BY <2>1, <2>2, <2>3, <2>5 DEF ClaimInv, IdleInv, OpInv, FetchInv, ExitInv
<1>3. CASE HandleOp
  <2>1. npc = "op" /\ npc' = "fetch" /\ (Handle("op") \/ Pass("op")) /\ handled = 0
        /\ UNCHANGED <<ctl, sent, latched, follows, b2b, swallow, unknown, ppc>>
    BY <1>3 DEF HandleOp, hwVars, StopInv, HandledInv
  <2>2. /\ HasSample("fetch")' <=> HasSample("fetch")
        /\ HasSample("op") => handled' = 1
        /\ handled' = 0 => ~HasSample("op")
    <3>1. /\ HasSample("fetch")' <=> HasSample("fetch")
          /\ HasSample("op") => handled' = handled + 1
          /\ ~HasSample("op") => handled' = handled
      BY <2>1, HandleEffect
    <3> QED BY <2>1, <3>1
  <2>4. FetchInv'
    <3>1. "fetch" \in sent' => HasSample("fetch")'
      BY <2>1, <2>2 DEF ClaimInv, OpInv
    <3>2. handled' = 1 \/ (HasSample("fetch")' /\ "fetch" \notin sent') \/ (b2b' /\ swallow')
      <4>1. HasSample("op") \/ (HasSample("fetch") /\ "fetch" \notin sent) \/ (b2b /\ swallow)
        BY <2>1 DEF ClaimInv, OpInv
      <4> QED BY <2>1, <2>2, <4>1
    <3>3. ASSUME "op" \in sent' \/ latched'
          PROVE  HasSample("op")' \/ swallow' \/ (handled' = 1 /\ HasSample("fetch")')
      <4>1. swallow \/ (HasSample("op") /\ HasSample("fetch"))
        BY <2>1, <3>3 DEF ClaimInv, OpInv
      <4> QED BY <2>1, <2>2, <4>1
    <3> QED BY <3>1, <3>2, <3>3 DEF FetchInv
  <2> QED BY <2>1, <2>4 DEF ClaimInv, IdleInv, OpInv, ExitInv, NoUnknownNmi
<1>4. CASE HandleFetch
  <2>1. npc = "fetch" /\ npc' = "exit" /\ (Handle("fetch") \/ Pass("fetch"))
        /\ handled \in 0 .. 1
        /\ UNCHANGED <<ctl, sent, latched, follows, b2b, swallow, unknown, ppc>>
    BY <1>4 DEF HandleFetch, hwVars, StopInv, HandledInv
  <2>2. /\ HasSample("op")' <=> HasSample("op")
        /\ HasSample("fetch") => handled' # 0
        /\ handled = 1 => handled' # 0
        /\ HasSample("fetch") /\ handled = 1 => handled' = 2
    <3>1. /\ HasSample("op")' <=> HasSample("op")
          /\ HasSample("fetch") => handled' = handled + 1
          /\ ~HasSample("fetch") => handled' = handled
      BY <2>1, HandleEffect
    <3>2. handled = 1 => handled + 1 = 2 /\ handled + 1 # 0
      OBVIOUS
    <3>3. handled + 1 # 0
      BY <2>1
    <3> QED BY <3>1, <3>2, <3>3, Zenon
  <2>4. ExitInv'
    <3>1. handled' # 0 \/ (b2b' /\ swallow')
      <4>1. handled = 1 \/ HasSample("fetch") \/ (b2b /\ swallow)
        BY <2>1 DEF ClaimInv, FetchInv
      <4> QED BY <2>1, <2>2, <4>1
    <3>2. ASSUME latched' \/ sent' # {}
          PROVE  HasSample("op")' \/ HasSample("fetch")' \/ swallow' \/ handled' = 2
      <4>1. CASE "fetch" \in sent
        <5>1. HasSample("fetch") /\ (handled = 1 \/ swallow)
          BY <2>1, <4>1 DEF ClaimInv, FetchInv
        <5> QED BY <2>1, <2>2, <5>1
      <4>2. CASE "op" \in sent \/ latched
        <5>1. HasSample("op") \/ swallow \/ (handled = 1 /\ HasSample("fetch"))
          BY <2>1, <4>2 DEF ClaimInv, FetchInv
        <5> QED BY <2>1, <2>2, <5>1
      <4>3. sent \subseteq {"op", "fetch"} /\ sent' = sent /\ latched' = latched
        BY <2>1 DEF StopInv, NmiTypeOK
      <4> QED BY <3>2, <4>1, <4>2, <4>3, Zenon
    <3> QED BY <3>1, <3>2 DEF ExitInv
  <2> QED BY <2>1, <2>4 DEF ClaimInv, IdleInv, OpInv, FetchInv, NoUnknownNmi
<1>5. CASE NmiExit
  <2>1. npc = "exit" /\ sent = {} /\ npc' = "idle"
        /\ UNCHANGED <<reg, ctl, sent, latched, follows, ppc>>
    BY <1>5 DEF NmiExit, hwVars
  <2>3. handled # 0 \/ (b2b /\ swallow)
    BY <2>1 DEF ClaimInv, ExitInv
  <2>4. NoUnknownNmi'
    BY <1>5, <2>3, Zenon DEF NmiExit, NoUnknownNmi, ClaimInv
  <2>5. ASSUME latched'
        PROVE  (\E f \in Flavors \ sent : HasSample(f))' \/ (follows' /\ swallow')
    <3>1. follows /\ (HasSample("op") \/ HasSample("fetch") \/ swallow \/ handled = 2)
      BY <2>1, <2>5 DEF ClaimInv, ExitInv
    <3>2. handled = 2 => handled > 1
      OBVIOUS
    <3>3. swallow \/ handled = 2 => swallow'
      BY <1>5, <3>2, Zenon DEF NmiExit
    <3>4. HasSample("op") \/ HasSample("fetch") => (\E f \in Flavors \ sent : HasSample(f))'
      BY <2>1 DEF HasSample
    <3> QED BY <2>1, <3>1, <3>3, <3>4
  <2>6. IdleInv'
    BY <2>1, <2>5 DEF IdleInv
  <2> QED BY <2>1, <2>4, <2>6 DEF ClaimInv, OpInv, FetchInv, ExitInv
<1>6. ASSUME NEW f \in Flavors, Sample(f) PROVE ClaimInv'
  <2>1. /\ reg[f].en /\ ~HasSample(f) /\ HasSample(f)'
        /\ \A g : g # f => (HasSample(g)' <=> HasSample(g))
        /\ sent' = sent \cup {f}
        /\ UNCHANGED <<ctl, latched, follows, nmiVars, ppc>>
    BY <1>6 DEF Sample, HasSample, StopInv, NmiTypeOK, Register
  <2>3. \A g : HasSample(g) => HasSample(g)' /\ (g \notin sent => g \notin sent')
    BY <2>1
  <2>4. IdleInv' /\ OpInv'
    BY <2>1, <2>3 DEF ClaimInv, IdleInv, OpInv, nmiVars
  <2>5. FetchInv' /\ ExitInv'
    BY <2>1, <2>3 DEF ClaimInv, FetchInv, ExitInv, nmiVars, HasSample, StopInv, NmiTypeOK
  <2> QED BY <2>1, <2>4, <2>5 DEF ClaimInv, NoUnknownNmi, nmiVars
<1>7. ASSUME NEW f \in Flavors, Deliver(f) PROVE ClaimInv'
  <2>1. /\ f \in sent /\ sent' = sent \ {f} /\ latched' = TRUE
        /\ UNCHANGED <<reg, ctl, nmiVars, ppc>>
    BY <1>7 DEF Deliver
  <2>2. npc # "idle" => follows'
    BY <1>7, Zenon DEF Deliver
  <2>4. IdleInv' /\ OpInv'
    BY <2>1 DEF ClaimInv, IdleInv, OpInv, HasSample, nmiVars
  <2>5. FetchInv' /\ ExitInv'
    BY <2>1 DEF ClaimInv, FetchInv, ExitInv, HasSample, nmiVars
  <2> QED BY <2>1, <2>2, <2>4, <2>5 DEF ClaimInv, NoUnknownNmi, nmiVars
<1>8. ASSUME NEW f \in Flavors, EnableCtl(f) \/ DisableCtl(f) PROVE ClaimInv'
  BY <1>8, OtherStep DEF EnableCtl, DisableCtl
<1>9. ASSUME NEW f \in Flavors,
             EnableMsr(f) \/ Wa420(f) \/ DisableVal(f) \/ DisableZero(f)
      PROVE  ClaimInv'
  <2>1. /\ npc = "idle" /\ latched = FALSE
        /\ UNCHANGED <<npc, latched, unknown>>
    BY <1>9 DEF EnableMsr, Wa420, DisableVal, DisableZero, OnCpu, hwVars, nmiVars,
       StopInv, NmiTypeOK
  <2>2. \A g \in sent' : HasSample(g)'
    <3>1. \A g \in sent : g \in Flavors /\ reg[g].val
      BY <2>1 DEF ClaimInv, IdleInv, HasSample
    <3>2. \A g \in Flavors : g # f => reg'[g] = reg[g]
      BY <1>9 DEF EnableMsr, Wa420, DisableVal, DisableZero, Overwrite, Write, StopInv, NmiTypeOK
    <3>3. CASE EnableMsr(f) \/ DisableZero(f)
      <4>1. f \notin sent
        BY <3>3, Zenon DEF EnableMsr, DisableZero, Overwrite
      <4>2. sent' = sent
        BY <3>3 DEF EnableMsr, DisableZero, hwVars
      <4> QED BY <3>1, <3>2, <4>1, <4>2 DEF HasSample
    <3>4. CASE Wa420(f) \/ DisableVal(f)
      <4>1. sent' \subseteq sent \cup {f}
        BY <3>4 DEF Wa420, DisableVal, hwVars
      <4>2. reg'[f].val
        BY <3>4 DEF Wa420, DisableVal, Write, OnlyVal, StopInv, NmiTypeOK
      <4> QED BY <3>1, <3>2, <4>1, <4>2 DEF HasSample
    <3> QED BY <1>9, <3>3, <3>4
  <2> QED BY <2>1, <2>2, QuietStep DEF ClaimInv
<1> QED BY <1>1, <1>2, <1>3, <1>4, <1>5, <1>6, <1>7, <1>8, <1>9 DEF Next

\* Once a register was written under an NMI on its way, it stays so.
LEMMA DiscardedStays ==
  ASSUME discarded, [Next]_vars
  PROVE  discarded'
BY Zenon DEF Next, vars, NmiEnter, HandleOp, HandleFetch, NmiExit, Sample, Deliver, EnableCtl,
   EnableMsr, Overwrite, Wa420, DisableVal, DisableZero, DisableCtl

\* No NMI that IBS causes goes unclaimed unless a caller wrote the register of
\* its flavor while it was on its way, for both flavors together or either
\* alone, with and without erratum 420.
THEOREM UnclaimedOnlyDiscarded == Spec => []OnlyDiscardedUnknown
<1> DEFINE Inv == discarded \/ ClaimInv
<1>1. Init => Inv
  BY DEF Init, ClaimInv, IdleInv, OpInv, FetchInv, ExitInv, NoUnknownNmi
<1>2. StopInv /\ Inv /\ [Next]_vars => Inv'
  <2> SUFFICES ASSUME StopInv, Inv, [Next]_vars, ~discarded'
               PROVE  ClaimInv'
    OBVIOUS
  <2>1. ~discarded
    BY DiscardedStays
  <2> QED BY <2>1, ClaimStep
<1>3. Inv => OnlyDiscardedUnknown
  BY DEF ClaimInv, NoUnknownNmi, OnlyDiscardedUnknown
<1> HIDE DEF Inv
<1> QED BY <1>1, <1>2, <1>3, StopInvariant, PTL DEF Spec
=============================================================================
