------------------------------- MODULE IbsNmi -------------------------------
(***************************************************************************)
(* One CPU's control registers and non-maskable interrupts: the sampling   *)
(* hardware of the op and the fetch flavor, handle_ibs_nmi                 *)
(* (driver/ibs-interrupt.c) and the register writes of enabling and        *)
(* disabling a device (driver/ibs-fops.c), which run on the CPU in a       *)
(* function call from another one and so never in the middle of an NMI.    *)
(* IbsDevice takes a disable as one step; this module looks inside it.     *)
(*                                                                         *)
(* External parts, modelled from how the driver uses them: the hardware    *)
(* (a sample sets the valid bit and sends an NMI, and the engine then      *)
(* waits to be re-armed) and the kernel's NMI entry (an NMI that no        *)
(* handler claims is unknown, unless it came back to back after one        *)
(* whose handlers claimed more than one event).  An NMI that has been sent *)
(* reaches the CPU within the microsecond that disable_ibs_op waits and    *)
(* before a handler ends; it is held while an NMI is being handled.        *)
(***************************************************************************)
EXTENDS Integers, FiniteSets

CONSTANTS Flavors,      \* the flavors in use: a subset of {"op", "fetch"}
          Workarounds   \* values of dev->workaround_fam10h_err_420

ASSUME NmiAssumption == /\ Flavors \subseteq {"op", "fetch"}
                        /\ Workarounds \subseteq BOOLEAN

VARIABLES
  err420,     \* dev->workaround_fam10h_err_420
  reg,        \* per flavor, the control MSR: enable, valid, nonzero max count
  ctl,        \* per flavor, the enable bit of dev->ctl
  sampled,    \* history: flavors whose valid bit was set by a sample
  sent,       \* flavors whose NMI is on its way
  latched,    \* an NMI has reached the CPU and has not been taken
  follows,    \* the latched NMI arrived while another was being handled
  npc, b2b, handled, swallow,  \* the kernel's NMI entry and handle_ibs_nmi
  unknown,    \* an NMI was reported as unknown
  phantom,    \* history: a handler recorded a sample that was never taken
  discarded,  \* history: a register was written while its NMI was on its way
  ppc         \* per flavor: the caller that enables or disables the device

hwVars   == <<err420, sent, latched, follows>>
nmiVars  == <<npc, b2b, handled, swallow, unknown, phantom>>
vars     == <<reg, ctl, sampled, hwVars, nmiVars, discarded, ppc>>

Register == [en : BOOLEAN, val : BOOLEAN, max : BOOLEAN]
Zero     == [en |-> FALSE, val |-> FALSE, max |-> FALSE]
OnlyVal  == [en |-> FALSE, val |-> TRUE, max |-> FALSE]

\* dev->ctl as written to the register: set_ibs_defaults gives it a max count.
FromCtl(f) == [en |-> ctl[f], val |-> FALSE, max |-> TRUE]

Init ==
  /\ err420 \in Workarounds
  /\ reg = [f \in Flavors |-> Zero] /\ ctl = [f \in Flavors |-> FALSE]
  /\ sampled = {} /\ sent = {} /\ latched = FALSE /\ follows = FALSE
  /\ npc = "idle" /\ b2b = FALSE /\ handled = 0 /\ swallow = FALSE
  /\ unknown = FALSE /\ phantom = FALSE /\ discarded = FALSE
  /\ ppc = [f \in Flavors |-> "idle"]

\* Writing r to the register of f ends whatever sample it held.
Write(f, r) == reg' = [reg EXCEPT ![f] = r] /\ sampled' = sampled \ {f}

\* The same from outside the handler, when the valid bit may be lost with it.
Overwrite(f, r) == Write(f, r) /\ discarded' = (discarded \/ f \in sent)

-----------------------------------------------------------------------------
(* Hardware and the kernel's NMI entry (external).                         *)

Sample(f) ==
  /\ reg[f].en /\ reg[f].max /\ ~reg[f].val
  /\ reg' = [reg EXCEPT ![f].val = TRUE]
  /\ sampled' = sampled \cup {f}
  /\ sent' = sent \cup {f}
  /\ UNCHANGED <<err420, ctl, latched, follows, nmiVars, discarded, ppc>>

Deliver(f) ==
  /\ f \in sent
  /\ sent' = sent \ {f}
  /\ latched' = TRUE
  /\ follows' = (npc # "idle" \/ follows)
  /\ UNCHANGED <<err420, reg, ctl, sampled, nmiVars, discarded, ppc>>

NmiEnter ==
  /\ npc = "idle" /\ latched
  /\ latched' = FALSE /\ follows' = FALSE
  /\ npc' = "op"
  /\ b2b' = follows
  /\ swallow' = (follows /\ swallow)
  /\ handled' = 0
  /\ UNCHANGED <<err420, reg, ctl, sampled, sent, unknown, phantom,
                 discarded, ppc>>

NmiExit ==
  /\ npc = "exit" /\ sent = {}
  /\ npc' = "idle"
  /\ swallow' = (swallow \/ handled > 1)
  /\ unknown' = (unknown \/ (handled = 0 /\ ~(b2b /\ swallow)))
  /\ b2b' = FALSE /\ handled' = 0
  /\ UNCHANGED <<reg, ctl, sampled, hwVars, phantom, discarded, ppc>>

-----------------------------------------------------------------------------
(* handle_ibs_event: the op register first, then the fetch register.       *)

HasSampleAny(f) == f \in Flavors
HasSample(f) == f \in Flavors /\ reg[f].val

\* handle_ibs_op_event ignores a valid bit with a zero max count: it was set
\* by disable_ibs_op or by the erratum 420 workaround.
SkipNever(f) == FALSE
Skip(f) == f = "op" /\ ~reg[f].max

\* Record the sample, re-arm the hardware with dev->ctl and count an event.
Handle(f) ==
  /\ HasSample(f)
  /\ handled' = handled + 1
  /\ IF Skip(f)
     THEN UNCHANGED <<reg, sampled, phantom>>
     ELSE Write(f, FromCtl(f)) /\ phantom' = (phantom \/ f \notin sampled)

Pass(f) == ~HasSample(f) /\ UNCHANGED <<reg, sampled, phantom, handled>>

HandleOp ==
  /\ npc = "op"
  /\ Handle("op") \/ Pass("op")
  /\ npc' = "fetch"
  /\ UNCHANGED <<ctl, hwVars, b2b, swallow, unknown, discarded, ppc>>

HandleFetch ==
  /\ npc = "fetch"
  /\ Handle("fetch") \/ Pass("fetch")
  /\ npc' = "exit"
  /\ UNCHANGED <<ctl, hwVars, b2b, swallow, unknown, discarded, ppc>>

-----------------------------------------------------------------------------
(* Callers.  A remote register write needs the CPU to be out of any NMI    *)
(* and out of disable_ibs_op, which spins on it for a microsecond.         *)

OnCpu(f) == npc = "idle" /\ ~latched /\ \A g \in Flavors \ {f} : ppc[g] # "delay"

Goto(f, l, m) == ppc[f] = l /\ ppc' = [ppc EXCEPT ![f] = m]

EnableCtl(f) ==
  /\ Goto(f, "idle", "enable")
  /\ ctl' = [ctl EXCEPT ![f] = TRUE]
  /\ UNCHANGED <<reg, sampled, hwVars, nmiVars, discarded>>

EnableMsr(f) ==
  /\ Goto(f, "enable", "idle")
  /\ OnCpu(f)
  /\ Overwrite(f, FromCtl(f))
  /\ UNCHANGED <<ctl, hwVars, nmiVars>>

\* do_fam10h_workaround_420 reads the op register of the CPU that the caller
\* runs on, which may be any CPU, so e is any value; it sets the valid bit,
\* zeroes the max count and writes the result to the device's CPU.  The
\* erratum may then send an NMI.
Wa420(f) ==
  /\ f = "op" /\ OnCpu(f)
  /\ err420
  /\ Goto(f, "idle", "disable")
  /\ \E e \in BOOLEAN : Write(f, [en |-> e, val |-> TRUE, max |-> FALSE])
  /\ sent' \in {sent, sent \cup {f}}
  /\ UNCHANGED <<err420, ctl, latched, follows, nmiVars, discarded>>

\* disable_ibs_op: leave only the valid bit, for an NMI on its way to see ...
DisableValCleared(f) ==
  /\ f = "op" /\ OnCpu(f)
  /\ Goto(f, IF err420 THEN "disable" ELSE "idle", "delay")
  /\ Write(f, Zero)
  /\ UNCHANGED <<ctl, hwVars, nmiVars, discarded>>
DisableVal(f) ==
  /\ f = "op" /\ OnCpu(f)
  /\ Goto(f, IF err420 THEN "disable" ELSE "idle", "delay")
  /\ Write(f, OnlyVal)
  /\ UNCHANGED <<ctl, hwVars, nmiVars, discarded>>

\* ... wait a microsecond, and clear the register.  disable_ibs_fetch_on_cpu
\* clears it at once.
DisableZero(f) ==
  /\ OnCpu(f)
  /\ IF f = "op" THEN Goto(f, "delay", "clear") /\ f \notin sent
                 ELSE Goto(f, "idle", "clear")
  /\ Overwrite(f, Zero)
  /\ UNCHANGED <<ctl, hwVars, nmiVars>>

DisableCtl(f) ==
  /\ Goto(f, "clear", "idle")
  /\ ctl' = [ctl EXCEPT ![f] = FALSE]
  /\ UNCHANGED <<reg, sampled, hwVars, nmiVars, discarded>>

Next ==
  \/ NmiEnter \/ HandleOp \/ HandleFetch \/ NmiExit
  \/ \E f \in Flavors :
       \/ Sample(f) \/ Deliver(f)
       \/ EnableCtl(f) \/ EnableMsr(f)
       \/ Wa420(f) \/ DisableVal(f) \/ DisableZero(f) \/ DisableCtl(f)

Spec == Init /\ [][Next]_vars

-----------------------------------------------------------------------------
(* Properties.                                                             *)

NmiTypeOK ==
  /\ err420 \in BOOLEAN
  /\ reg \in [Flavors -> Register] /\ ctl \in [Flavors -> BOOLEAN]
  /\ sampled \subseteq Flavors /\ sent \subseteq Flavors
  /\ latched \in BOOLEAN /\ follows \in BOOLEAN
  /\ npc \in {"idle", "op", "fetch", "exit"} /\ handled \in 0 .. 2
  /\ b2b \in BOOLEAN /\ swallow \in BOOLEAN
  /\ unknown \in BOOLEAN /\ phantom \in BOOLEAN /\ discarded \in BOOLEAN
  /\ ppc \in [Flavors -> {"idle", "enable", "disable", "delay", "clear"}]

\* An NMI that IBS causes goes unclaimed only after a caller wrote the register
\* of its flavor while it was on its way.  Disabling op sampling never does: the
\* valid bit it leaves, its delay and the count of events that handle_ibs_event
\* returns are together enough, also with both flavors and erratum 420.
OnlyDiscardedUnknown == unknown => discarded

\* A valid bit that the driver itself wrote while disabling is never taken
\* for a sample: nothing is recorded, and sampling is not re-armed.
NoPhantomSample == ~phantom

\* Once its register is cleared a device does not sample until it is enabled
\* again, though an NMI on its way is handled while dev->ctl is still on.
StoppedStaysOff ==
  \A f \in Flavors : ppc[f] = "clear" \/ (ppc[f] = "idle" /\ ~ctl[f]) => ~reg[f].en
=============================================================================
