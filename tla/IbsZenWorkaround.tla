-------------------------- MODULE IbsZenWorkaround --------------------------
(***************************************************************************)
(* The dynamic workaround for first-generation Family 17h cores            *)
(* (driver/ibs-workarounds.c) on one physical core: while any of the op    *)
(* and fetch devices of the core's SMT siblings samples, some bits of MSR  *)
(* WA_1 must be set and some bits of MSR WA_3 clear.  Callers are the      *)
(* IBS_ENABLE, IBS_DISABLE and close calls of the core's devices; each     *)
(* device's calls are serialised by its ctl_lock.                          *)
(*                                                                         *)
(* Device 2s is the op device of sibling s, device 2s+1 its fetch device.  *)
(* wa1 is "the WA_1 bits are set", wa3 is "the WA_3 bits are set".         *)
(*                                                                         *)
(* The NMI handler rewrites a control register without changing its enable *)
(* bit for anyone who reads it through a call on that CPU (such a call     *)
(* cannot run in the middle of an NMI), so it has no step here.            *)
(***************************************************************************)
EXTENDS Integers, FiniteSets

CONSTANTS Siblings,   \* number of SMT threads of the core
          MaxCalls,   \* number of calls in progress on the core at a time
          Saved       \* TRUE: the old MSR values were read (model 01h)

ASSUME ZenAssumption == /\ Siblings \in Nat \ {0}
                        /\ MaxCalls \in Nat \ {0}
                        /\ Saved \in BOOLEAN

Devs == 0 .. 2 * Siblings - 1
NoDev == 2 * Siblings

VARIABLES
  orig_1, orig_3,   \* the bits as the firmware left them
  old_1, old_3,     \* fam17h_old_1, fam17h_old_3
  wa1, wa3,         \* the bits now
  en,               \* per device: the enable bit of its control MSR
  lock,             \* the core's pcpu_workaround_lock: its owner or NoDev
  pc, call,         \* per device: where its caller is, and in which call
  scan,             \* the lock owner's position among the control registers
  raced             \* history: a stop began between a start and its register write

oldVars == <<orig_1, orig_3, old_1, old_3>>
vars == <<oldVars, wa1, wa3, en, lock, pc, call, scan, raced>>

States == {"idle", "lock", "scan", "wa1", "wa3", "unlock", "msr"}

\* init_fam17h_zn_workaround reads the old values only on model 01h; on the
\* other models that get the workaround the saved values stay 0.
Init ==
  /\ orig_1 \in BOOLEAN /\ orig_3 \in BOOLEAN
  /\ old_1 = (Saved /\ orig_1) /\ old_3 = (Saved /\ orig_3)
  /\ wa1 = orig_1 /\ wa3 = orig_3
  /\ en = [d \in Devs |-> FALSE]
  /\ lock = NoDev /\ scan = 0 /\ raced = FALSE
  /\ pc = [d \in Devs |-> "idle"] /\ call = [d \in Devs |-> "none"]

Goto(d, l, m) == pc[d] = l /\ pc' = [pc EXCEPT ![d] = m]

MayCall == Cardinality({d \in Devs : pc[d] # "idle"}) < MaxCalls

\* enable_ibs_*_on_cpu: start the workaround, then write the register.
Enable(d) ==
  /\ MayCall
  /\ Goto(d, "idle", "lock")
  /\ call' = [call EXCEPT ![d] = "enable"]
  /\ UNCHANGED <<oldVars, wa1, wa3, en, lock, scan, raced>>

\* disable_ibs_*_on_cpu: write the register, then stop the workaround.
Disable(d) ==
  /\ MayCall
  /\ Goto(d, "idle", "msr")
  /\ call' = [call EXCEPT ![d] = "disable"]
  /\ UNCHANGED <<oldVars, wa1, wa3, en, lock, scan, raced>>

WriteMsr(d) ==
  /\ Goto(d, "msr", IF call[d] = "enable" THEN "idle" ELSE "lock")
  /\ en' = [en EXCEPT ![d] = (call[d] = "enable")]
  /\ UNCHANGED <<oldVars, wa1, wa3, lock, call, scan, raced>>

\* An enable between its unlock and its register write: the workaround is on
\* for it, but no scan sees it.
Enabling(d) == pc[d] = "msr" /\ call[d] = "enable"

\* spin_lock(cpu_workaround_lock), the lock of the core's first sibling.
Lock(d) ==
  /\ Goto(d, "lock", "scan")
  /\ lock = NoDev
  /\ lock' = d
  /\ scan' = 0
  /\ raced' = (raced \/ (call[d] = "disable" /\ \E e \in Devs : Enabling(e)))
  /\ UNCHANGED <<oldVars, wa1, wa3, en, call>>

\* The loop over topology_sibling_cpumask: any enable bit ends the call.
ScanOnNever == FALSE
ScanOn == en[scan]

ScanEnd(d) ==
  /\ Goto(d, "scan", IF ScanOn THEN "unlock" ELSE "wa1")
  /\ ScanOn \/ scan = 2 * Siblings - 1
  /\ scan' = 0
  /\ UNCHANGED <<oldVars, wa1, wa3, en, lock, call, raced>>

ScanNext(d) ==
  /\ pc[d] = "scan"
  /\ ~ScanOn /\ scan < 2 * Siblings - 1
  /\ scan' = scan + 1
  /\ UNCHANGED <<oldVars, wa1, wa3, en, lock, pc, call, raced>>

\* Set the bits of WA_1; or unset them "if they were originally unset".
RestoredWa1Kept == wa1 \/ old_1
RestoredWa1 == old_1

WriteWa1(d) ==
  /\ Goto(d, "wa1", "wa3")
  /\ wa1' = (call[d] = "enable" \/ RestoredWa1)
  /\ UNCHANGED <<oldVars, wa3, en, lock, call, scan, raced>>

\* Unset the bits of WA_3; or set them, whatever they were originally.
WriteWa3(d) ==
  /\ Goto(d, "wa3", "unlock")
  /\ wa3' = (call[d] # "enable")
  /\ UNCHANGED <<oldVars, wa1, en, lock, call, scan, raced>>

Unlock(d) ==
  /\ Goto(d, "unlock", IF call[d] = "enable" THEN "msr" ELSE "idle")
  /\ lock' = NoDev
  /\ UNCHANGED <<oldVars, wa1, wa3, en, call, scan, raced>>

Next == \E d \in Devs :
  \/ Enable(d) \/ Disable(d) \/ WriteMsr(d) \/ Lock(d) \/ ScanEnd(d)
  \/ ScanNext(d) \/ WriteWa1(d) \/ WriteWa3(d) \/ Unlock(d)

Spec == Init /\ [][Next]_vars

-----------------------------------------------------------------------------
(* Properties.                                                             *)

ZenTypeOK ==
  /\ orig_1 \in BOOLEAN /\ orig_3 \in BOOLEAN
  /\ old_1 \in BOOLEAN /\ old_3 \in BOOLEAN
  /\ wa1 \in BOOLEAN /\ wa3 \in BOOLEAN
  /\ en \in [Devs -> BOOLEAN]
  /\ lock \in Devs \cup {NoDev} /\ scan \in Devs /\ raced \in BOOLEAN
  /\ pc \in [Devs -> States] /\ call \in [Devs -> {"none", "enable", "disable"}]

Quiet == \A d \in Devs : pc[d] = "idle" /\ ~en[d]

\* However enables and disables of the core's devices overlap, once none
\* samples and no call is in progress WA_1 is as the firmware left it: the
\* workaround, which slows the core down, is never left on.
Wa1Restored == Quiet => wa1 = orig_1

\* "requires unsetting some bits in various MSRs so long as any IBS samples can
\* flow through the pipeline": a device samples only with the workaround on.
\* This can fail, see WorkedAroundUnlessRaced.
SamplingIsWorkedAround == \A d \in Devs : en[d] => wa1 /\ ~wa3

\* The same for every overlap of calls but one: it fails only after a disable
\* took the lock while an enable was between its unlock and its register write.
WorkedAroundUnlessRaced == raced \/ SamplingIsWorkedAround
=============================================================================
