----------------------------- MODULE IbsControl -----------------------------
(***************************************************************************)
(* The control register of a device, bit by bit: the ioctls that set and   *)
(* get its fields (driver/ibs-fops.c) through scatter_bits and gather_bits *)
(* (driver/ibs-utils.c), enabling, and re-arming with random count bits    *)
(* (driver/ibs-interrupt.c).                                               *)
(*                                                                         *)
(* A 64-bit word is the set of the positions of its one bits, an ioctl     *)
(* argument likewise.                                                      *)
(***************************************************************************)
EXTENDS Integers, FiniteSetsExt

CONSTANTS Args,         \* arguments of SET_CUR_CNT and SET_MAX_CNT
          MaxRearms     \* bound on the interrupts

ASSUME ControlAssumption == Args \subseteq Nat /\ MaxRearms \in Nat

VARIABLES
  isOp, ext,    \* dev->flavor = IBS_OP; dev->ibs_op_cnt_ext_supported
  ctl, msr,     \* dev->ctl; the control MSR
  lfsr_value,   \* static variable of lfsr_random
  rearms,       \* interrupts so far, at most MaxRearms
  asked         \* history: per field, the argument of its last accepted SET_*

ctlRegVars == <<isOp, ext, ctl, msr, lfsr_value, rearms, asked>>

\* Bits of a number below 2^31.
Bits(v) == {b \in 0 .. 30 : (v \div 2^b) % 2 = 1}

\* Masks of include/ibs-msr-index.h, by device.
IBS_OP_EN    == 17
IBS_OP_VAL   == 18
IBS_OP_CNT_CTL == 19
IBS_FETCH_EN == 48
IBS_FETCH_VAL == 49
IBS_RAND_EN  == 57
CurMask == IF isOp THEN IF ext THEN 36 .. 58 ELSE 32 .. 51 ELSE 16 .. 31
MaxMask == IF isOp /\ ext THEN (0 .. 15) \cup (20 .. 26) ELSE 0 .. 15
EnBit   == IF isOp THEN IBS_OP_EN ELSE IBS_FETCH_EN
ValBit  == IF isOp THEN IBS_OP_VAL ELSE IBS_FETCH_VAL
FlagBit == IF isOp THEN IBS_OP_CNT_CTL ELSE IBS_RAND_EN

\* The loops walk the mask from bit 0 and move the position in the quantity on
\* at every one bit of the mask: at bit b it is Place(b, fmt).
Place(b, fmt) == Cardinality({c \in fmt : c < b})
ScatterBits(qty, fmt) == {b \in fmt : Place(b, fmt) \in qty}
GatherBits(reg, fmt) == {Place(b, fmt) : b \in reg \cap fmt}

\* set_ibs_defaults: 0x4000 and op counting, or 0x1000 and randomization.
DefaultMax == IF isOp THEN Bits(16384) ELSE Bits(4096)
Defaults == ScatterBits({}, CurMask) \cup ScatterBits(DefaultMax, MaxMask) \cup {FlagBit}

ControlInit ==
  /\ isOp \in BOOLEAN /\ ext \in BOOLEAN
  /\ ctl = Defaults /\ msr = {} /\ lfsr_value = 61453 /\ rearms = 0
  /\ asked = [cur |-> {}, max |-> DefaultMax, flag |-> TRUE]

Disabled == EnBit \notin ctl

\* SET_CUR_CNT, SET_CNT and SET_MAX_CNT: clear the field, then set it.
SetFieldOred(arg, fmt) == ctl' = ctl \cup ScatterBits(arg, fmt)
SetField(arg, fmt) == ctl' = (ctl \ fmt) \cup ScatterBits(arg, fmt)
SetCurCnt(a) ==
  /\ Disabled /\ SetField(Bits(a), CurMask)
  /\ asked' = [asked EXCEPT !.cur = Bits(a)]
  /\ UNCHANGED <<isOp, ext, msr, lfsr_value, rearms>>
SetMaxCnt(a) ==
  /\ Disabled /\ SetField(Bits(a), MaxMask)
  /\ asked' = [asked EXCEPT !.max = Bits(a)]
  /\ UNCHANGED <<isOp, ext, msr, lfsr_value, rearms>>

\* SET_CNT_CTL of op devices, SET_RAND_EN of fetch devices.
SetFlag(v) ==
  /\ Disabled /\ ctl' = IF v THEN ctl \cup {FlagBit} ELSE ctl \ {FlagBit}
  /\ asked' = [asked EXCEPT !.flag = v]
  /\ UNCHANGED <<isOp, ext, msr, lfsr_value, rearms>>

\* IBS_ENABLE, IBS_DISABLE.
EnableIbs ==
  /\ ctl' = ctl \cup {EnBit} /\ msr' = ctl'
  /\ UNCHANGED <<isOp, ext, lfsr_value, rearms, asked>>
DisableIbs ==
  /\ ctl' = ctl \ {EnBit} /\ msr' = {}
  /\ UNCHANGED <<isOp, ext, lfsr_value, rearms, asked>>

\* lfsr_random: the new top bit is the exclusive or of bits 0, 2, 3 and 5.
LfsrRandom(v) == v \div 2 + 32768 * ((v + v \div 4 + v \div 8 + v \div 32) % 2)

\* randomize_op_ctl: four random bits replace bits 32 to 35 of the copy.
RandomBits == 32 .. 35
RandomizeOpCtl(c, v) ==
  {b + 32 : b \in Bits(v % 16)} \cup (c \ RandomBits)

\* out: of the event handlers.  An op handler that finds the maximum count zero
\* returns before.
HasMaxCnt == msr \cap ((0 .. 15) \cup (20 .. 26)) # {}
Rearm ==
  /\ EnBit \in msr /\ rearms < MaxRearms
  /\ rearms' = rearms + 1
  /\ IF isOp
     THEN /\ HasMaxCnt
          /\ lfsr_value' = LfsrRandom(lfsr_value)
          /\ msr' = RandomizeOpCtl(ctl, lfsr_value')
     ELSE msr' = ctl /\ UNCHANGED lfsr_value
  /\ UNCHANGED <<isOp, ext, ctl, asked>>

ControlNext ==
  \/ \E a \in Args : SetCurCnt(a) \/ SetMaxCnt(a)
  \/ \E v \in BOOLEAN : SetFlag(v)
  \/ EnableIbs \/ DisableIbs \/ Rearm

\* GET_CUR_CNT, GET_MAX_CNT, GET_CNT_CTL / GET_RAND_EN.
Gets == [cur |-> GatherBits(ctl, CurMask), max |-> GatherBits(ctl, MaxMask),
         flag |-> FlagBit \in ctl]

-----------------------------------------------------------------------------
(* Properties.                                                             *)

\* The widths of the fields are those of the masks (include/ibs-msr-index.h);
\* include/ibs-uapi.h documents 23 bits for both counts of every op device, 16
\* for those of a fetch device.
Width(field) == IF isOp /\ ext THEN 23 ELSE IF isOp /\ field = "cur" THEN 20 ELSE 16
Documented == IF isOp THEN 23 ELSE 16
Cut(field) == {b \in asked[field] : b < Width(field)}

\* After any sequence of SET_* calls, enabling and disabling every GET_* returns
\* what was last asked for, cut to the width of the field: no field leaks into
\* another or into the enable bit, although the maximum count is split around
\* them.  A count in the documented range comes back whole, except on an op
\* device without the count extension, where the code departs from
\* include/ibs-uapi.h and drops the upper bits without an error.  While the
\* device samples, however often it was re-armed, the hardware has these settings
\* in all bits but the four that the driver randomizes, and no status bit is
\* written.  The random source never reaches 0, where it would stay.
SettingsKept ==
  /\ Gets = [cur |-> Cut("cur"), max |-> Cut("max"), flag |-> asked.flag]
  /\ (isOp => ext) => \A f \in {"cur", "max"} :
                        asked[f] \subseteq 0 .. Documented - 1 => Gets[f] = asked[f]
  /\ EnBit \in ctl => /\ msr \ RandomBits = ctl \ RandomBits
                      /\ ValBit \notin msr
  /\ 0 < lfsr_value /\ lfsr_value < 2^16
=============================================================================
