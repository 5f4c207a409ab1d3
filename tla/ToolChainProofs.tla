-------------------------- MODULE ToolChainProofs ---------------------------
(***************************************************************************)
(* Proofs about ToolChain for every argument of the ioctls, every rate,    *)
(* every machine, every set of online CPUs and any number of interrupts.   *)
(***************************************************************************)
EXTENDS ToolChain, FiniteSetTheorems, SequenceTheorems, WellFoundedInduction, TLAPS

\* The control register, field by field, holds what was asked for; the hardware
\* has the same, but for the bits the driver randomizes.
RegisterInv ==
  /\ isOp \in BOOLEAN /\ ext \in BOOLEAN
  /\ asked \in [cur : SUBSET (0 .. 30), max : SUBSET (0 .. 30), flag : BOOLEAN]
  /\ ctl \cap CurMask = ScatterBits(asked.cur, CurMask)
  /\ ctl \cap MaxMask = ScatterBits(asked.max, MaxMask)
  /\ FlagBit \in ctl <=> asked.flag
  /\ ValBit \notin ctl
  /\ EnBit \in ctl => /\ msr \ RandomBits = ctl \ RandomBits
                      /\ ValBit \notin msr
  /\ EnBit \in msr => EnBit \in ctl
  /\ lfsr_value \in Nat /\ 0 < lfsr_value /\ lfsr_value < 65536

\* The rate behind the maximum count.
RateInv ==
  \A r \in rate : /\ r \in Nat /\ RateAccepted(r)
                  /\ asked.max = Bits(r \div 16)

\* The inductive invariant.
ToolInv == RegisterInv /\ RateInv

-----------------------------------------------------------------------------
(* Masks, and the places of their bits.                                    *)

LEMMA IntervalSize ==
  ASSUME NEW lo \in Int, NEW b \in Int, lo <= b
  PROVE  IsFiniteSet(lo .. (b - 1)) /\ Cardinality(lo .. (b - 1)) = b - lo
  <1> DEFINE h == b - 1
  <1>1. h \in Int
    OBVIOUS
  <1> HIDE DEF h
  <1>2. /\ IsFiniteSet(lo .. h)
        /\ Cardinality(lo .. h) = IF lo > h THEN 0 ELSE h - lo + 1
    BY <1>1, FS_Interval
  <1>3. (IF lo > h THEN 0 ELSE h - lo + 1) = b - lo
    BY DEF h
  <1> QED BY <1>2, <1>3 DEF h

\* In a mask of one piece the places count from its first bit.
LEMMA PlaceInterval ==
  ASSUME NEW lo \in Nat, NEW hi \in Nat, NEW b \in lo .. hi
  PROVE  Place(b, lo .. hi) = b - lo
  <1>1. {c \in lo .. hi : c < b} = lo .. (b - 1)
    OBVIOUS
  <1>2. Cardinality(lo .. (b - 1)) = b - lo
    BY IntervalSize
  <1> QED BY <1>1, <1>2 DEF Place

\* The maximum count of the extended op counter continues at bit 20.
LEMMA PlaceSplit ==
  ASSUME NEW b \in (0 .. 15) \cup (20 .. 26)
  PROVE  Place(b, (0 .. 15) \cup (20 .. 26)) = IF b < 20 THEN b ELSE b - 4
  <1> DEFINE M == (0 .. 15) \cup (20 .. 26)
  <1>1. CASE b < 20
    <2>1. {c \in M : c < b} = 0 .. (b - 1)
      BY <1>1
    <2>2. Cardinality(0 .. (b - 1)) = b
      BY <1>1, IntervalSize
    <2> QED BY <1>1, <2>1, <2>2 DEF Place
  <1>2. CASE b >= 20
    <2>1. {c \in M : c < b} = (0 .. 15) \cup (20 .. (b - 1))
      BY <1>2
    <2>2. IsFiniteSet(0 .. 15) /\ Cardinality(0 .. 15) = 16
      <3>1. /\ IsFiniteSet(0 .. 15)
            /\ Cardinality(0 .. 15) = IF 0 > 15 THEN 0 ELSE 15 - 0 + 1
        BY FS_Interval, 0 \in Int, 15 \in Int
      <3> QED BY <3>1
    <2>3. IsFiniteSet(20 .. (b - 1)) /\ Cardinality(20 .. (b - 1)) = b - 20
      BY <1>2, IntervalSize
    <2>4. (0 .. 15) \cap (20 .. (b - 1)) = {}
      BY <1>2
    <2>5. Cardinality({}) = 0
      BY FS_EmptySet
    <2>6. Cardinality((0 .. 15) \cup (20 .. (b - 1)))
            = Cardinality(0 .. 15) + Cardinality(20 .. (b - 1))
              - Cardinality((0 .. 15) \cap (20 .. (b - 1)))
      BY <2>2, <2>3, FS_Union
    <2>7. Cardinality((0 .. 15) \cup (20 .. (b - 1))) = 16 + (b - 20) - 0
      BY <2>2, <2>3, <2>4, <2>5, <2>6
    <2> QED BY <1>2, <2>1, <2>7 DEF Place
  <1> QED BY <1>1, <1>2

\* A field that was scattered is gathered again, cut to the width of the mask.
LEMMA GatherScatter ==
  ASSUME NEW reg, NEW qty, NEW fmt, reg \cap fmt = ScatterBits(qty, fmt)
  PROVE  GatherBits(reg, fmt) = qty \cap {Place(b, fmt) : b \in fmt}
  BY DEF GatherBits, ScatterBits

\* The places of the masks are the widths the driver documents.
LEMMA MaskWidths ==
  ASSUME isOp \in BOOLEAN, ext \in BOOLEAN
  PROVE  /\ {Place(b, CurMask) : b \in CurMask} = 0 .. (Width("cur") - 1)
         /\ {Place(b, MaxMask) : b \in MaxMask} = 0 .. (Width("max") - 1)
  <1>1. \A lo, hi \in Nat : {Place(b, lo .. hi) : b \in lo .. hi} = 0 .. (hi - lo)
    <2> SUFFICES ASSUME NEW lo \in Nat, NEW hi \in Nat
                 PROVE  {Place(b, lo .. hi) : b \in lo .. hi} = 0 .. (hi - lo)
      OBVIOUS
    <2>1. {Place(b, lo .. hi) : b \in lo .. hi} = {b - lo : b \in lo .. hi}
      BY PlaceInterval
    <2>2. \A n \in 0 .. (hi - lo) : n + lo \in lo .. hi /\ (n + lo) - lo = n
      OBVIOUS
    <2>3. \A b \in lo .. hi : b - lo \in 0 .. (hi - lo)
      OBVIOUS
    <2> QED BY <2>1, <2>2, <2>3
  <1> DEFINE M == (0 .. 15) \cup (20 .. 26)
  <1>2. {Place(b, M) : b \in M} = 0 .. 22
    <2>1. \A b \in M : Place(b, M) = IF b < 20 THEN b ELSE b - 4
      BY PlaceSplit
    <2> HIDE DEF M
    <2>2. {Place(b, M) : b \in M} = {IF b < 20 THEN b ELSE b - 4 : b \in M}
      BY <2>1
    <2>3. \A b \in M : (IF b < 20 THEN b ELSE b - 4) \in 0 .. 22
      BY DEF M
    <2>4. \A n \in 0 .. 15 : n \in M /\ n = IF n < 20 THEN n ELSE n - 4
      BY DEF M
    <2>5. \A n \in 16 .. 22 : n + 4 \in M /\ n = IF n + 4 < 20 THEN n + 4 ELSE (n + 4) - 4
      BY DEF M
    <2> QED BY <2>2, <2>3, <2>4, <2>5
  <1>3. CASE ~isOp
    <2>1. \E lo, hi \in Nat : CurMask = lo .. hi /\ Width("cur") - 1 = hi - lo
      <3>1. CurMask = 16 .. 31 /\ Width("cur") - 1 = 31 - 16
        BY <1>3 DEF CurMask, Width
      <3> WITNESS 16 \in Nat, 31 \in Nat
      <3> QED BY <3>1
    <2>2. \E lo, hi \in Nat : MaxMask = lo .. hi /\ Width("max") - 1 = hi - lo
      <3>1. MaxMask = 0 .. 15 /\ Width("max") - 1 = 15 - 0
        BY <1>3 DEF MaxMask, Width
      <3> WITNESS 0 \in Nat, 15 \in Nat
      <3> QED BY <3>1
    <2>3. {Place(b, CurMask) : b \in CurMask} = 0 .. (Width("cur") - 1)
      BY <1>1, <2>1
    <2>4. {Place(b, MaxMask) : b \in MaxMask} = 0 .. (Width("max") - 1)
      BY <1>1, <2>2
    <2> QED BY <2>3, <2>4
  <1>4. CASE isOp /\ ext
    <2>1. \E lo, hi \in Nat : CurMask = lo .. hi /\ Width("cur") - 1 = hi - lo
      <3>1. CurMask = 36 .. 58 /\ Width("cur") - 1 = 58 - 36
        BY <1>4 DEF CurMask, Width
      <3> WITNESS 36 \in Nat, 58 \in Nat
      <3> QED BY <3>1
    <2>2. MaxMask = M /\ Width("max") - 1 = 22
      BY <1>4 DEF MaxMask, Width
    <2> HIDE DEF M
    <2>3. {Place(b, CurMask) : b \in CurMask} = 0 .. (Width("cur") - 1)
      BY <1>1, <2>1
    <2>4. {Place(b, MaxMask) : b \in MaxMask} = 0 .. (Width("max") - 1)
      BY <1>2, <2>2
    <2> QED BY <2>3, <2>4
  <1>5. CASE isOp /\ ~ext
    <2>1. \E lo, hi \in Nat : CurMask = lo .. hi /\ Width("cur") - 1 = hi - lo
      <3>1. CurMask = 32 .. 51 /\ Width("cur") - 1 = 51 - 32
        BY <1>5 DEF CurMask, Width
      <3> WITNESS 32 \in Nat, 51 \in Nat
      <3> QED BY <3>1
    <2>2. \E lo, hi \in Nat : MaxMask = lo .. hi /\ Width("max") - 1 = hi - lo
      <3>1. MaxMask = 0 .. 15 /\ Width("max") - 1 = 15 - 0
        BY <1>5 DEF MaxMask, Width
      <3> WITNESS 0 \in Nat, 15 \in Nat
      <3> QED BY <3>1
    <2>3. {Place(b, CurMask) : b \in CurMask} = 0 .. (Width("cur") - 1)
      BY <1>1, <2>1
    <2>4. {Place(b, MaxMask) : b \in MaxMask} = 0 .. (Width("max") - 1)
      BY <1>1, <2>2
    <2> QED BY <2>3, <2>4
  <1> QED BY <1>3, <1>4, <1>5

\* The fields and the single bits of the register are apart from each other.
LEMMA FieldsApart ==
  ASSUME isOp \in BOOLEAN, ext \in BOOLEAN
  PROVE  /\ CurMask \cap MaxMask = {}
         /\ {EnBit, ValBit, FlagBit} \cap (CurMask \cup MaxMask) = {}
         /\ EnBit # ValBit /\ EnBit # FlagBit /\ ValBit # FlagBit
         /\ {EnBit, ValBit, FlagBit} \cap RandomBits = {}
         /\ MaxMask \cap RandomBits = {}
  BY DEF CurMask, MaxMask, EnBit, ValBit, FlagBit, IBS_OP_EN, IBS_OP_VAL,
         IBS_OP_CNT_CTL, IBS_FETCH_EN, IBS_FETCH_VAL, IBS_RAND_EN, RandomBits

-----------------------------------------------------------------------------
(* Random bits.                                                            *)

\* The linear feedback shift register stays in its range and never reaches 0.
LEMMA LfsrRange ==
  ASSUME NEW v \in Nat, 0 < v, v < 65536
  PROVE  LfsrRandom(v) \in Nat /\ 0 < LfsrRandom(v) /\ LfsrRandom(v) < 65536
  <1>1. CASE v = 1
    BY <1>1 DEF LfsrRandom
  <1>2. CASE v # 1
    <2> DEFINE h == v \div 2
               x == (v + v \div 4 + v \div 8 + v \div 32) % 2
    <2>1. h \in Nat /\ 0 < h /\ h < 32768
      BY <1>2
    <2>2. x = 0 \/ x = 1
      OBVIOUS
    <2>3. LfsrRandom(v) = h + 32768 * x
      BY DEF LfsrRandom
    <2> HIDE DEF h, x
    <2> QED BY <2>1, <2>2, <2>3
  <1> QED BY <1>1, <1>2

\* The places of a word, and powers of two at them.
Word == 0 .. 30
Power(b) == 2^b

LEMMA PowerOfTwo ==
  ASSUME NEW b \in Word
  PROVE  /\ Power(b) \in Nat /\ Power(b) > 0
         /\ b >= 4 => Power(b) >= 16
         /\ b >= 16 => Power(b) >= 65536
         /\ b >= 23 => Power(b) >= 8388608
  <1>0. CASE b = 0
    BY <1>0 DEF Power
  <1>1. CASE b = 1
    BY <1>1 DEF Power
  <1>2. CASE b = 2
    BY <1>2 DEF Power
  <1>3. CASE b = 3
    BY <1>3 DEF Power
  <1>4. CASE b = 4
    BY <1>4 DEF Power
  <1>5. CASE b = 5
    BY <1>5 DEF Power
  <1>6. CASE b = 6
    BY <1>6 DEF Power
  <1>7. CASE b = 7
    BY <1>7 DEF Power
  <1>8. CASE b = 8
    BY <1>8 DEF Power
  <1>9. CASE b = 9
    BY <1>9 DEF Power
  <1>10. CASE b = 10
    BY <1>10 DEF Power
  <1>11. CASE b = 11
    BY <1>11 DEF Power
  <1>12. CASE b = 12
    BY <1>12 DEF Power
  <1>13. CASE b = 13
    BY <1>13 DEF Power
  <1>14. CASE b = 14
    BY <1>14 DEF Power
  <1>15. CASE b = 15
    BY <1>15 DEF Power
  <1>16. CASE b = 16
    BY <1>16 DEF Power
  <1>17. CASE b = 17
    BY <1>17 DEF Power
  <1>18. CASE b = 18
    BY <1>18 DEF Power
  <1>19. CASE b = 19
    BY <1>19 DEF Power
  <1>20. CASE b = 20
    BY <1>20 DEF Power
  <1>21. CASE b = 21
    BY <1>21 DEF Power
  <1>22. CASE b = 22
    BY <1>22 DEF Power
  <1>23. CASE b = 23
    BY <1>23 DEF Power
  <1>24. CASE b = 24
    BY <1>24 DEF Power
  <1>25. CASE b = 25
    BY <1>25 DEF Power
  <1>26. CASE b = 26
    BY <1>26 DEF Power
  <1>27. CASE b = 27
    BY <1>27 DEF Power
  <1>28. CASE b = 28
    BY <1>28 DEF Power
  <1>29. CASE b = 29
    BY <1>29 DEF Power
  <1>30. CASE b = 30
    BY <1>30 DEF Power
  <1> QED
    BY <1>0, <1>1, <1>2, <1>3, <1>4, <1>5, <1>6, <1>7, <1>8, <1>9, <1>10,
         <1>11, <1>12, <1>13, <1>14, <1>15, <1>16, <1>17, <1>18, <1>19,
         <1>20, <1>21, <1>22, <1>23, <1>24, <1>25, <1>26, <1>27, <1>28,
         <1>29, <1>30 DEF Word

\* Four random bits have the places 32 to 35.
LEMMA RandomPlaces ==
  ASSUME NEW v \in Nat
  PROVE  {b + 32 : b \in Bits(v % 16)} \subseteq RandomBits
  <1>1. ASSUME NEW b \in Bits(v % 16)
        PROVE  b \in 0 .. 3
    <2>1. b \in Word /\ ((v % 16) \div Power(b)) % 2 = 1
      BY DEF Bits, Word, Power
    <2>2. v % 16 \in Nat /\ v % 16 < 16
      OBVIOUS
    <2>3. ASSUME b >= 4 PROVE FALSE
      <3> DEFINE p == Power(b)
                 x == v % 16
      <3>1. p \in Nat /\ p >= 16
        BY <2>1, <2>3, PowerOfTwo
      <3>2. x \in Nat /\ x < 16 /\ (x \div p) % 2 = 1
        BY <2>1, <2>2
      <3> HIDE DEF p, x
      <3>3. x \div p = 0
        BY <3>1, <3>2
      <3> QED BY <3>2, <3>3
    <2> QED BY <2>1, <2>3 DEF Word
  <1> QED BY <1>1 DEF RandomBits

-----------------------------------------------------------------------------
(* The register through every action.                                      *)

LEMMA BitsType ==
  ASSUME NEW v
  PROVE  Bits(v) \in SUBSET (0 .. 30)
  BY DEF Bits

\* Setting a field changes the bits of its mask, to the argument's.
LEMMA SetFieldBits ==
  ASSUME NEW arg, NEW fmt, SetField(arg, fmt)
  PROVE  /\ ctl' \cap fmt = ScatterBits(arg, fmt)
         /\ ctl' \ fmt = ctl \ fmt
  BY DEF SetField, ScatterBits

\* SET_CUR_CNT leaves the maximum count and the single bits alone, ...
LEMMA SetCurCntInv ==
  ASSUME RegisterInv, NEW a, SetCurCnt(a)
  PROVE  RegisterInv'
  <1>1. UNCHANGED <<CurMask, MaxMask, EnBit, ValBit, FlagBit>>
    BY DEF SetCurCnt, CurMask, MaxMask, EnBit, ValBit, FlagBit
  <1>2. /\ ctl' \cap CurMask = ScatterBits(Bits(a), CurMask)
        /\ ctl' \ CurMask = ctl \ CurMask
    BY SetFieldBits DEF SetCurCnt
  <1>3. /\ asked'.cur = Bits(a) /\ asked'.max = asked.max /\ asked'.flag = asked.flag
        /\ asked' \in [cur : SUBSET (0 .. 30), max : SUBSET (0 .. 30), flag : BOOLEAN]
    BY BitsType DEF RegisterInv, SetCurCnt
  <1>4. /\ ctl' \cap MaxMask = ctl \cap MaxMask
        /\ FlagBit \in ctl' <=> FlagBit \in ctl
        /\ ValBit \notin ctl' /\ EnBit \notin ctl'
    BY <1>2, FieldsApart DEF RegisterInv, SetCurCnt, Disabled
  <1> QED BY <1>1, <1>2, <1>3, <1>4
          DEF RegisterInv, SetCurCnt, Disabled, ScatterBits

\* ... SET_MAX_CNT the current count, although the mask has two pieces.
LEMMA SetMaxCntInv ==
  ASSUME RegisterInv, NEW a, SetMaxCnt(a)
  PROVE  RegisterInv'
  <1>1. UNCHANGED <<CurMask, MaxMask, EnBit, ValBit, FlagBit>>
    BY DEF SetMaxCnt, CurMask, MaxMask, EnBit, ValBit, FlagBit
  <1>2. /\ ctl' \cap MaxMask = ScatterBits(Bits(a), MaxMask)
        /\ ctl' \ MaxMask = ctl \ MaxMask
    BY SetFieldBits DEF SetMaxCnt
  <1>3. /\ asked'.cur = asked.cur /\ asked'.max = Bits(a) /\ asked'.flag = asked.flag
        /\ asked' \in [cur : SUBSET (0 .. 30), max : SUBSET (0 .. 30), flag : BOOLEAN]
    BY BitsType DEF RegisterInv, SetMaxCnt
  <1>4. /\ ctl' \cap CurMask = ctl \cap CurMask
        /\ FlagBit \in ctl' <=> FlagBit \in ctl
        /\ ValBit \notin ctl' /\ EnBit \notin ctl'
    BY <1>2, FieldsApart DEF RegisterInv, SetMaxCnt, Disabled
  <1> QED BY <1>1, <1>2, <1>3, <1>4
          DEF RegisterInv, SetMaxCnt, Disabled, ScatterBits

LEMMA SetFlagInv ==
  ASSUME RegisterInv, NEW v \in BOOLEAN, SetFlag(v)
  PROVE  RegisterInv'
  <1>1. UNCHANGED <<CurMask, MaxMask, EnBit, ValBit, FlagBit>>
    BY DEF SetFlag, CurMask, MaxMask, EnBit, ValBit, FlagBit
  <1>2. ctl' \ {FlagBit} = ctl \ {FlagBit} /\ (FlagBit \in ctl' <=> v)
    BY DEF SetFlag
  <1>3. /\ asked'.cur = asked.cur /\ asked'.max = asked.max /\ asked'.flag = v
        /\ asked' \in [cur : SUBSET (0 .. 30), max : SUBSET (0 .. 30), flag : BOOLEAN]
    BY DEF RegisterInv, SetFlag
  <1>4. /\ ctl' \cap CurMask = ctl \cap CurMask
        /\ ctl' \cap MaxMask = ctl \cap MaxMask
        /\ ValBit \notin ctl' /\ EnBit \notin ctl'
    BY <1>2, FieldsApart DEF RegisterInv, SetFlag, Disabled
  <1> QED BY <1>1, <1>2, <1>3, <1>4
          DEF RegisterInv, SetFlag, Disabled, ScatterBits

\* Enabling and disabling change the enable bit only.
LEMMA SwitchInv ==
  ASSUME RegisterInv, EnableIbs \/ DisableIbs
  PROVE  RegisterInv'
  <1>1. UNCHANGED <<CurMask, MaxMask, EnBit, ValBit, FlagBit>>
    BY DEF EnableIbs, DisableIbs, CurMask, MaxMask, EnBit, ValBit, FlagBit
  <1>2. ctl' \ {EnBit} = ctl \ {EnBit}
    BY DEF EnableIbs, DisableIbs
  <1>3. /\ ctl' \cap CurMask = ctl \cap CurMask
        /\ ctl' \cap MaxMask = ctl \cap MaxMask
        /\ FlagBit \in ctl' <=> FlagBit \in ctl
        /\ ValBit \notin ctl'
    BY <1>2, FieldsApart DEF RegisterInv
  <1>4. msr' = ctl' \/ (EnBit \notin ctl' /\ msr' = {})
    BY DEF EnableIbs, DisableIbs
  <1> QED BY <1>1, <1>3, <1>4
          DEF RegisterInv, EnableIbs, DisableIbs, ScatterBits

\* Re-arming randomizes nothing but the four random bits.
LEMMA RearmInv ==
  ASSUME RegisterInv, Rearm
  PROVE  RegisterInv'
  <1>1. UNCHANGED <<CurMask, MaxMask, EnBit, ValBit, FlagBit>>
    BY DEF Rearm, CurMask, MaxMask, EnBit, ValBit, FlagBit
  <1>2. lfsr_value' \in Nat /\ 0 < lfsr_value' /\ lfsr_value' < 65536
    BY LfsrRange DEF RegisterInv, Rearm
  <1>3. msr' \ RandomBits = ctl \ RandomBits
    <2>1. CASE isOp
      <3>1. {b + 32 : b \in Bits(lfsr_value' % 16)} \subseteq RandomBits
        BY <1>2, RandomPlaces
      <3> QED BY <2>1, <3>1 DEF Rearm, RandomizeOpCtl
    <2>2. CASE ~isOp
      BY <2>2 DEF Rearm
    <2> QED BY <2>1, <2>2
  <1>4. ValBit \notin msr' /\ (EnBit \in msr' => EnBit \in ctl)
    BY <1>3, FieldsApart DEF RegisterInv
  <1> QED BY <1>1, <1>2, <1>3, <1>4 DEF RegisterInv, Rearm, ScatterBits

\* The defaults of set_ibs_defaults.
LEMMA RegisterInit == ControlInit => RegisterInv
  <1> SUFFICES ASSUME ControlInit PROVE RegisterInv
    OBVIOUS
  <1>1. isOp \in BOOLEAN /\ ext \in BOOLEAN
    BY DEF ControlInit
  <1>2. /\ ctl = ScatterBits({}, CurMask) \cup ScatterBits(DefaultMax, MaxMask) \cup {FlagBit}
        /\ asked = [cur |-> {}, max |-> DefaultMax, flag |-> TRUE]
        /\ msr = {} /\ lfsr_value = 61453
    BY DEF ControlInit, Defaults
  <1>3. DefaultMax \in SUBSET (0 .. 30)
    BY BitsType DEF DefaultMax
  <1>4. /\ ctl \cap CurMask = ScatterBits({}, CurMask)
        /\ ctl \cap MaxMask = ScatterBits(DefaultMax, MaxMask)
        /\ FlagBit \in ctl /\ ValBit \notin ctl /\ EnBit \notin ctl
    BY <1>1, <1>2, FieldsApart DEF ScatterBits
  <1> QED BY <1>1, <1>2, <1>3, <1>4 DEF RegisterInv

LEMMA RegisterNext ==
  ASSUME RegisterInv, ControlNext
  PROVE  RegisterInv'
  BY SetCurCntInv, SetMaxCntInv, SetFlagInv, SwitchInv, RearmInv DEF ControlNext

LEMMA RegisterStutter ==
  ASSUME RegisterInv, UNCHANGED ctlRegVars
  PROVE  RegisterInv'
  BY DEF RegisterInv, ctlRegVars, CurMask, MaxMask, EnBit, ValBit, FlagBit,
         ScatterBits

\* What the ioctls return follows from the fields.
LEMMA RegisterSettings == RegisterInv => SettingsKept
  <1> SUFFICES ASSUME RegisterInv PROVE SettingsKept
    OBVIOUS
  <1>1. isOp \in BOOLEAN /\ ext \in BOOLEAN
    BY DEF RegisterInv
  <1>2. asked.cur \subseteq 0 .. 30 /\ asked.max \subseteq 0 .. 30
    BY DEF RegisterInv
  <1>3. Width("cur") \in Nat /\ Width("max") \in Nat
    BY DEF Width
  <1>4. GatherBits(ctl, CurMask) = asked.cur \cap (0 .. (Width("cur") - 1))
    <2>1. ctl \cap CurMask = ScatterBits(asked.cur, CurMask)
      BY DEF RegisterInv
    <2>2. GatherBits(ctl, CurMask) = asked.cur \cap {Place(b, CurMask) : b \in CurMask}
      BY <2>1, GatherScatter
    <2>3. {Place(b, CurMask) : b \in CurMask} = 0 .. (Width("cur") - 1)
      BY <1>1, MaskWidths
    <2> QED BY <2>2, <2>3
  <1>5. GatherBits(ctl, MaxMask) = asked.max \cap (0 .. (Width("max") - 1))
    <2>1. ctl \cap MaxMask = ScatterBits(asked.max, MaxMask)
      BY DEF RegisterInv
    <2>2. GatherBits(ctl, MaxMask) = asked.max \cap {Place(b, MaxMask) : b \in MaxMask}
      BY <2>1, GatherScatter
    <2>3. {Place(b, MaxMask) : b \in MaxMask} = 0 .. (Width("max") - 1)
      BY <1>1, MaskWidths
    <2> QED BY <2>2, <2>3
  <1>6. Cut("cur") = asked.cur \cap (0 .. (Width("cur") - 1))
    BY <1>2, <1>3 DEF Cut
  <1>7. Cut("max") = asked.max \cap (0 .. (Width("max") - 1))
    BY <1>2, <1>3 DEF Cut
  <1>8. (FlagBit \in ctl) = asked.flag
    BY DEF RegisterInv
  <1>9. Gets = [cur |-> Cut("cur"), max |-> Cut("max"), flag |-> asked.flag]
    BY <1>4, <1>5, <1>6, <1>7, <1>8 DEF Gets
  <1>10. ASSUME isOp => ext, NEW f \in {"cur", "max"},
                asked[f] \subseteq 0 .. Documented - 1
         PROVE  Gets[f] = asked[f]
    <2>1. Width(f) = Documented
      BY <1>1, <1>10 DEF Width, Documented
    <2>2. Gets[f] = asked[f] \cap (0 .. (Width(f) - 1))
      BY <1>6, <1>7, <1>9
    <2> QED BY <1>10, <2>1, <2>2
  <1> QED BY <1>9, <1>10 DEF SettingsKept, RegisterInv

-----------------------------------------------------------------------------
(* The number that a set of bits stands for.  Number is a fold, that is, a *)
(* choice of a recursive function on the subsets of the set: the lemmas    *)
(* show that there is exactly one, by looking at a smallest set where they *)
(* would fail.                                                             *)

Chosen(s) == CHOOSE x \in s : TRUE
NumberDef(S, g) ==
  g = [s \in SUBSET S |-> IF s = {} THEN 0 ELSE g[s \ {Chosen(s)}] + Power(Chosen(s))]
NumberFun(S) == CHOOSE g : NumberDef(S, g)

LEMMA NumberIsFun == ASSUME NEW S PROVE Number(S) = NumberFun(S)[S]
  BY DEF Number, FoldSet, MapThenFoldSet, NumberFun, NumberDef, Chosen,
         Power

LEMMA ChosenIn == ASSUME NEW s, s # {} PROVE Chosen(s) \in s
  BY DEF Chosen

\* A nonempty collection of subsets of a finite set has a minimal member.
LEMMA SmallestSet ==
  ASSUME NEW S, IsFiniteSet(S), NEW B, B \subseteq SUBSET S, B # {}
  PROVE  \E T \in B : \A U \in B : U \subseteq T => U = T
  <1>1. IsWellFoundedOn(StrictSubsetOrdering(S), SUBSET S)
    BY FS_StrictSubsetOrderingWellFounded, FS_FiniteSubsetsOfFinite
  <1>2. PICK T \in B : \A U \in B : ~ (<<U, T>> \in StrictSubsetOrdering(S))
    BY <1>1, WFMin
  <1>3. \A U \in B : U \subseteq T => U = T
    BY <1>2 DEF StrictSubsetOrdering
  <1> QED BY <1>3

LEMMA NumberUnique ==
  ASSUME NEW S, NEW T, NEW g, NEW h, IsFiniteSet(S), T \subseteq S,
         NumberDef(S, g), NumberDef(T, h)
  PROVE  \A s \in SUBSET T : g[s] = h[s]
  <1> DEFINE B == {s \in SUBSET T : g[s] # h[s]}
  <1> SUFFICES ASSUME B # {} PROVE FALSE
    OBVIOUS
  <1>0. B \subseteq SUBSET S
    OBVIOUS
  <1>1. PICK s \in B : \A U \in B : U \subseteq s => U = s
    <2> HIDE DEF B
    <2> QED BY <1>0, SmallestSet
  <1>2. s # {}
    BY DEF NumberDef
  <1>3. Chosen(s) \in s
    BY <1>2, ChosenIn
  <1>4. g[s \ {Chosen(s)}] = h[s \ {Chosen(s)}]
    BY <1>1, <1>3
  <1>5. /\ g[s] = g[s \ {Chosen(s)}] + Power(Chosen(s))
        /\ h[s] = h[s \ {Chosen(s)}] + Power(Chosen(s))
    BY <1>2 DEF NumberDef
  <1> QED BY <1>4, <1>5

LEMMA NumberExists ==
  ASSUME NEW S, IsFiniteSet(S)
  PROVE  \A T \in SUBSET S : NumberDef(T, NumberFun(T))
  <1> DEFINE B == {T \in SUBSET S : ~ NumberDef(T, NumberFun(T))}
  <1> SUFFICES ASSUME B # {} PROVE FALSE
    OBVIOUS
  <1>0. B \subseteq SUBSET S
    OBVIOUS
  <1>1. PICK T \in B : \A U \in B : U \subseteq T => U = T
    <2> HIDE DEF B
    <2> QED BY <1>0, SmallestSet
  <1> DEFINE G == [s \in SUBSET T |-> IF s = {} THEN 0
                     ELSE NumberFun(s \ {Chosen(s)})[s \ {Chosen(s)}] + Power(Chosen(s))]
  <1>2. ASSUME NEW s \in SUBSET T, s # {}
        PROVE  G[s \ {Chosen(s)}] = NumberFun(s \ {Chosen(s)})[s \ {Chosen(s)}]
    <2> DEFINE W == s \ {Chosen(s)}
               X == W \ {Chosen(W)}
    <2>1. W \subseteq T /\ W # T /\ W \in SUBSET S
      BY <1>2, ChosenIn
    <2>2. NumberDef(W, NumberFun(W))
      BY <1>1, <2>1
    <2>3. CASE W = {}
      BY <2>1, <2>2, <2>3 DEF NumberDef
    <2>4. CASE W # {}
      <3>1. X \subseteq W /\ X # T /\ X \in SUBSET S
        BY <2>1, <2>4, ChosenIn
      <3>2. NumberDef(X, NumberFun(X))
        BY <1>1, <2>1, <3>1
      <3>3. IsFiniteSet(W)
        BY <2>1, FS_Subset
      <3>4. NumberFun(W)[X] = NumberFun(X)[X]
        BY <2>2, <3>1, <3>2, <3>3, NumberUnique
      <3>5. NumberFun(W)[W] = NumberFun(W)[X] + Power(Chosen(W))
        BY <2>2, <2>4 DEF NumberDef
      <3>6. G[W] = NumberFun(X)[X] + Power(Chosen(W))
        BY <2>1, <2>4
      <3> QED BY <3>4, <3>5, <3>6
    <2> QED BY <2>3, <2>4
  <1>3. NumberDef(T, G)
    <2>1. G = [s \in SUBSET T |-> IF s = {} THEN 0 ELSE G[s \ {Chosen(s)}] + Power(Chosen(s))]
      BY <1>2
    <2> QED BY <2>1 DEF NumberDef
  <1>4. NumberDef(T, NumberFun(T))
    BY <1>3 DEF NumberFun
  <1> QED BY <1>1, <1>4

LEMMA NumberStep ==
  ASSUME NEW S, IsFiniteSet(S)
  PROVE  Number(S) = IF S = {} THEN 0 ELSE Number(S \ {Chosen(S)}) + Power(Chosen(S))
  <1> DEFINE X == S \ {Chosen(S)}
  <1>1. NumberDef(S, NumberFun(S)) /\ NumberDef(X, NumberFun(X))
    BY NumberExists
  <1>2. NumberFun(S)[X] = NumberFun(X)[X]
    BY <1>1, NumberUnique
  <1>3. NumberFun(S)[S] = IF S = {} THEN 0 ELSE NumberFun(S)[X] + Power(Chosen(S))
    BY <1>1 DEF NumberDef
  <1> QED BY <1>2, <1>3, NumberIsFun

LEMMA WordFinite == ASSUME NEW S \in SUBSET Word PROVE IsFiniteSet(S)
  <1>1. IsFiniteSet(Word)
    BY FS_Interval, 0 \in Int, 30 \in Int DEF Word
  <1> QED BY <1>1, FS_Subset

\* A word is a number, and any of its bits can be taken out.
LEMMA NumberType ==
  ASSUME NEW S \in SUBSET Word
  PROVE  Number(S) \in Nat
  <1> DEFINE B == {T \in SUBSET S : Number(T) \notin Nat}
  <1> SUFFICES ASSUME B # {} PROVE FALSE
    OBVIOUS
  <1>1. PICK T \in B : \A U \in B : U \subseteq T => U = T
    <2>1. B \subseteq SUBSET S
      OBVIOUS
    <2> HIDE DEF B
    <2>2. IsFiniteSet(S)
      BY WordFinite
    <2> QED BY <2>1, <2>2, SmallestSet
  <1>2. Number(T) = IF T = {} THEN 0 ELSE Number(T \ {Chosen(T)}) + Power(Chosen(T))
    BY WordFinite, NumberStep
  <1>3. T # {}
    BY <1>2
  <1>4. Chosen(T) \in T
    BY <1>3, ChosenIn
  <1>5. Number(T \ {Chosen(T)}) \in Nat
    BY <1>1, <1>4
  <1>6. Power(Chosen(T)) \in Nat
    BY <1>4, PowerOfTwo
  <1> QED BY <1>2, <1>3, <1>5, <1>6

LEMMA NumberRemove ==
  ASSUME NEW S \in SUBSET Word, NEW b \in S
  PROVE  Number(S) = Number(S \ {b}) + Power(b)
  <1> DEFINE B == {T \in SUBSET S : \E c \in T : Number(T) # Number(T \ {c}) + Power(c)}
  <1> SUFFICES ASSUME B # {} PROVE FALSE
    OBVIOUS
  <1>1. PICK T \in B : \A U \in B : U \subseteq T => U = T
    <2>1. B \subseteq SUBSET S
      OBVIOUS
    <2> HIDE DEF B
    <2>2. IsFiniteSet(S)
      BY WordFinite
    <2> QED BY <2>1, <2>2, SmallestSet
  <1>2. PICK c \in T : Number(T) # Number(T \ {c}) + Power(c)
    BY <1>1
  <1> DEFINE d == Chosen(T)
  <1>3. d \in T /\ Number(T) = Number(T \ {d}) + Power(d)
    BY <1>2, ChosenIn, WordFinite, NumberStep
  <1>4. c # d
    BY <1>2, <1>3
  <1> HIDE DEF d
  <1> DEFINE M == T \ {c, d}
  <1>5. (T \ {d}) \ {c} = M /\ (T \ {c}) \ {d} = M
    OBVIOUS
  <1>6. Number(T \ {d}) = Number(M) + Power(c)
    <2>1. T \ {d} \in SUBSET S /\ T \ {d} # T /\ c \in T \ {d}
      BY <1>3, <1>4
    <2>2. T \ {d} \notin B
      BY <1>1, <2>1
    <2> QED BY <1>5, <2>1, <2>2
  <1>7. Number(T \ {c}) = Number(M) + Power(d)
    <2>1. T \ {c} \in SUBSET S /\ T \ {c} # T /\ d \in T \ {c}
      BY <1>3, <1>4
    <2>2. T \ {c} \notin B
      BY <1>1, <2>1
    <2> QED BY <1>5, <2>1, <2>2
  <1>8. Power(c) \in Nat /\ Power(d) \in Nat
    BY <1>2, <1>3, PowerOfTwo
  <1>9. Number(M) \in Nat
    BY NumberType
  <1> HIDE DEF M
  <1> QED BY <1>2, <1>3, <1>6, <1>7, <1>8, <1>9

LEMMA NumberEmpty == Number({}) = 0
  BY NumberStep, FS_EmptySet

\* Words that share no bit add up.
LEMMA NumberPieces ==
  ASSUME NEW A \in SUBSET Word, NEW C \in SUBSET Word, A \cap C = {}
  PROVE  Number(A \cup C) = Number(A) + Number(C)
  <1> DEFINE B == {T \in SUBSET C : Number(A \cup T) # Number(A) + Number(T)}
  <1> SUFFICES ASSUME B # {} PROVE FALSE
    OBVIOUS
  <1>1. PICK T \in B : \A U \in B : U \subseteq T => U = T
    <2>1. B \subseteq SUBSET C
      OBVIOUS
    <2>2. IsFiniteSet(C)
      BY WordFinite
    <2> HIDE DEF B
    <2> QED BY <2>1, <2>2, SmallestSet
  <1>2. Number(A) \in Nat
    BY NumberType
  <1>3. T # {}
    <2> SUFFICES ASSUME T = {} PROVE FALSE
      OBVIOUS
    <2>1. Number(A \cup T) = Number(A) /\ Number(T) = 0
      <3>1. A \cup T = A
        OBVIOUS
      <3> QED BY <3>1, NumberEmpty
    <2>2. Number(A \cup T) # Number(A) + Number(T)
      BY <1>1
    <2> QED BY <1>2, <2>1, <2>2
  <1>4. PICK b \in T : TRUE
    BY <1>3
  <1> DEFINE U == T \ {b}
  <1>5. U \in SUBSET C /\ U # T /\ U \subseteq T
    BY <1>4
  <1>6. Number(A \cup U) = Number(A) + Number(U)
    BY <1>1, <1>5
  <1>7. Number(T) = Number(U) + Power(b)
    BY <1>4, NumberRemove
  <1>8. Number(A \cup T) = Number(A \cup U) + Power(b)
    <2>1. (A \cup T) \ {b} = A \cup U
      BY <1>4
    <2>2. A \cup T \in SUBSET Word /\ b \in A \cup T
      BY <1>4
    <2> QED BY <2>1, <2>2, NumberRemove
  <1>9. Number(U) \in Nat /\ Power(b) \in Nat
    BY <1>4, NumberType, PowerOfTwo
  <1>10. Number(A \cup T) # Number(A) + Number(T)
    BY <1>1
  <1> HIDE DEF U, B
  <1> QED BY <1>2, <1>6, <1>7, <1>8, <1>9, <1>10

\* The upper piece of the maximum count is shifted by 16 bits.
LEMMA PowerShift ==
  ASSUME NEW b \in 0 .. 6
  PROVE  Power(b + 16) = 65536 * Power(b)
  <1>0. CASE b = 0
    BY <1>0 DEF Power
  <1>1. CASE b = 1
    BY <1>1 DEF Power
  <1>2. CASE b = 2
    BY <1>2 DEF Power
  <1>3. CASE b = 3
    BY <1>3 DEF Power
  <1>4. CASE b = 4
    BY <1>4 DEF Power
  <1>5. CASE b = 5
    BY <1>5 DEF Power
  <1>6. CASE b = 6
    BY <1>6 DEF Power
  <1> QED
    BY <1>0, <1>1, <1>2, <1>3, <1>4, <1>5, <1>6

Upper == 0 .. 6
Raised(S) == {c + 16 : c \in S}
LEMMA NumberShift ==
  ASSUME NEW S \in SUBSET Upper
  PROVE  Number(Raised(S)) = 65536 * Number(S)
  <1> DEFINE B == {T \in SUBSET S : Number(Raised(T)) # 65536 * Number(T)}
  <1> SUFFICES ASSUME B # {} PROVE FALSE
    OBVIOUS
  <1>0. S \in SUBSET Word /\ \A T \in SUBSET S : Raised(T) \in SUBSET Word /\ T \in SUBSET Word
    BY DEF Word, Raised, Upper
  <1>1. PICK T \in B : \A U \in B : U \subseteq T => U = T
    <2>1. B \subseteq SUBSET S
      OBVIOUS
    <2>2. IsFiniteSet(S)
      BY <1>0, WordFinite
    <2> HIDE DEF B
    <2> QED BY <2>1, <2>2, SmallestSet
  <1>2. T \in SUBSET S /\ Number(Raised(T)) # 65536 * Number(T)
    BY <1>1
  <1>3. T # {}
    <2> SUFFICES ASSUME T = {} PROVE FALSE
      OBVIOUS
    <2>1. Raised(T) = {}
      BY DEF Raised
    <2> QED BY <1>2, <2>1, NumberEmpty
  <1>4. PICK b \in T : TRUE
    BY <1>3
  <1> DEFINE U == T \ {b}
  <1>5. U \in SUBSET S /\ U # T /\ U \subseteq T
    BY <1>4
  <1>6. Number(Raised(U)) = 65536 * Number(U)
    BY <1>1, <1>5
  <1>7. Number(T) = Number(U) + Power(b)
    BY <1>0, <1>2, <1>4, NumberRemove
  <1>8. Number(Raised(T)) = Number(Raised(U)) + Power(b + 16)
    <2>1. \A c \in T : c \in Int
      BY <1>2 DEF Upper
    <2>2. Raised(T) \ {b + 16} = Raised(U) /\ b + 16 \in Raised(T)
      BY <1>4, <2>1 DEF Raised
    <2>3. Raised(T) \in SUBSET Word
      BY <1>0, <1>2
    <2> HIDE DEF U
    <2> QED BY <2>2, <2>3, NumberRemove
  <1>9. Number(U) \in Nat /\ Power(b) \in Nat /\ Power(b + 16) = 65536 * Power(b)
    BY <1>0, <1>2, <1>4, <1>5, NumberType, PowerOfTwo, PowerShift
       DEF Upper
  <1> HIDE DEF U, B
  <1> QED BY <1>2, <1>6, <1>7, <1>8, <1>9

\* The bits of a number make up the number, as far as the fields reach.
LEMMA DigitStep ==
  ASSUME NEW v \in Nat, NEW k \in 0 .. 22
  PROVE  v % Power(k + 1) =
           (v % Power(k)) + (IF (v \div Power(k)) % 2 = 1 THEN Power(k) ELSE 0)
  <1>0. CASE k = 0
    BY <1>0 DEF Power
  <1>1. CASE k = 1
    BY <1>1 DEF Power
  <1>2. CASE k = 2
    BY <1>2 DEF Power
  <1>3. CASE k = 3
    BY <1>3 DEF Power
  <1>4. CASE k = 4
    BY <1>4 DEF Power
  <1>5. CASE k = 5
    BY <1>5 DEF Power
  <1>6. CASE k = 6
    BY <1>6 DEF Power
  <1>7. CASE k = 7
    BY <1>7 DEF Power
  <1>8. CASE k = 8
    BY <1>8 DEF Power
  <1>9. CASE k = 9
    BY <1>9 DEF Power
  <1>10. CASE k = 10
    BY <1>10 DEF Power
  <1>11. CASE k = 11
    BY <1>11 DEF Power
  <1>12. CASE k = 12
    BY <1>12 DEF Power
  <1>13. CASE k = 13
    BY <1>13 DEF Power
  <1>14. CASE k = 14
    BY <1>14 DEF Power
  <1>15. CASE k = 15
    BY <1>15 DEF Power
  <1>16. CASE k = 16
    BY <1>16 DEF Power
  <1>17. CASE k = 17
    BY <1>17 DEF Power
  <1>18. CASE k = 18
    BY <1>18 DEF Power
  <1>19. CASE k = 19
    BY <1>19 DEF Power
  <1>20. CASE k = 20
    BY <1>20 DEF Power
  <1>21. CASE k = 21
    BY <1>21 DEF Power
  <1>22. CASE k = 22
    BY <1>22 DEF Power
  <1> QED
    BY <1>0, <1>1, <1>2, <1>3, <1>4, <1>5, <1>6, <1>7, <1>8, <1>9, <1>10,
       <1>11, <1>12, <1>13, <1>14, <1>15, <1>16, <1>17, <1>18, <1>19,
       <1>20, <1>21, <1>22

\* The natural numbers are well ordered.
LEMMA LeastNumber ==
  ASSUME NEW T, T \subseteq Nat, T # {}
  PROVE  \E x \in T : \A y \in T : x <= y
  <1>1. \E R : /\ IsWellFoundedOn(R, Nat)
               /\ \A x, y \in Nat : <<y, x>> \in R <=> y < x
    <2>1. \A x, y \in Nat : <<y, x>> \in OpToRel(<, Nat) <=> y < x
      BY DEF OpToRel
    <2> QED BY <2>1, NatLessThanWellFounded
  <1>2. PICK R : /\ IsWellFoundedOn(R, Nat)
                 /\ \A x, y \in Nat : <<y, x>> \in R <=> y < x
    BY <1>1
  <1>3. PICK x \in T : \A y \in T : ~ (<<y, x>> \in R)
    BY <1>2, WFMin
  <1>4. ASSUME NEW y \in T
        PROVE  x <= y
    <2>1. x \in Nat /\ y \in Nat
      OBVIOUS
    <2>2. ~(y < x)
      BY <1>2, <1>3, <2>1
    <2> QED BY <2>1, <2>2
  <1> QED BY <1>4

\* The lowest k bits of v.
Lowest(v, k) == {b \in Bits(v) : b < k}

LEMMA NumberLowest ==
  ASSUME NEW v \in Nat
  PROVE  \A k \in Nat : k <= 23 => Number(Lowest(v, k)) = v % Power(k)
  <1> DEFINE B == {k \in Nat : k <= 23 /\ Number(Lowest(v, k)) # v % Power(k)}
  <1> SUFFICES ASSUME B # {} PROVE FALSE
    OBVIOUS
  <1>1. PICK k \in B : \A j \in B : k <= j
    <2>1. B \subseteq Nat
      OBVIOUS
    <2> HIDE DEF B
    <2> QED BY <2>1, LeastNumber
  <1>2. k \in Nat /\ k <= 23 /\ Number(Lowest(v, k)) # v % Power(k)
    BY <1>1
  <1>3. k # 0
    <2> SUFFICES ASSUME k = 0 PROVE FALSE
      OBVIOUS
    <2>1. Lowest(v, k) = {}
      BY DEF Lowest, Bits
    <2>2. v % Power(k) = 0
      BY DEF Power
    <2> QED BY <1>2, <2>1, <2>2, NumberEmpty
  <1> DEFINE j == k - 1
  <1>4. j \in Nat /\ j < 23 /\ j < k /\ k = j + 1
    BY <1>2, <1>3
  <1>5. Number(Lowest(v, j)) = v % Power(j)
    BY <1>1, <1>4
  <1> HIDE DEF j, B
  <1>6. (v \div Power(j)) % 2 = 1 <=> j \in Bits(v)
    <2>1. j \in 0 .. 30
      BY <1>4
    <2> QED BY <2>1 DEF Bits, Power
  <1>7. v % Power(k) = (v % Power(j)) + (IF j \in Bits(v) THEN Power(j) ELSE 0)
    <2>1. j \in 0 .. 22
      BY <1>4
    <2> QED BY <1>4, <1>6, <2>1, DigitStep
  <1>8. Lowest(v, k) \in SUBSET Word /\ Lowest(v, j) \in SUBSET Word
    BY DEF Lowest, Bits, Word
  <1>9. CASE j \in Bits(v)
    <2>1. Lowest(v, k) \ {j} = Lowest(v, j) /\ j \in Lowest(v, k)
      BY <1>4, <1>9 DEF Lowest, Bits
    <2>2. Number(Lowest(v, k)) = Number(Lowest(v, j)) + Power(j)
      BY <1>8, <2>1, NumberRemove
    <2> QED BY <1>2, <1>5, <1>7, <1>9, <2>2
  <1>10. CASE j \notin Bits(v)
    <2>1. Lowest(v, k) = Lowest(v, j)
      <3>1. \A b \in Bits(v) : b \in Int
        BY DEF Bits
      <3> QED BY <1>4, <1>10, <3>1 DEF Lowest
    <2>2. Number(Lowest(v, j)) \in Nat
      BY <1>8, NumberType
    <2> QED BY <1>2, <1>5, <1>7, <1>10, <2>1, <2>2
  <1> QED BY <1>9, <1>10

\* A number has no bits above its size.
LEMMA BitsBelow ==
  ASSUME NEW v \in Nat, NEW b \in Bits(v)
  PROVE  /\ v < 65536 => b < 16
         /\ v < 8388608 => b < 23
  <1> DEFINE p == Power(b)
  <1>1. b \in Word /\ (v \div p) % 2 = 1
    BY DEF Bits, Word, Power
  <1>2. b \in Int
    BY <1>1 DEF Word
  <1>3. p \in Nat /\ p > 0 /\ (b >= 16 => p >= 65536) /\ (b >= 23 => p >= 8388608)
    BY <1>1, PowerOfTwo
  <1> HIDE DEF p
  <1>4. ~ (v < p)
    <2> SUFFICES ASSUME v < p PROVE FALSE
      OBVIOUS
    <2>1. v \div p = 0
      BY <1>3
    <2> QED BY <1>1, <2>1
  <1> QED BY <1>2, <1>3, <1>4

LEMMA NumberBits ==
  ASSUME NEW v \in Nat, v < 8388608
  PROVE  Number(Bits(v)) = v
  <1>1. Lowest(v, 23) = Bits(v)
    BY BitsBelow DEF Lowest
  <1>2. Power(23) = 8388608
    BY DEF Power
  <1>3. Number(Lowest(v, 23)) = v % Power(23)
    BY NumberLowest
  <1>4. v % 8388608 = v
    OBVIOUS
  <1> QED BY <1>1, <1>2, <1>3, <1>4

-----------------------------------------------------------------------------
(* The count that the decoder prints.                                      *)

\* The places of a register's field.
Piece(reg, first, last) == {b - first : b \in reg \cap (first .. last)}

LEMMA PieceOne ==
  ASSUME NEW reg
  PROVE  GatherBits(reg, 0 .. 15) = Piece(reg, 0, 15)
  <1>1. \A b \in 0 .. 15 : Place(b, 0 .. 15) = b - 0
    BY PlaceInterval
  <1> QED BY <1>1 DEF GatherBits, Piece

LEMMA PieceTwo ==
  ASSUME NEW reg
  PROVE  GatherBits(reg, (0 .. 15) \cup (20 .. 26))
           = Piece(reg, 0, 15) \cup Raised(Piece(reg, 20, 26))
  <1> DEFINE M == (0 .. 15) \cup (20 .. 26)
             L == 0 .. 15
             U == 20 .. 26
  <1>1. \A b \in L : b \in M /\ Place(b, M) = b - 0
    BY PlaceSplit
  <1>2. \A b \in U : b \in M /\ Place(b, M) = (b - 20) + 16
    BY PlaceSplit
  <1>3. \A b \in M : b \in L \/ b \in U
    OBVIOUS
  <1>4. Raised(Piece(reg, 20, 26)) = {(b - 20) + 16 : b \in reg \cap U}
    BY DEF Raised, Piece
  <1>5. Piece(reg, 0, 15) = {b - 0 : b \in reg \cap L}
    BY DEF Piece
  <1>6. GatherBits(reg, M) = {Place(b, M) : b \in reg \cap M}
    BY DEF GatherBits
  <1> HIDE DEF M, L, U
  <1>7. GatherBits(reg, M) = Piece(reg, 0, 15) \cup Raised(Piece(reg, 20, 26))
    BY <1>1, <1>2, <1>3, <1>4, <1>5, <1>6
  <1> QED BY <1>7 DEF M

LEMMA PieceTypes ==
  ASSUME NEW reg
  PROVE  /\ Piece(reg, 0, 15) \in SUBSET Word
         /\ Piece(reg, 20, 26) \in SUBSET Upper
         /\ Piece(reg, 20, 26) \in SUBSET Word
         /\ Raised(Piece(reg, 20, 26)) \in SUBSET Word
         /\ Piece(reg, 0, 15) \cap Raised(Piece(reg, 20, 26)) = {}
  BY DEF Piece, Word, Upper, Raised

\* Both sides of the wider counter are put together as gather_bits does.
LEMMA PrintedSplit ==
  ASSUME NEW reg
  PROVE  OpMaxCnt(TRUE, reg) = 16 * Number(GatherBits(reg, (0 .. 15) \cup (20 .. 26)))
  <1> DEFINE l == Number(Piece(reg, 0, 15))
             u == Number(Piece(reg, 20, 26))
             r == Number(Raised(Piece(reg, 20, 26)))
             g == Number(GatherBits(reg, (0 .. 15) \cup (20 .. 26)))
             p == OpMaxCnt(TRUE, reg)
  <1>1. l \in Nat /\ u \in Nat
    BY PieceTypes, NumberType
  <1>2. r = 65536 * u
    BY PieceTypes, NumberShift
  <1>3. g = l + r
    BY PieceTwo, PieceTypes, NumberPieces
  <1>4. p = u * 1048576 + l * 16
    BY DEF OpMaxCnt, FieldValue, Piece
  <1> HIDE DEF l, u, r, g, p
  <1>5. p = 16 * g
    BY <1>1, <1>2, <1>3, <1>4
  <1> QED BY <1>5 DEF g, p

LEMMA PrintedPlain ==
  ASSUME NEW reg
  PROVE  /\ OpMaxCnt(FALSE, reg) = 16 * Number(GatherBits(reg, 0 .. 15))
         /\ FetchMaxCnt(reg) = 16 * Number(GatherBits(reg, 0 .. 15))
  <1> DEFINE l == Number(Piece(reg, 0, 15))
             g == Number(GatherBits(reg, 0 .. 15))
             p == OpMaxCnt(FALSE, reg)
             q == FetchMaxCnt(reg)
  <1>1. l \in Nat
    BY PieceTypes, NumberType
  <1>2. g = l
    BY PieceOne
  <1>3. p = 0 + l * 16 /\ q = l * 16
    BY DEF OpMaxCnt, FetchMaxCnt, FieldValue, Piece
  <1> HIDE DEF l, g, p, q
  <1>4. p = 16 * g /\ q = 16 * g
    BY <1>1, <1>2, <1>3
  <1> QED BY <1>4 DEF g, p, q

\* The decoder prints what GET_MAX_CNT returns, times 16.
LEMMA PrintedIsMax ==
  ASSUME RegisterInv, EnBit \in msr
  PROVE  (IF isOp THEN OpMaxCnt(ext, msr) ELSE FetchMaxCnt(msr)) = 16 * Number(Gets.max)
  <1>1. isOp \in BOOLEAN /\ ext \in BOOLEAN
    BY DEF RegisterInv
  <1>2. msr \cap MaxMask = ctl \cap MaxMask
    BY <1>1, FieldsApart DEF RegisterInv
  <1>3. Gets.max = GatherBits(msr, MaxMask)
    BY <1>2 DEF Gets, GatherBits
  <1>4. CASE isOp /\ ext
    <2>1. MaxMask = (0 .. 15) \cup (20 .. 26) /\ ext = TRUE
      BY <1>1, <1>4 DEF MaxMask
    <2> QED BY <1>3, <1>4, <2>1, PrintedSplit
  <1>5. CASE isOp /\ ~ext
    <2>1. MaxMask = 0 .. 15 /\ ext = FALSE
      BY <1>1, <1>5 DEF MaxMask
    <2> QED BY <1>3, <1>5, <2>1, PrintedPlain
  <1>6. CASE ~isOp
    <2>1. MaxMask = 0 .. 15
      BY <1>6 DEF MaxMask
    <2> QED BY <1>3, <1>6, <2>1, PrintedPlain
  <1> QED BY <1>1, <1>4, <1>5, <1>6

\* An accepted rate fits the field it is written to.
LEMMA RateIsMax ==
  ASSUME RegisterInv, NEW r \in Nat, RateAccepted(r), asked.max = Bits(r \div 16)
  PROVE  Number(Gets.max) = r \div 16
  <1> DEFINE v == r \div 16
  <1>1. v \in Nat /\ v < 8388608 /\ (~(isOp /\ ext) => v < 65536)
    BY DEF RateAccepted, MaxRate
  <1>2. Gets.max = Cut("max")
    BY RegisterSettings DEF SettingsKept
  <1>3. asked["max"] = Bits(v)
    OBVIOUS
  <1> HIDE DEF v
  <1>4. \A b \in Bits(v) : b < Width("max")
    BY <1>1, BitsBelow DEF Width
  <1>5. Gets.max = Bits(v)
    BY <1>2, <1>3, <1>4 DEF Cut
  <1> QED BY <1>1, <1>5, NumberBits DEF v

LEMMA ToolInvRate == ToolInv => RateDecoded
  <1> SUFFICES ASSUME ToolInv PROVE RateDecoded
    OBVIOUS
  <1> DEFINE printed == IF isOp THEN OpMaxCnt(ext, msr) ELSE FetchMaxCnt(msr)
  <1>1. EnBit \in msr => printed = 16 * Number(Gets.max)
    BY PrintedIsMax DEF ToolInv
  <1>2. \A r \in rate : Number(Gets.max) = r \div 16
    BY RateIsMax DEF ToolInv, RateInv
  <1> QED BY <1>1, <1>2 DEF RateDecoded

-----------------------------------------------------------------------------
(* Theorems.                                                               *)

LEMMA ToolInvInit == ToolInit => ToolInv
  BY RegisterInit DEF ToolInit, ToolInv, RateInv

LEMMA ToolInvNext == ToolInv /\ [ToolNext]_toolVars => ToolInv'
  <1> SUFFICES ASSUME ToolInv, [ToolNext]_toolVars PROVE ToolInv'
    OBVIOUS
  <1>1. CASE Control
    <2>1. RegisterInv'
      BY <1>1, RegisterNext DEF Control, ToolInv
    <2>2. UNCHANGED <<isOp, ext>>
      BY <1>1 DEF Control, ControlNext, SetCurCnt, SetMaxCnt, SetFlag, EnableIbs,
                  DisableIbs, Rearm
    <2>3. RateInv'
      BY <1>1, <2>2 DEF Control, ToolInv, RateInv, RateAccepted, MaxRate
    <2> QED BY <2>1, <2>3 DEF ToolInv
  <1>2. ASSUME NEW r \in Rates, SetRate(r)
        PROVE  ToolInv'
    <2>1. RegisterInv'
      BY <1>2, SetMaxCntInv DEF SetRate, ToolInv
    <2>2. asked'.max = Bits(r \div 16) /\ UNCHANGED <<isOp, ext>>
      BY <1>2 DEF SetRate, SetMaxCnt, ToolInv, RegisterInv
    <2>3. r \in Nat
      BY ToolAssumption
    <2>4. RateInv'
      BY <1>2, <2>2, <2>3 DEF SetRate, RateInv, RateAccepted, MaxRate
    <2> QED BY <2>1, <2>4 DEF ToolInv
  <1>3. CASE UNCHANGED <<ctlRegVars, rate>>
    <2>1. RegisterInv'
      BY <1>3, RegisterStutter DEF ToolInv
    <2>2. RateInv'
      BY <1>3 DEF ToolInv, RateInv, RateAccepted, MaxRate, ctlRegVars
    <2> QED BY <2>1, <2>2 DEF ToolInv
  <1>4. ASSUME ToolNext, ~Control, ~ \E r \in Rates : SetRate(r)
        PROVE  UNCHANGED <<ctlRegVars, rate>>
    BY <1>4 DEF ToolNext, ListCpus, DecodeFetch, DecodeOp, Start, Finish
  <1>5. CASE UNCHANGED toolVars
    BY <1>3, <1>5 DEF toolVars
  <1> QED BY <1>1, <1>2, <1>3, <1>4, <1>5

\* The inductive invariant: every field of the register holds what was asked
\* for, and the rate is the source of the maximum count.
THEOREM ToolInvariant == ToolSpec => []ToolInv
  BY ToolInvInit, ToolInvNext, PTL DEF ToolSpec

\* After any sequence of SET_* calls, for all arguments, every GET_* returns what
\* was last asked for, cut to the field; while the device samples, the hardware
\* has these settings however often it was re-armed; the random source never
\* reaches 0.
THEOREM SettingsAreKept == ToolSpec => []SettingsKept
  <1>1. ToolInv => SettingsKept
    BY RegisterSettings DEF ToolInv
  <1> QED BY <1>1, ToolInvariant, PTL

\* For every rate that the command line accepts, the decoder prints the rate
\* rounded down to a multiple of 16, through the split field, other settings and
\* re-arming; and 16 times what GET_MAX_CNT returns otherwise.
THEOREM RateIsDecoded == ToolSpec => []RateDecoded
  BY ToolInvRate, ToolInvariant, PTL
-----------------------------------------------------------------------------
(* The header of a trace file.                                             *)

\* Max picks the last of a set of lines.
LEMMA LastLine ==
  ASSUME NEW n \in Nat, NEW T \in SUBSET (1 .. n), T # {}
  PROVE  Max(T) \in T /\ \A y \in T : Max(T) >= y
  <1> DEFINE D == {n - y : y \in T}
  <1>1. D \subseteq Nat /\ D # {}
    <2>1. \A y \in T : n - y \in Nat
      OBVIOUS
    <2>2. PICK y \in T : TRUE
      OBVIOUS
    <2>3. n - y \in D
      OBVIOUS
    <2> QED BY <2>1, <2>3
  <1>2. PICK d \in D : \A e \in D : ~ (<<e, d>> \in OpToRel(<, Nat))
    <2> HIDE DEF D
    <2> QED BY <1>1, NatLessThanWellFounded, WFMin
  <1>3. PICK x \in T : d = n - x
    OBVIOUS
  <1>4. \A y \in T : x >= y
    <2> SUFFICES ASSUME NEW y \in T PROVE x >= y
      OBVIOUS
    <2>1. n - y \in D /\ n - y \in Nat /\ d \in Nat
      BY <1>1
    <2>2. ~ (n - y < d)
      BY <1>2, <2>1 DEF OpToRel
    <2> QED BY <1>3, <2>2
  <1> QED BY <1>4 DEF Max

\* header_parse line by line, and what it amounts to: the last line with a key
\* gives its value.
Taken(keys, lines, val, j) ==
  IF lines[j][1] \in keys THEN [val EXCEPT ![lines[j][1]] = lines[j][2]] ELSE val
ParseDef(keys, lines, g) ==
  g = [s \in SUBSET DOMAIN lines |->
         IF s = {} THEN [k \in keys |-> 0]
                   ELSE Taken(keys, lines, g[s \ {Max(s)}], Max(s))]
LinesOf(lines, s, k) == {j \in s : lines[j][1] = k}
LastValue(keys, lines, s) ==
  [k \in keys |-> IF LinesOf(lines, s, k) = {} THEN 0
                  ELSE lines[Max(LinesOf(lines, s, k))][2]]

LEMMA ParseIsFun ==
  ASSUME NEW keys, NEW lines
  PROVE  ParseLines(keys, lines) = (CHOOSE g : ParseDef(keys, lines, g))[DOMAIN lines]
  BY DEF ParseLines, FoldLeft, MapThenFoldSet, ParseDef, Taken

LEMMA LastValueStep ==
  ASSUME NEW keys, NEW lines, NEW n \in Nat, DOMAIN lines = 1 .. n,
         NEW s \in SUBSET (1 .. n), s # {}
  PROVE  LastValue(keys, lines, s)
           = Taken(keys, lines, LastValue(keys, lines, s \ {Max(s)}), Max(s))
  <1> DEFINE x == Max(s)
             t == s \ {x}
  <1>1. x \in s /\ \A y \in s : x >= y
    BY LastLine
  <1> HIDE DEF x
  <1>2. ASSUME NEW k \in keys, lines[x][1] = k
        PROVE  LinesOf(lines, s, k) # {} /\ Max(LinesOf(lines, s, k)) = x
    <2>1. x \in LinesOf(lines, s, k) /\ LinesOf(lines, s, k) \in SUBSET (1 .. n)
      BY <1>1, <1>2 DEF LinesOf
    <2>2. \A y \in LinesOf(lines, s, k) : x >= y
      BY <1>1 DEF LinesOf
    <2> DEFINE T == LinesOf(lines, s, k)
    <2>3. Max(T) \in T /\ \A y \in T : Max(T) >= y
      <3> HIDE DEF T
      <3> QED BY <2>1, LastLine DEF T
    <2>4. Max(T) >= x /\ x >= Max(T) /\ Max(T) \in 1 .. n /\ x \in 1 .. n
      BY <1>1, <2>1, <2>2, <2>3
    <2> QED BY <2>1, <2>4
  <1>3. ASSUME NEW k \in keys, lines[x][1] # k
        PROVE  LinesOf(lines, s, k) = LinesOf(lines, t, k)
    BY <1>3 DEF LinesOf
  <1>4. CASE lines[x][1] \in keys
    <2>1. [LastValue(keys, lines, t) EXCEPT ![lines[x][1]] = lines[x][2]]
            = LastValue(keys, lines, s)
      BY <1>2, <1>3, <1>4 DEF LastValue
    <2> QED BY <1>4, <2>1 DEF Taken, x
  <1>5. CASE lines[x][1] \notin keys
    <2>1. LastValue(keys, lines, t) = LastValue(keys, lines, s)
      BY <1>3, <1>5 DEF LastValue
    <2> QED BY <1>5, <2>1 DEF Taken, x
  <1> QED BY <1>4, <1>5

LEMMA ParsedIsLast ==
  ASSUME NEW keys, NEW lines, NEW n \in Nat, DOMAIN lines = 1 .. n
  PROVE  ParseLines(keys, lines) = LastValue(keys, lines, 1 .. n)
  <1> DEFINE S == 1 .. n
             G == [s \in SUBSET S |-> LastValue(keys, lines, s)]
             g == CHOOSE f : ParseDef(keys, lines, f)
  <1>1. ParseDef(keys, lines, G)
    <2>1. ASSUME NEW s \in SUBSET S
          PROVE  G[s] = IF s = {} THEN [k \in keys |-> 0]
                        ELSE Taken(keys, lines, G[s \ {Max(s)}], Max(s))
      <3>1. CASE s = {}
        BY <3>1 DEF LastValue, LinesOf
      <3>2. CASE s # {}
        <4>1. s \ {Max(s)} \in SUBSET S
          OBVIOUS
        <4> QED BY <3>2, <4>1, LastValueStep
      <3> QED BY <3>1, <3>2
    <2>2. G = [s \in SUBSET S |-> IF s = {} THEN [k \in keys |-> 0]
                        ELSE Taken(keys, lines, G[s \ {Max(s)}], Max(s))]
      BY <2>1
    <2> QED BY <2>2 DEF ParseDef
  <1>2. ParseDef(keys, lines, g)
    BY <1>1
  <1> HIDE DEF g
  <1> DEFINE B == {s \in SUBSET S : g[s] # LastValue(keys, lines, s)}
  <1>3. B = {}
    <2> SUFFICES ASSUME B # {} PROVE FALSE
      OBVIOUS
    <2>1. PICK s \in B : \A U \in B : U \subseteq s => U = s
      <3>1. IsFiniteSet(S)
        BY FS_Interval
      <3>2. B \subseteq SUBSET S
        OBVIOUS
      <3> HIDE DEF B, S
      <3> QED BY <3>1, <3>2, SmallestSet
    <2>2. g[s] = IF s = {} THEN [k \in keys |-> 0]
                 ELSE Taken(keys, lines, g[s \ {Max(s)}], Max(s))
      BY <1>2 DEF ParseDef
    <2>3. CASE s = {}
      BY <2>2, <2>3 DEF LastValue, LinesOf
    <2>4. CASE s # {}
      <3>1. Max(s) \in s
        BY <2>4, LastLine
      <3>2. g[s \ {Max(s)}] = LastValue(keys, lines, s \ {Max(s)})
        BY <2>1, <3>1
      <3>3. LastValue(keys, lines, s)
              = Taken(keys, lines, LastValue(keys, lines, s \ {Max(s)}), Max(s))
        BY <2>4, LastValueStep
      <3>4. g[s] = Taken(keys, lines, g[s \ {Max(s)}], Max(s))
        BY <2>2, <2>4
      <3>5. g[s] # LastValue(keys, lines, s)
        OBVIOUS
      <3> QED BY <3>2, <3>3, <3>4, <3>5
    <2> QED BY <2>3, <2>4
  <1>4. ParseLines(keys, lines) = g[S]
    BY ParseIsFun DEF g
  <1> QED BY <1>3, <1>4

\* The last line with a key gives the value.
LEMMA ParsedValue ==
  ASSUME NEW keys, NEW lines, NEW n \in Nat, DOMAIN lines = 1 .. n,
         NEW j \in 1 .. n, lines[j][1] \in keys,
         \A i \in 1 .. n : i > j => lines[i][1] # lines[j][1]
  PROVE  ParseLines(keys, lines)[lines[j][1]] = lines[j][2]
  <1> DEFINE T == LinesOf(lines, 1 .. n, lines[j][1])
  <1>1. j \in T /\ T \in SUBSET (1 .. n) /\ \A i \in T : i <= j
    BY DEF LinesOf
  <1>2. Max(T) \in T /\ \A i \in T : Max(T) >= i
    <2> HIDE DEF T
    <2> QED BY <1>1, LastLine
  <1>3. Max(T) = j
    BY <1>1, <1>2
  <1> QED BY <1>1, <1>3, ParsedIsLast DEF LastValue

\* A function on an initial interval is a sequence.
LEMMA FunIsSeq ==
  ASSUME NEW S, NEW n \in Nat, NEW f \in [1 .. n -> S]
  PROVE  f \in Seq(S) /\ Len(f) = n
  OBVIOUS

\* What the decoder makes of a header: flags is OpFlags or FetchFlags.
FlagLines(flags, keys) ==
  /\ flags \in Seq(HeaderLine)
  /\ \A i \in 1 .. Len(flags) : flags[i][1] \in keys \ {"Family", "Model", "end"}
  /\ \A i, j \in 1 .. Len(flags) : flags[i][1] = flags[j][1] => i = j
TextHasKey(text, key) == \E i \in DOMAIN text : text[i][1] = key

\* Concatenation, place by place.
LEMMA ConcatPlaces ==
  ASSUME NEW r \in Seq(HeaderLine), NEW q \in Seq(HeaderLine)
  PROVE  /\ r \o q \in Seq(HeaderLine) /\ Len(r \o q) = Len(r) + Len(q)
         /\ \A i \in 1 .. Len(r) : (r \o q)[i] = r[i]
         /\ \A i \in 1 .. Len(q) : (r \o q)[Len(r) + i] = q[i]
  <1>1. /\ r \o q \in Seq(HeaderLine) /\ Len(r \o q) = Len(r) + Len(q)
        /\ \A i \in 1 .. Len(r) + Len(q) :
             (r \o q)[i] = IF i <= Len(r) THEN r[i] ELSE q[i - Len(r)]
    BY ConcatProperties
  <1>2. Len(r) \in Nat /\ Len(q) \in Nat
    OBVIOUS
  <1>3. ASSUME NEW i \in 1 .. Len(r) PROVE (r \o q)[i] = r[i]
    <2>1. i \in 1 .. Len(r) + Len(q) /\ i <= Len(r)
      BY <1>2
    <2> QED BY <1>1, <2>1
  <1>4. ASSUME NEW i \in 1 .. Len(q) PROVE (r \o q)[Len(r) + i] = q[i]
    <2> DEFINE j == Len(r) + i
    <2>1. j \in 1 .. Len(r) + Len(q) /\ ~(j <= Len(r)) /\ j - Len(r) = i
      BY <1>2
    <2> HIDE DEF j
    <2>2. (r \o q)[j] = q[j - Len(r)]
      BY <1>1, <2>1
    <2> QED BY <2>1, <2>2 DEF j
  <1> QED BY <1>1, <1>3, <1>4

LEMMA EndIsLine == End \in HeaderLine
  BY DEF End, HeaderLine

\* Where the lines of a header are.
HeaderPlaces(H, f, g, text, flags) ==
  /\ H \in Seq(HeaderLine) /\ Len(H) = 3 + Len(text) + Len(flags)
  /\ H[1] = f /\ H[2] = g /\ H[Len(H)] = End
  /\ \A i \in 1 .. Len(text) : H[2 + i] = text[i]
  /\ \A i \in 1 .. Len(flags) : H[2 + Len(text) + i] = flags[i]

LEMMA HeaderLines ==
  ASSUME NEW f \in HeaderLine, NEW g \in HeaderLine, NEW text \in Seq(HeaderLine),
         NEW flags \in Seq(HeaderLine)
  PROVE  HeaderPlaces(<<f, g>> \o text \o flags \o <<End>>, f, g, text, flags)
  <1> DEFINE A == <<f, g>>
             E == <<End>>
             n == Len(text)
             q == Len(flags)
  <1>1. A \in Seq(HeaderLine) /\ Len(A) = 2 /\ A[1] = f /\ A[2] = g
    OBVIOUS
  <1>2. E \in Seq(HeaderLine) /\ Len(E) = 1 /\ E[1] = End
    BY EndIsLine
  <1>3. n \in Nat /\ q \in Nat
    OBVIOUS
  <1> HIDE DEF A, E
  <1> DEFINE B == A \o text
             C == B \o flags
             H == C \o E
  <1>4. /\ B \in Seq(HeaderLine) /\ Len(B) = Len(A) + Len(text)
        /\ \A i \in 1 .. Len(A) : B[i] = A[i]
        /\ \A i \in 1 .. Len(text) : B[Len(A) + i] = text[i]
    BY <1>1, ConcatPlaces, Zenon
  <1> HIDE DEF B
  <1>5. /\ C \in Seq(HeaderLine) /\ Len(C) = Len(B) + Len(flags)
        /\ \A i \in 1 .. Len(B) : C[i] = B[i]
        /\ \A i \in 1 .. Len(flags) : C[Len(B) + i] = flags[i]
    BY <1>4, ConcatPlaces
  <1> HIDE DEF C
  <1>6. /\ H \in Seq(HeaderLine) /\ Len(H) = Len(C) + Len(E)
        /\ \A i \in 1 .. Len(C) : H[i] = C[i]
        /\ \A i \in 1 .. Len(E) : H[Len(C) + i] = E[i]
    BY <1>2, <1>5, ConcatPlaces
  <1> HIDE DEF H, n, q
  <1>7. Len(B) = 2 + n /\ Len(C) = 2 + n + q /\ Len(H) = 3 + n + q
    BY <1>1, <1>2, <1>3, <1>4, <1>5, <1>6 DEF n, q
  <1>8. ASSUME NEW i \in 1 .. 2 + n PROVE H[i] = B[i]
    <2>1. i \in 1 .. Len(B) /\ i \in 1 .. Len(C)
      BY <1>3, <1>7
    <2> QED BY <1>5, <1>6, <2>1
  <1>9. H[1] = f /\ H[2] = g
    <2>1. 1 \in 1 .. 2 + n /\ 2 \in 1 .. 2 + n /\ 1 \in 1 .. Len(A) /\ 2 \in 1 .. Len(A)
      BY <1>1, <1>3
    <2> QED BY <1>1, <1>4, <1>8, <2>1
  <1>10. H[Len(H)] = End
    <2>1. 1 \in 1 .. Len(E) /\ Len(C) + 1 = Len(H)
      BY <1>2, <1>3, <1>7
    <2>2. H[Len(C) + 1] = E[1]
      BY <1>6, <2>1
    <2> QED BY <1>2, <2>1, <2>2
  <1>11. ASSUME NEW i \in 1 .. n PROVE H[2 + i] = text[i]
    <2>1. 2 + i \in 1 .. 2 + n
      BY <1>3
    <2>2. B[Len(A) + i] = text[i]
      BY <1>4 DEF n
    <2> QED BY <1>1, <1>8, <2>1, <2>2
  <1>12. ASSUME NEW i \in 1 .. q PROVE H[2 + n + i] = flags[i]
    <2>1. 2 + n + i \in 1 .. Len(C)
      BY <1>3, <1>7
    <2>2. C[Len(B) + i] = flags[i]
      BY <1>5 DEF q
    <2> QED BY <1>6, <1>7, <2>1, <2>2
  <1>13. HeaderPlaces(H, f, g, text, flags)
    BY <1>6, <1>7, <1>9, <1>10, <1>11, <1>12 DEF HeaderPlaces, n, q
  <1> QED BY <1>13 DEF H, C, B, A, E

\* The first line of equal signs.
LEMMA EndFound ==
  ASSUME NEW H \in Seq(HeaderLine), Len(H) > 0, H[Len(H)] = End
  PROVE  /\ FirstEnd(H) \in 1 .. Len(H) /\ H[FirstEnd(H)] = End
         /\ \A j \in 1 .. FirstEnd(H) - 1 : H[j] # End
  <1> DEFINE T == {i \in 1 .. Len(H) : H[i] = End}
  <1>1. Len(H) \in Nat /\ DOMAIN H = 1 .. Len(H)
    OBVIOUS
  <1>2. T \subseteq Nat /\ T # {}
    <2>1. Len(H) \in T
      BY <1>1
    <2> QED BY <1>1, <2>1
  <1>3. PICK x \in T : \A y \in T : x <= y
    <2> HIDE DEF T
    <2> QED BY <1>2, LeastNumber
  <1>4. x \in DOMAIN H /\ H[x] = End /\ \A j \in 1 .. x - 1 : H[j] # End
    BY <1>1, <1>3
  <1> DEFINE e == FirstEnd(H)
  <1>5. e \in DOMAIN H /\ H[e] = End /\ \A j \in 1 .. e - 1 : H[j] # End
    BY <1>4 DEF FirstEnd
  <1> QED BY <1>1, <1>5

\* The values that the decoder takes from a header: family and model unless the
\* text has a line with their key, every flag unless the text ends the header.
LEMMA HeaderValues ==
  ASSUME NEW fam \in Nat, NEW model \in Nat, NEW text \in Seq(HeaderLine),
         NEW keys, "Family" \in keys, "Model" \in keys, "end" \notin keys,
         NEW flags, FlagLines(flags, keys)
  PROVE  LET H == <<<<"Family", fam>>, <<"Model", model>>>> \o text \o flags \o <<End>>
             v == ParseHeader(keys, H)
         IN  /\ TextHasKey(text, "Family") \/ v["Family"] = fam
             /\ TextHasKey(text, "Model") \/ v["Model"] = model
             /\ \/ TextHasKey(text, "end")
                \/ \A k \in 1 .. Len(flags) : v[flags[k][1]] = flags[k][2]
  <1> DEFINE f == <<"Family", fam>>
             g == <<"Model", model>>
             H == <<f, g>> \o text \o flags \o <<End>>
             e == FirstEnd(H)
             L == SubSeq(H, 1, e - 1)
             v == ParseLines(keys, L)
             n == Len(text)
             q == Len(flags)
  <1>1. f \in HeaderLine /\ g \in HeaderLine /\ flags \in Seq(HeaderLine)
    BY DEF HeaderLine, OpKeys, FlagLines
  <1>2. f[1] = "Family" /\ f[2] = fam /\ g[1] = "Model" /\ g[2] = model
    OBVIOUS
  <1>3. n \in Nat /\ q \in Nat /\ DOMAIN text = 1 .. n
    BY <1>1
  <1>4. End[1] = "end"
    BY DEF End
  <1> HIDE DEF f, g
  <1>5. /\ H \in Seq(HeaderLine) /\ Len(H) = 3 + n + q
        /\ H[1] = f /\ H[2] = g /\ H[Len(H)] = End
        /\ \A i \in 1 .. n : H[2 + i] = text[i]
        /\ \A i \in 1 .. q : H[2 + n + i] = flags[i]
    <2>1. HeaderPlaces(H, f, g, text, flags)
      BY <1>1, HeaderLines
    <2> HIDE DEF H
    <2> QED BY <2>1 DEF HeaderPlaces
  <1> HIDE DEF H
  <1>6. e \in 1 .. Len(H) /\ H[e] = End /\ \A j \in 1 .. e - 1 : H[j] # End
    <2>1. Len(H) > 0
      BY <1>3, <1>5
    <2> QED BY <1>5, <2>1, EndFound
  <1> HIDE DEF e
  <1>7. e # 1 /\ e # 2
    BY <1>2, <1>4, <1>5, <1>6
  <1>8. e \in Nat /\ 3 <= e /\ e <= 3 + n + q
    BY <1>3, <1>5, <1>6, <1>7
  <1>9. DOMAIN L = 1 .. e - 1 /\ \A i \in 1 .. e - 1 : L[i] = H[i]
    <2>1. \A i \in 1 .. e - 1 : i \in 1 .. Len(H)
      BY <1>3, <1>5, <1>8
    <2> QED BY <1>5, <1>8, <2>1
  <1> HIDE DEF L
  \* Every line is one of the first two, a line of text or a flag.
  <1>10. ASSUME NEW i \in 1 .. e - 1, i > 2
         PROVE  \/ i <= 2 + n /\ L[i] = text[i - 2] /\ i - 2 \in DOMAIN text
                \/ i > 2 + n /\ L[i] = flags[i - 2 - n] /\ i - 2 - n \in 1 .. q
    <2>1. L[i] = H[i] /\ i \in Nat /\ i <= 2 + n + q
      BY <1>3, <1>8, <1>9
    <2>2. CASE i <= 2 + n
      <3>1. i - 2 \in 1 .. n /\ 2 + (i - 2) = i
        BY <1>3, <1>10, <2>1, <2>2
      <3>2. H[2 + (i - 2)] = text[i - 2]
        BY <1>5, <3>1
      <3> QED BY <1>3, <2>1, <2>2, <3>1, <3>2
    <2>3. CASE i > 2 + n
      <3>1. i - 2 - n \in 1 .. q /\ 2 + n + (i - 2 - n) = i
        BY <1>3, <1>10, <2>1, <2>3
      <3>2. H[2 + n + (i - 2 - n)] = flags[i - 2 - n]
        BY <1>5, <3>1
      <3> QED BY <2>1, <2>3, <3>1, <3>2
    <2> QED BY <1>3, <2>1, <2>2, <2>3
  <1>11. /\ \A i \in 1 .. q : flags[i][1] \in keys \ {"Family", "Model", "end"}
         /\ \A i, j \in 1 .. q : flags[i][1] = flags[j][1] => i = j
    BY DEF FlagLines
  <1>12. e - 1 \in Nat /\ 1 \in 1 .. e - 1 /\ 2 \in 1 .. e - 1
    BY <1>8
  <1>13. L[1] = f /\ L[2] = g
    BY <1>5, <1>9, <1>12
  <1>14. ASSUME ~TextHasKey(text, "Family") PROVE v["Family"] = fam
    <2>1. ASSUME NEW i \in 1 .. e - 1, i > 1 PROVE L[i][1] # "Family"
      <3>1. CASE i = 2
        BY <1>2, <1>13, <3>1
      <3>2. CASE i > 2
        BY <1>10, <1>11, <1>14, <3>2 DEF TextHasKey
      <3> QED BY <1>12, <2>1, <3>1, <3>2
    <2>2. v[L[1][1]] = L[1][2]
      BY <1>2, <1>9, <1>12, <1>13, <2>1, ParsedValue
    <2> QED BY <1>2, <1>13, <2>2
  <1>15. ASSUME ~TextHasKey(text, "Model") PROVE v["Model"] = model
    <2>1. ASSUME NEW i \in 1 .. e - 1, i > 2 PROVE L[i][1] # "Model"
      BY <1>10, <1>11, <1>15, <2>1 DEF TextHasKey
    <2>2. v[L[2][1]] = L[2][2]
      BY <1>2, <1>9, <1>12, <1>13, <2>1, ParsedValue
    <2> QED BY <1>2, <1>13, <2>2
  <1>16. ASSUME ~TextHasKey(text, "end"), NEW k \in 1 .. q
         PROVE  v[flags[k][1]] = flags[k][2]
    <2>1. e > 2 + n + q
      <3> SUFFICES ASSUME e <= 2 + n + q PROVE FALSE
        BY <1>3, <1>8
      <3>1. CASE e <= 2 + n
        <4>1. e - 2 \in 1 .. n /\ 2 + (e - 2) = e
          BY <1>3, <1>8, <3>1
        <4>2. H[2 + (e - 2)] = text[e - 2]
          BY <1>5, <4>1
        <4> QED BY <1>3, <1>4, <1>6, <1>16, <4>1, <4>2 DEF TextHasKey
      <3>2. CASE e > 2 + n
        <4>1. e - 2 - n \in 1 .. q /\ 2 + n + (e - 2 - n) = e
          BY <1>3, <1>8, <3>2
        <4>2. H[2 + n + (e - 2 - n)] = flags[e - 2 - n]
          BY <1>5, <4>1
        <4> QED BY <1>4, <1>6, <1>11, <4>1, <4>2
      <3> QED BY <1>3, <1>8, <3>1, <3>2
    <2> DEFINE j == 2 + n + k
    <2>2. j \in 1 .. e - 1 /\ j > 2 + n /\ j > 2 /\ j - 2 - n = k
      BY <1>3, <1>8, <2>1
    <2> HIDE DEF j
    <2>3. L[j] = flags[k]
      BY <1>3, <1>10, <2>2
    <2>4. ASSUME NEW i \in 1 .. e - 1, i > j PROVE L[i][1] # L[j][1]
      <3>1. i > 2 + n /\ i > 2 /\ i - 2 - n # k
        BY <1>3, <1>8, <2>2, <2>4
      <3>2. L[i] = flags[i - 2 - n] /\ i - 2 - n \in 1 .. q
        BY <1>3, <1>8, <1>10, <3>1
      <3> QED BY <1>11, <2>3, <3>1, <3>2
    <2>5. L[j][1] \in keys
      BY <1>11, <2>3
    <2>6. v[L[j][1]] = L[j][2]
      BY <1>9, <1>12, <2>2, <2>4, <2>5, ParsedValue
    <2> QED BY <2>3, <2>6
  <1>17. ParseHeader(keys, H) = v
    BY DEF ParseHeader, L, e
  <1> HIDE DEF v
  <1> QED BY <1>14, <1>15, <1>16, <1>17 DEF H, f, g

\* Each flag has a line of its own.
LEMMA OpFlagLines == ASSUME NEW m PROVE FlagLines(OpFlags(m), OpKeys)
  <1> DEFINE B == OpFlags(m)
             K == <<"BrnResync", "MispReturn", "BrnTrgt", "OpCntExt", "RipInvalidChk",
                    "BrnFuse", "OpData4", "Microcode", "OpData2_4_5", "LdBnkCon",
                    "StBnkCon", "StToLdFwd", "StToLdCan", "Data3_20_31_48_63">>
  <1>1. \A key, bool : /\ Line(key, bool)[1] = key
                       /\ key \in OpKeys => Line(key, bool) \in HeaderLine
    BY DEF Line, HeaderLine
  <1>2. \A i \in 1 .. 14 : K[i] \in OpKeys \ {"Family", "Model", "end"}
    BY DEF OpKeys
  <1>3. \A i, j \in 1 .. 14 : K[i] = K[j] => i = j
    OBVIOUS
  <1>4. DOMAIN B = 1 .. 14 /\ Len(B) = 14 /\ B = [i \in 1 .. 14 |-> B[i]]
    BY DEF OpFlags
  <1>5. \A i \in 1 .. 14 : \E bool : B[i] = Line(K[i], bool)
    BY DEF OpFlags
  <1> HIDE DEF B, K
  <1>6. \A i \in 1 .. 14 : B[i][1] = K[i] /\ B[i] \in HeaderLine
    BY <1>1, <1>2, <1>5
  <1>7. B \in Seq(HeaderLine)
    <2>1. B \in [1 .. 14 -> HeaderLine]
      BY <1>4, <1>6
    <2> QED BY <2>1, 14 \in Nat, FunIsSeq
  <1>8. FlagLines(B, OpKeys)
    BY <1>2, <1>3, <1>4, <1>6, <1>7 DEF FlagLines
  <1> QED BY <1>8 DEF B

LEMMA FetchFlagLines == ASSUME NEW m PROVE FlagLines(FetchFlags(m), FetchKeys)
  BY DEF FetchFlags, FlagLines, FetchKeys, HeaderLine, Line

\* What the decoder knows of a machine.
HeaderKnown(m, v, flags) ==
  /\ TextHasKey(m.text, "Family") \/ v["Family"] = m.fam
  /\ TextHasKey(m.text, "Model") \/ v["Model"] = m.model
  /\ \/ TextHasKey(m.text, "end")
     \/ \A k \in DOMAIN flags : v[flags[k][1]] = flags[k][2]

LEMMA MachineTypes ==
  ASSUME NEW m \in Machines
  PROVE  m.fam \in Nat /\ m.model \in Nat /\ m.text \in Seq(HeaderLine)
  BY ToolAssumption DEF Machines

LEMMA KnownValues ==
  ASSUME NEW m \in Machines, NEW keys, "Family" \in keys, "Model" \in keys,
         "end" \notin keys, NEW flags, FlagLines(flags, keys)
  PROVE  HeaderKnown(m, ParseHeader(keys, MachineLines(m) \o flags \o <<End>>), flags)
  <1> DEFINE fam == m.fam
             model == m.model
             text == m.text
             H == <<<<"Family", fam>>, <<"Model", model>>>> \o text \o flags \o <<End>>
             v == ParseHeader(keys, H)
  <1>1. fam \in Nat /\ model \in Nat /\ text \in Seq(HeaderLine)
    BY MachineTypes
  <1>2. MachineLines(m) \o flags \o <<End>> = H
    BY DEF MachineLines
  <1>3. DOMAIN flags = 1 .. Len(flags)
    BY DEF FlagLines
  <1> HIDE DEF fam, model, text
  <1>4. /\ TextHasKey(text, "Family") \/ v["Family"] = fam
        /\ TextHasKey(text, "Model") \/ v["Model"] = model
        /\ \/ TextHasKey(text, "end")
           \/ \A k \in 1 .. Len(flags) : v[flags[k][1]] = flags[k][2]
    BY <1>1, HeaderValues
  <1> HIDE DEF H, v
  <1> QED BY <1>2, <1>3, <1>4 DEF HeaderKnown, fam, model, text, v

LEMMA OpValues ==
  ASSUME NEW m \in Machines
  PROVE  HeaderKnown(m, ParseHeader(OpKeys, OpTraceHeader(m)), OpFlags(m))
  <1>1. "Family" \in OpKeys /\ "Model" \in OpKeys /\ "end" \notin OpKeys
    BY DEF OpKeys
  <1> QED BY <1>1, OpFlagLines, KnownValues DEF OpTraceHeader

LEMMA FetchValues ==
  ASSUME NEW m \in Machines
  PROVE  HeaderKnown(m, ParseHeader(FetchKeys, FetchTraceHeader(m)), FetchFlags(m))
  <1>1. "Family" \in FetchKeys /\ "Model" \in FetchKeys /\ "end" \notin FetchKeys
    BY DEF FetchKeys
  <1> QED BY <1>1, FetchFlagLines, KnownValues DEF FetchTraceHeader

-----------------------------------------------------------------------------
(* Rows under headers.                                                     *)

\* The names of cells, rows of them, and the appending of cells to rows.
FieldNames ==
  {"-", "tsc", "cpu", "tid", "pid", "kern_mode", "op_rip", "op_max_cnt",
   "comp_to_ret", "tag_to_ret", "brn_resync", "misp_return", "op_return",
   "brn_taken", "brn_misp", "brn_ret", "rip_invalid", "brn_fuse", "microcode",
   "req_src", "dst_node", "cache_hit_st", "ld_op", "st_op", "l1tlb_miss",
   "l2tlb_miss", "l1tlb_2m", "l1tlb_1g", "l2tlb_2m", "dc_miss", "mis_acc",
   "ld_bnk_con", "st_bnk_con", "st_to_ld_fwd", "st_to_ld_can", "wc_mem_acc",
   "uc_mem_acc", "locked_op", "mab", "lin_valid", "phy_valid", "l2tlb_1g",
   "l2_miss", "sw_pf", "mem_width", "open_mem_reqs", "miss_lat",
   "tlb_refill_lat", "dc_lin_ad", "dc_phys_ad", "br_target", "ld_resync",
   "lin_ad", "phys_ad", "fetch_max_cnt", "fetch_lat", "fetch_comp", "ic_miss",
   "l1tlb_pg_sz", "itlb_refill_lat"}
Cells == Seq(FieldNames)
Join(r, q) == r \o q

\* (tlapm does not know that a quoted name is in STRING.)
LEMMA NamesAreNames ==
  "-" \in FieldNames /\ "tsc" \in FieldNames /\ "cpu" \in FieldNames /\
  "tid" \in FieldNames /\ "pid" \in FieldNames /\ "kern_mode" \in FieldNames /\
  "op_rip" \in FieldNames /\ "op_max_cnt" \in FieldNames /\
  "comp_to_ret" \in FieldNames /\ "tag_to_ret" \in FieldNames /\
  "brn_resync" \in FieldNames /\ "misp_return" \in FieldNames /\
  "op_return" \in FieldNames /\ "brn_taken" \in FieldNames /\
  "brn_misp" \in FieldNames /\ "brn_ret" \in FieldNames /\
  "rip_invalid" \in FieldNames /\ "brn_fuse" \in FieldNames /\
  "microcode" \in FieldNames /\ "req_src" \in FieldNames /\
  "dst_node" \in FieldNames /\ "cache_hit_st" \in FieldNames /\
  "ld_op" \in FieldNames /\ "st_op" \in FieldNames /\
  "l1tlb_miss" \in FieldNames /\ "l2tlb_miss" \in FieldNames /\
  "l1tlb_2m" \in FieldNames /\ "l1tlb_1g" \in FieldNames /\
  "l2tlb_2m" \in FieldNames /\ "dc_miss" \in FieldNames /\
  "mis_acc" \in FieldNames /\ "ld_bnk_con" \in FieldNames /\
  "st_bnk_con" \in FieldNames /\ "st_to_ld_fwd" \in FieldNames /\
  "st_to_ld_can" \in FieldNames /\ "wc_mem_acc" \in FieldNames /\
  "uc_mem_acc" \in FieldNames /\ "locked_op" \in FieldNames /\
  "mab" \in FieldNames /\ "lin_valid" \in FieldNames /\
  "phy_valid" \in FieldNames /\ "l2tlb_1g" \in FieldNames /\
  "l2_miss" \in FieldNames /\ "sw_pf" \in FieldNames /\
  "mem_width" \in FieldNames /\ "open_mem_reqs" \in FieldNames /\
  "miss_lat" \in FieldNames /\ "tlb_refill_lat" \in FieldNames /\
  "dc_lin_ad" \in FieldNames /\ "dc_phys_ad" \in FieldNames /\
  "br_target" \in FieldNames /\ "ld_resync" \in FieldNames /\
  "lin_ad" \in FieldNames /\ "phys_ad" \in FieldNames /\
  "fetch_max_cnt" \in FieldNames /\ "fetch_lat" \in FieldNames /\
  "fetch_comp" \in FieldNames /\ "ic_miss" \in FieldNames /\
  "l1tlb_pg_sz" \in FieldNames /\ "itlb_refill_lat" \in FieldNames
  BY DEF FieldNames

\* Every cell of r is blank or stands under its field's name in h.
Under(r, h) ==
  /\ r \in Cells /\ h \in Cells /\ Len(r) = Len(h)
  /\ \A k \in 1 .. Len(r) : r[k] \in {Blank, h[k]} \/ h[k] = "op_return"

LEMMA UnderSame == ASSUME NEW r \in Cells PROVE Under(r, r)
  BY DEF Under

LEMMA UnderConcat ==
  ASSUME NEW r, NEW h, NEW q, NEW g, Under(r, h), Under(q, g)
  PROVE  Under(r \o q, h \o g)
  <1>1. /\ r \in Cells /\ h \in Cells /\ Len(r) = Len(h)
        /\ q \in Cells /\ g \in Cells /\ Len(q) = Len(g)
        /\ Len(r) \in Nat /\ Len(q) \in Nat
    BY DEF Under
  <1>2. /\ r \o q \in Cells /\ Len(r \o q) = Len(r) + Len(q)
        /\ \A i \in 1 .. Len(r) + Len(q) :
             (r \o q)[i] = IF i <= Len(r) THEN r[i] ELSE q[i - Len(r)]
    BY <1>1, ConcatProperties DEF Cells
  <1>3. /\ h \o g \in Cells /\ Len(h \o g) = Len(r) + Len(q)
        /\ \A i \in 1 .. Len(r) + Len(q) :
             (h \o g)[i] = IF i <= Len(r) THEN h[i] ELSE g[i - Len(r)]
    BY <1>1, ConcatProperties DEF Cells
  <1>4. ASSUME NEW i \in 1 .. Len(r) + Len(q)
        PROVE  (r \o q)[i] \in {Blank, (h \o g)[i]} \/ (h \o g)[i] = "op_return"
    <2>1. CASE i <= Len(r)
      <3>1. i \in 1 .. Len(r)
        BY <1>1, <2>1
      <3>2. r[i] \in {Blank, h[i]} \/ h[i] = "op_return"
        BY <3>1 DEF Under
      <3> QED BY <1>2, <1>3, <2>1, <3>2
    <2>2. CASE ~(i <= Len(r))
      <3> DEFINE k == i - Len(r)
      <3>1. k \in 1 .. Len(q)
        BY <1>1, <2>2
      <3>2. q[k] \in {Blank, g[k]} \/ g[k] = "op_return"
        BY <3>1 DEF Under
      <3> QED BY <1>2, <1>3, <2>2, <3>2
    <2> QED BY <2>1, <2>2
  <1> QED BY <1>2, <1>3, <1>4 DEF Under

\* Optional columns are sequences of names, whatever the flag is.
LEMMA IfNames ==
  ASSUME NEW flag, NEW names \in Cells
  PROVE  If(flag, names) \in Cells
  <1>1. <<>> \in Cells
    BY DEF Cells
  <1>2. CASE flag # 0
    BY <1>2 DEF If
  <1>3. CASE flag = 0
    <2>1. If(flag, names) = <<>>
      BY <1>3 DEF If
    <2> QED BY <1>1, <2>1
  <1> QED BY <1>2, <1>3

LEMMA JoinAssociates ==
  \A r, q, p \in Cells : Join(r, q) \in Cells /\ Join(r, Join(q, p)) = Join(Join(r, q), p)
  <1> SUFFICES ASSUME NEW r \in Cells, NEW q \in Cells, NEW p \in Cells
               PROVE  Join(r, q) \in Cells /\ Join(r, Join(q, p)) = Join(Join(r, q), p)
    OBVIOUS
  <1>1. r \o q \in Seq(FieldNames)
    BY ConcatProperties DEF Cells
  <1>2. (r \o q) \o p = r \o (q \o p)
    BY ConcatAssociative DEF Cells
  <1> QED BY <1>1, <1>2 DEF Cells, Join

LEMMA JoinLength ==
  \A r, q \in Cells : /\ Len(Join(r, q)) = Len(r) + Len(q)
                       /\ Len(r) \in Nat
  <1> SUFFICES ASSUME NEW r \in Cells, NEW q \in Cells
               PROVE  Len(r \o q) = Len(r) + Len(q) /\ Len(r) \in Nat
    BY DEF Join
  <1>1. Len(r \o q) = Len(r) + Len(q)
    BY ConcatProperties DEF Cells
  <1> QED BY <1>1 DEF Cells

\* The cells from IBS_OP_DATA3 on end the header as they end the row.
LEMMA Data3Rest ==
  ASSUME NEW v, NEW P \in Cells
  PROVE  /\ Data3Cells(v) \in Cells
         /\ P \o <<"ld_op", "st_op", "l1tlb_miss", "l2tlb_miss", "l1tlb_2m", "l1tlb_1g",
                  "l2tlb_2m", "dc_miss", "mis_acc">>
              \o If(v.LdBnkCon, <<"ld_bnk_con">>) \o If(v.StBnkCon, <<"st_bnk_con">>)
              \o If(v.StToLdFwd, <<"st_to_ld_fwd">>) \o If(v.StToLdCan, <<"st_to_ld_can">>)
              \o <<"wc_mem_acc", "uc_mem_acc", "locked_op", "mab", "lin_valid",
                   "phy_valid", "l2tlb_1g">>
              \o If(v.Data3_20_31_48_63,
                    <<"l2_miss", "sw_pf", "mem_width", "open_mem_reqs">>)
              \o <<"miss_lat">> \o If(v.Data3_20_31_48_63, <<"tlb_refill_lat">>)
              \o <<"dc_lin_ad", "dc_phys_ad">>
              \o If(v.BrnTrgt, <<"br_target">>) \o If(v.OpData4, <<"ld_resync">>)
            = P \o Data3Cells(v)
  <1> DEFINE D1 == <<"ld_op", "st_op", "l1tlb_miss", "l2tlb_miss", "l1tlb_2m", "l1tlb_1g",
                     "l2tlb_2m", "dc_miss", "mis_acc">>
             D2 == If(v.LdBnkCon, <<"ld_bnk_con">>)
             D3 == If(v.StBnkCon, <<"st_bnk_con">>)
             D4 == If(v.StToLdFwd, <<"st_to_ld_fwd">>)
             D5 == If(v.StToLdCan, <<"st_to_ld_can">>)
             D6 == <<"wc_mem_acc", "uc_mem_acc", "locked_op", "mab", "lin_valid", "phy_valid",
                     "l2tlb_1g">>
             D7 == If(v.Data3_20_31_48_63, <<"l2_miss", "sw_pf", "mem_width", "open_mem_reqs">>)
             D8 == <<"miss_lat">>
             D9 == If(v.Data3_20_31_48_63, <<"tlb_refill_lat">>)
             D10 == <<"dc_lin_ad", "dc_phys_ad">>
             D11 == If(v.BrnTrgt, <<"br_target">>)
             D12 == If(v.OpData4, <<"ld_resync">>)
  <1>1. D1 \in Cells
    BY NamesAreNames DEF Cells
  <1>2. D6 \in Cells
    BY NamesAreNames DEF Cells
  <1>3. D8 \in Cells /\ D10 \in Cells
    BY NamesAreNames DEF Cells
  <1>4. /\ <<"ld_bnk_con">> \in Cells /\ <<"st_bnk_con">> \in Cells
        /\ <<"st_to_ld_fwd">> \in Cells /\ <<"st_to_ld_can">> \in Cells
        /\ <<"l2_miss", "sw_pf", "mem_width", "open_mem_reqs">> \in Cells
    BY NamesAreNames DEF Cells
  <1>5. /\ <<"tlb_refill_lat">> \in Cells /\ <<"br_target">> \in Cells
        /\ <<"ld_resync">> \in Cells
    BY NamesAreNames DEF Cells
  <1>6. D2 \in Cells /\ D3 \in Cells /\ D4 \in Cells
    BY <1>4, IfNames DEF Cells
  <1>7. D5 \in Cells /\ D7 \in Cells /\ D9 \in Cells
    BY <1>4, <1>5, IfNames DEF Cells
  <1>8. D11 \in Cells /\ D12 \in Cells
    BY <1>5, IfNames DEF Cells
  <1> DEFINE E == D1 \o D2 \o D3 \o D4 \o D5 \o D6 \o D7 \o D8 \o D9 \o D10 \o D11 \o D12
  <1>9. Data3Cells(v) = E
    BY DEF Data3Cells
  <1> HIDE DEF D1, D2, D3, D4, D5, D6, D7, D8, D9, D10, D11, D12
  <1> DEFINE E2 == Join(D1, D2)
             E3 == Join(E2, D3)
             E4 == Join(E3, D4)
             E5 == Join(E4, D5)
             E6 == Join(E5, D6)
             E7 == Join(E6, D7)
             E8 == Join(E7, D8)
             E9 == Join(E8, D9)
             E10 == Join(E9, D10)
             E11 == Join(E10, D11)
             E12 == Join(E11, D12)
  <1>11. E2 \in Cells /\ Join(P, E2) = Join(Join(P, D1), D2)
    BY <1>1, <1>6, JoinAssociates
  <1> HIDE DEF E2
  <1>12. E3 \in Cells /\ Join(P, E3) = Join(Join(P, E2), D3)
    BY <1>11, <1>6, JoinAssociates
  <1> HIDE DEF E3
  <1>13. E4 \in Cells /\ Join(P, E4) = Join(Join(P, E3), D4)
    BY <1>12, <1>6, JoinAssociates
  <1> HIDE DEF E4
  <1>14. E5 \in Cells /\ Join(P, E5) = Join(Join(P, E4), D5)
    BY <1>13, <1>7, JoinAssociates
  <1> HIDE DEF E5
  <1>15. E6 \in Cells /\ Join(P, E6) = Join(Join(P, E5), D6)
    BY <1>14, <1>2, JoinAssociates
  <1> HIDE DEF E6
  <1>16. E7 \in Cells /\ Join(P, E7) = Join(Join(P, E6), D7)
    BY <1>15, <1>7, JoinAssociates
  <1> HIDE DEF E7
  <1>17. E8 \in Cells /\ Join(P, E8) = Join(Join(P, E7), D8)
    BY <1>16, <1>3, JoinAssociates
  <1> HIDE DEF E8
  <1>18. E9 \in Cells /\ Join(P, E9) = Join(Join(P, E8), D9)
    BY <1>17, <1>7, JoinAssociates
  <1> HIDE DEF E9
  <1>19. E10 \in Cells /\ Join(P, E10) = Join(Join(P, E9), D10)
    BY <1>18, <1>3, JoinAssociates
  <1> HIDE DEF E10
  <1>20. E11 \in Cells /\ Join(P, E11) = Join(Join(P, E10), D11)
    BY <1>19, <1>8, JoinAssociates
  <1> HIDE DEF E11
  <1>21. E12 \in Cells /\ Join(P, E12) = Join(Join(P, E11), D12)
    BY <1>20, <1>8, JoinAssociates
  <1> HIDE DEF E12
  <1>22. E = E12
    BY DEF Join, E2, E3, E4, E5, E6, E7, E8, E9, E10, E11, E12
  <1>23. P \o D1 \o D2 \o D3 \o D4 \o D5 \o D6 \o D7 \o D8 \o D9 \o D10 \o D11 \o D12 = P \o E
    <2> HIDE DEF E
    <2>1. Join(P, E12) = P \o D1 \o D2 \o D3 \o D4 \o D5 \o D6 \o D7 \o D8 \o D9 \o D10 \o D11 \o D12
      BY <1>11, <1>12, <1>13, <1>14, <1>15, <1>16, <1>17, <1>18, <1>19, <1>20, <1>21
         DEF Join
    <2> QED BY <1>22, <2>1 DEF Join
  <1>24. E \in Cells
    BY <1>21, <1>22
  <1> HIDE DEF E
  <1>25. /\ Data3Cells(v) \in Cells
         /\ P \o Data3Cells(v)
              = P \o D1 \o D2 \o D3 \o D4 \o D5 \o D6 \o D7 \o D8 \o D9 \o D10 \o D11 \o D12
    BY <1>9, <1>23, <1>24
  <1> QED BY <1>25 DEF D1, D2, D3, D4, D5, D6, D7, D8, D9, D10, D11, D12

\* The cells in front of those of IBS_OP_DATA2, in the header and in a row.
HeaderStart(v) ==
  Common \o <<"op_rip", "op_max_cnt", "comp_to_ret", "tag_to_ret">>
  \o If(v.BrnResync, <<"brn_resync">>) \o If(v.MispReturn, <<"misp_return">>)
  \o <<"op_return", "brn_taken", "brn_misp", "brn_ret">>
  \o If(v.RipInvalidChk, <<"rip_invalid">>) \o If(v.BrnFuse, <<"brn_fuse">>)
  \o If(v.Microcode, <<"microcode">>)
RowStart(v) ==
  Common \o <<"op_rip", "op_max_cnt", "comp_to_ret", "tag_to_ret">>
  \o If(v.BrnResync, <<"brn_resync">>) \o If(v.MispReturn, <<"misp_return">>)
  \o <<"brn_ret", "brn_taken", "brn_misp", "brn_ret">>
  \o If(v.RipInvalidChk, <<"rip_invalid">>) \o If(v.BrnFuse, <<"brn_fuse">>)
  \o If(v.Microcode, <<"microcode">>)

LEMMA StartUnderStart ==
  ASSUME NEW v
  PROVE  Under(RowStart(v), HeaderStart(v))
  <1> DEFINE A == <<"op_rip", "op_max_cnt", "comp_to_ret", "tag_to_ret">>
             B == If(v.BrnResync, <<"brn_resync">>)
             C == If(v.MispReturn, <<"misp_return">>)
             G == <<"op_return", "brn_taken", "brn_misp", "brn_ret">>
             R == <<"brn_ret", "brn_taken", "brn_misp", "brn_ret">>
             X == If(v.RipInvalidChk, <<"rip_invalid">>)
             Y == If(v.BrnFuse, <<"brn_fuse">>)
             Z == If(v.Microcode, <<"microcode">>)
  <1>1. Under(Common, Common)
    <2>1. Common \in Cells
      BY NamesAreNames DEF Common, Cells
    <2> QED BY <2>1, UnderSame
  <1>2. Under(A, A)
    <2>1. A \in Cells
      BY NamesAreNames DEF Cells
    <2> HIDE DEF A
    <2> QED BY <2>1, UnderSame
  <1>3. <<"brn_resync">> \in Cells /\ <<"misp_return">> \in Cells /\ <<"rip_invalid">> \in Cells
    BY NamesAreNames DEF Cells
  <1>4. <<"brn_fuse">> \in Cells /\ <<"microcode">> \in Cells
    BY NamesAreNames DEF Cells
  <1>5. Under(B, B) /\ Under(C, C) /\ Under(X, X)
    BY <1>3, IfNames, UnderSame
  <1>6. Under(Y, Y) /\ Under(Z, Z)
    BY <1>4, IfNames, UnderSame
  <1>7. Under(R, G)
    <2>1. R \in Cells
      BY NamesAreNames DEF Cells
    <2>2. G \in Cells
      BY NamesAreNames DEF Cells
    <2>3. Len(R) = Len(G) /\ \A k \in 1 .. Len(R) : R[k] = G[k] \/ G[k] = "op_return"
      OBVIOUS
    <2> HIDE DEF R, G
    <2> QED BY <2>1, <2>2, <2>3 DEF Under
  <1>8. /\ RowStart(v) = Common \o A \o B \o C \o R \o X \o Y \o Z
        /\ HeaderStart(v) = Common \o A \o B \o C \o G \o X \o Y \o Z
    BY DEF RowStart, HeaderStart
  <1> HIDE DEF A, B, C, G, R, X, Y, Z
  <1>9. Under(Common \o A, Common \o A)
    BY <1>1, <1>2, UnderConcat
  <1>10. Under(Common \o A \o B, Common \o A \o B)
    BY <1>5, <1>9, UnderConcat
  <1>11. Under(Common \o A \o B \o C, Common \o A \o B \o C)
    BY <1>5, <1>10, UnderConcat
  <1>12. Under(Common \o A \o B \o C \o R, Common \o A \o B \o C \o G)
    BY <1>7, <1>11, UnderConcat
  <1>13. Under(Common \o A \o B \o C \o R \o X, Common \o A \o B \o C \o G \o X)
    BY <1>5, <1>12, UnderConcat
  <1>14. Under(Common \o A \o B \o C \o R \o X \o Y, Common \o A \o B \o C \o G \o X \o Y)
    BY <1>6, <1>13, UnderConcat
  <1>15. Under(Common \o A \o B \o C \o R \o X \o Y \o Z,
               Common \o A \o B \o C \o G \o X \o Y \o Z)
    BY <1>6, <1>14, UnderConcat
  <1> QED BY <1>8, <1>15

\* A row of an op file stands under the header, but for the dashes that a
\* machine without bits 4 and 5 of IBS_OP_DATA2 has no columns for.
LEMMA OpRowUnder ==
  ASSUME NEW v, NEW s
  PROVE  IF v.OpData2_4_5 # 0 \/ NbDataValid(v, s)
         THEN Under(OpRow(v, s), OpHeaderCells(v))
         ELSE Len(OpRow(v, s)) = Len(OpHeaderCells(v)) + 2
  <1> DEFINE P == HeaderStart(v)
             Q == RowStart(v)
             N == <<"req_src">> \o If(v.OpData2_4_5, <<"dst_node", "cache_hit_st">>)
             D == Data3Cells(v)
  <1>1. Under(Q, P) /\ P \in Cells /\ Q \in Cells
    BY StartUnderStart DEF Under
  <1>2. <<"req_src">> \in Cells /\ <<"dst_node", "cache_hit_st">> \in Cells
    BY NamesAreNames DEF Cells
  <1>3. If(v.OpData2_4_5, <<"dst_node", "cache_hit_st">>) \in Cells
    BY <1>2, IfNames
  <1>4. N \in Cells
    <2> DEFINE I == If(v.OpData2_4_5, <<"dst_node", "cache_hit_st">>)
               J == <<"req_src">>
    <2>1. I \in Cells /\ J \in Cells
      BY <1>2, <1>3
    <2>2. N = J \o I
      OBVIOUS
    <2> HIDE DEF I, J, N
    <2> QED BY <2>1, <2>2, JoinAssociates DEF Join
  <1>5. P \o <<"req_src">> \o If(v.OpData2_4_5, <<"dst_node", "cache_hit_st">>) = P \o N
    <2> DEFINE I == If(v.OpData2_4_5, <<"dst_node", "cache_hit_st">>)
               J == <<"req_src">>
    <2>1. I \in Cells /\ J \in Cells
      BY <1>2, <1>3
    <2>2. N = J \o I
      OBVIOUS
    <2> HIDE DEF I, J, N, P
    <2>3. P \o J \o I = P \o N
      <3>1. Join(P, Join(J, I)) = Join(Join(P, J), I)
        BY <1>1, <2>1, JoinAssociates
      <3> QED BY <2>2, <3>1 DEF Join
    <2> QED BY <2>3 DEF I, J
  <1>6. P \o N \in Cells
    <2> HIDE DEF P, N
    <2> QED BY <1>1, <1>4, JoinAssociates DEF Join
  <1>7. D \in Cells /\ OpHeaderCells(v) = P \o N \o D
    <2> DEFINE O == P \o N
    <2>1. O \in Cells
      BY <1>6
    <2>2. OpHeaderCells(v)
            = O \o <<"ld_op", "st_op", "l1tlb_miss", "l2tlb_miss", "l1tlb_2m", "l1tlb_1g",
                     "l2tlb_2m", "dc_miss", "mis_acc">>
              \o If(v.LdBnkCon, <<"ld_bnk_con">>) \o If(v.StBnkCon, <<"st_bnk_con">>)
              \o If(v.StToLdFwd, <<"st_to_ld_fwd">>) \o If(v.StToLdCan, <<"st_to_ld_can">>)
              \o <<"wc_mem_acc", "uc_mem_acc", "locked_op", "mab", "lin_valid",
                   "phy_valid", "l2tlb_1g">>
              \o If(v.Data3_20_31_48_63,
                    <<"l2_miss", "sw_pf", "mem_width", "open_mem_reqs">>)
              \o <<"miss_lat">> \o If(v.Data3_20_31_48_63, <<"tlb_refill_lat">>)
              \o <<"dc_lin_ad", "dc_phys_ad">>
              \o If(v.BrnTrgt, <<"br_target">>) \o If(v.OpData4, <<"ld_resync">>)
      <3> HIDE DEF N
      <3>1. O = HeaderStart(v) \o <<"req_src">>
                  \o If(v.OpData2_4_5, <<"dst_node", "cache_hit_st">>)
        BY <1>5
      <3> HIDE DEF O
      <3> QED BY <3>1, Zenon DEF OpHeaderCells, HeaderStart
    <2> HIDE DEF O
    <2>3. D \in Cells /\ OpHeaderCells(v) = O \o D
      BY <2>1, <2>2, Data3Rest
    <2> QED BY <2>3 DEF O
  <1>8. OpRow(v, s) = Q \o NbCells(v, s) \o D
    BY Zenon DEF OpRow, RowStart
  <1>9. CASE NbDataValid(v, s)
    <2>1. NbCells(v, s) = N
      BY <1>9 DEF NbCells
    <2> HIDE DEF P, Q, N, D
    <2>2. Under(N, N) /\ Under(D, D)
      BY <1>4, <1>7, UnderSame
    <2>3. Under(Q \o N, P \o N)
      BY <1>1, <2>2, UnderConcat
    <2>4. Under(Q \o N \o D, P \o N \o D)
      BY <2>2, <2>3, UnderConcat
    <2> QED BY <1>7, <1>8, <1>9, <2>1, <2>4
  <1>10. CASE ~NbDataValid(v, s) /\ v.OpData2_4_5 # 0
    <2> DEFINE B == <<Blank, Blank, Blank>>
    <2>1. NbCells(v, s) = B
      BY <1>10 DEF NbCells
    <2>2. Under(B, N)
      <3>1. B \in Cells
        BY NamesAreNames DEF Cells, Blank
      <3>2. Len(N) = 3
        <4> DEFINE I == <<"dst_node", "cache_hit_st">>
                   J == <<"req_src">>
        <4>1. N = J \o I
          BY <1>10 DEF If
        <4>2. Len(I) = 2 /\ Len(J) = 1 /\ I \in Cells /\ J \in Cells
          BY <1>2
        <4> HIDE DEF I, J, N
        <4>3. Len(Join(J, I)) = Len(J) + Len(I)
          BY <4>2, JoinLength
        <4>4. Len(Join(J, I)) = 3
          BY <4>2, <4>3
        <4> QED BY <4>1, <4>4 DEF Join
      <3>3. Len(B) = 3 /\ Len(N) = 3 /\ B[1] = Blank /\ B[2] = Blank /\ B[3] = Blank
        BY <3>2
      <3> HIDE DEF B, N
      <3> QED BY <1>4, <3>1, <3>3 DEF Under
    <2> HIDE DEF P, Q, N, D, B
    <2>3. Under(D, D)
      BY <1>7, UnderSame
    <2>4. Under(Q \o B, P \o N)
      BY <1>1, <2>2, UnderConcat
    <2>5. Under(Q \o B \o D, P \o N \o D)
      BY <2>3, <2>4, UnderConcat
    <2> QED BY <1>7, <1>8, <1>10, <2>1, <2>5
  <1>11. CASE ~NbDataValid(v, s) /\ v.OpData2_4_5 = 0
    <2> DEFINE B == <<Blank, Blank, Blank>>
    <2>1. NbCells(v, s) = B
      BY <1>11 DEF NbCells
    <2>2. B \in Cells /\ Len(B) = 3
      BY NamesAreNames DEF Cells, Blank
    <2>3. Len(N) = 1
      <3>1. N = <<"req_src">> \o <<>>
        BY <1>11 DEF If
      <3>2. Len(<<"req_src">> \o <<>>) = 1
        OBVIOUS
      <3> QED BY <3>1, <3>2
    <2>4. Len(P) = Len(Q)
      BY <1>1 DEF Under
    <2> HIDE DEF P, Q, N, D, B
    <2>5. Q \o B \in Cells /\ Len(Q \o B) = Len(Q) + 3
      BY <1>1, <2>2, JoinAssociates, JoinLength DEF Join
    <2>6. Len(P \o N) = Len(P) + 1
      BY <1>1, <1>4, <2>3, JoinLength DEF Join
    <2>7. Len(Q \o B \o D) = Len(Q) + 3 + Len(D)
      BY <1>1, <1>7, <2>5, JoinLength DEF Join
    <2>8. Len(P \o N \o D) = Len(P) + 1 + Len(D)
      BY <1>1, <1>6, <1>7, <2>6, JoinLength DEF Join
    <2>9. Len(P) \in Nat /\ Len(D) \in Nat
      BY <1>1, <1>7 DEF Cells
    <2> QED BY <1>7, <1>8, <1>11, <2>1, <2>4, <2>7, <2>8, <2>9
  <1> QED BY <1>9, <1>10, <1>11

\* Rows and headers of fetch files are the same.
LEMMA FetchRowUnder ==
  ASSUME NEW v
  PROVE  Under(FetchRow(v), FetchHeaderCells(v))
  <1>1. FetchHeaderCells(v) = FetchRow(v)
    BY DEF FetchHeaderCells, FetchRow
  <1>2. FetchRow(v) \in Cells
    <2> DEFINE A == <<"phy_valid", "lin_ad", "phys_ad", "fetch_max_cnt", "fetch_lat",
                      "fetch_comp", "ic_miss", "l1tlb_pg_sz", "l1tlb_miss", "l2tlb_miss">>
               B == IF FetchL2Miss(v) THEN <<"l2_miss">> ELSE <<>>
               C == If(v.FetchCtlExtd, <<"itlb_refill_lat">>)
    <2>1. Common \in Cells
      BY NamesAreNames DEF Common, Cells
    <2>2. A \in Cells
      BY NamesAreNames DEF Cells
    <2>3. B \in Cells
      <3>1. <<"l2_miss">> \in Cells /\ <<>> \in Cells
        BY NamesAreNames DEF Cells
      <3> QED BY <3>1
    <2>4. C \in Cells
      <3>1. <<"itlb_refill_lat">> \in Cells
        BY NamesAreNames DEF Cells
      <3> QED BY <3>1, IfNames
    <2>5. FetchRow(v) = Common \o A \o B \o C
      BY Zenon DEF FetchRow
    <2> HIDE DEF A, B, C
    <2>6. Common \o A \in Cells
      BY <2>1, <2>2, JoinAssociates DEF Join
    <2>7. Common \o A \o B \in Cells
      BY <2>3, <2>6, JoinAssociates DEF Join
    <2>8. Common \o A \o B \o C \in Cells
      BY <2>4, <2>7, JoinAssociates DEF Join
    <2> QED BY <2>5, <2>8
  <1> QED BY <1>1, <1>2, UnderSame

\* Every CSV row that the decoder writes stands under its header, with the two
\* exceptions that RowsUnderNames names: whatever the machine and the free text
\* in the trace file, each of the optional columns is in the row (output_op_entry, output_fetch_entry) exactly
\* when it is in the header (output_op_header, output_fetch_header).
THEOREM RowsAreUnderNames == ToolSpec => []RowsUnderNames
  <1>1. ToolInit => RowsUnderNames
    BY DEF ToolInit, Idle, RowsUnderNames
  <1>2. ASSUME RowsUnderNames, [ToolNext]_toolVars PROVE RowsUnderNames'
    <2>1. ASSUME job' = job PROVE RowsUnderNames'
      BY <1>2, <2>1 DEF RowsUnderNames
    <2>2. ASSUME job' = Idle PROVE RowsUnderNames'
      BY <2>2 DEF RowsUnderNames, Idle
    <2>3. ASSUME NEW online, ListCpus(online) PROVE RowsUnderNames'
      BY <2>3 DEF ListCpus, Start, RowsUnderNames
    <2>4. ASSUME NEW m \in Machines, DecodeFetch(m) PROVE RowsUnderNames'
      <3> DEFINE v == ParseHeader(FetchKeys, FetchTraceHeader(m))
      <3>1. HeaderKnown(m, v, FetchFlags(m))
        BY FetchValues
      <3>2. Under(FetchRow(v), FetchHeaderCells(v))
        BY FetchRowUnder
      <3>3. job' = [kind |-> "fetch", machine |-> m, val |-> v,
                    header |-> FetchHeaderCells(v), row |-> FetchRow(v)]
        BY <2>4 DEF DecodeFetch, Start
      <3> HIDE DEF v
      <3>4. /\ job'.kind = "fetch" /\ job'.machine = m /\ job'.val = v
            /\ job'.header = FetchHeaderCells(v) /\ job'.row = FetchRow(v)
        BY <3>3
      <3>5. /\ Len(job'.row) = Len(job'.header)
            /\ \A k \in DOMAIN job'.row : \/ job'.row[k] \in {Blank, job'.header[k]}
                                          \/ job'.header[k] = "op_return"
        BY <3>2, <3>4 DEF Under, Cells
      <3> QED BY <3>1, <3>4, <3>5 DEF RowsUnderNames, HeaderKnown, TextHasKey
    <2>5. ASSUME NEW m \in Machines, NEW s, DecodeOp(m, s) PROVE RowsUnderNames'
      <3> DEFINE v == ParseHeader(OpKeys, OpTraceHeader(m))
      <3>1. HeaderKnown(m, v, OpFlags(m))
        BY OpValues
      <3>2. IF v.OpData2_4_5 # 0 \/ NbDataValid(v, s)
            THEN Under(OpRow(v, s), OpHeaderCells(v))
            ELSE Len(OpRow(v, s)) = Len(OpHeaderCells(v)) + 2
        BY OpRowUnder
      <3>3. job' = [kind |-> "op", machine |-> m, val |-> v, valid |-> NbDataValid(v, s),
                    header |-> OpHeaderCells(v), row |-> OpRow(v, s)]
        BY <2>5 DEF DecodeOp, Start
      <3> HIDE DEF v
      <3>4. /\ job'.kind = "op" /\ job'.machine = m /\ job'.val = v
            /\ job'.valid = NbDataValid(v, s)
            /\ job'.header = OpHeaderCells(v) /\ job'.row = OpRow(v, s)
        BY <3>3
      <3>5. CASE v.OpData2_4_5 = 0 /\ ~NbDataValid(v, s)
        <4>1. Len(job'.row) = Len(job'.header) + 2
          BY <3>1, <3>2, <3>4, <3>5
        <4> QED BY <3>1, <3>4, <3>5, <4>1 DEF RowsUnderNames, HeaderKnown, TextHasKey
      <3>6. CASE ~(v.OpData2_4_5 = 0 /\ ~NbDataValid(v, s))
        <4>1. Under(OpRow(v, s), OpHeaderCells(v))
          BY <3>1, <3>2, <3>6
        <4>2. /\ Len(job'.row) = Len(job'.header)
              /\ \A k \in DOMAIN job'.row : \/ job'.row[k] \in {Blank, job'.header[k]}
                                            \/ job'.header[k] = "op_return"
          BY <3>4, <4>1 DEF Under, Cells
        <4> QED BY <3>1, <3>4, <3>6, <4>2 DEF RowsUnderNames, HeaderKnown, TextHasKey
      <3> QED BY <3>5, <3>6
    <2>6. CASE UNCHANGED toolVars
      BY <2>1, <2>6 DEF toolVars
    <2>7. CASE Control \/ (\E r \in Rates : SetRate(r))
      BY <2>1, <2>7 DEF Control, SetRate
    <2>8. CASE Finish
      BY <2>2, <2>8 DEF Finish
    <2>9. CASE \E online \in SUBSET AllCpus : online # {} /\ ListCpus(online)
      BY <2>3, <2>9
    <2>10. CASE \E m \in Machines : DecodeFetch(m) \/ \E s \in Samples : DecodeOp(m, s)
      BY <2>4, <2>5, <2>10
    <2> QED BY <1>2, <2>6, <2>7, <2>8, <2>9, <2>10 DEF ToolNext
  <1> QED BY <1>1, <1>2, PTL DEF ToolSpec

-----------------------------------------------------------------------------
(* The list of online CPUs.  The kernel's text is a recursive function of  *)
(* the CPU number, the parsers' loop a fold: again the lemmas first show   *)
(* that each is determined.                                                *)

LEMMA CpuBound == NumCpus \in Nat /\ 1 <= NumCpus /\ NumCpus <= 100
  BY OnlineAssumption

TextDef(online, m, g) ==
  g = [n \in 0 .. m |-> IF n = 0 THEN <<>> ELSE WithRange(online, g[n - 1], n - 1)]
TextFun(online) == CHOOSE g : TextDef(online, NumCpus, g)

LEMMA TextIsFun == ASSUME NEW online PROVE OnlineText(online) = TextFun(online)[NumCpus]
  BY DEF OnlineText, TextFun, TextDef

LEMMA TextExists ==
  ASSUME NEW online
  PROVE  TextDef(online, NumCpus, TextFun(online))
  <1> DEFINE B == {m \in Nat : ~ \E g : TextDef(online, m, g)}
  <1>1. B = {}
    <2> SUFFICES ASSUME B # {} PROVE FALSE
      OBVIOUS
    <2>1. PICK m \in B : \A y \in B : m <= y
      <3>1. B \subseteq Nat
        OBVIOUS
      <3> HIDE DEF B
      <3> QED BY <3>1, LeastNumber
    <2>2. CASE m = 0
      <3> DEFINE g == [n \in 0 .. 0 |-> <<>>]
      <3>1. TextDef(online, 0, g)
        BY DEF TextDef
      <3> QED BY <2>2, <3>1
    <2>3. CASE m # 0
      <3>1. m - 1 \in Nat /\ m - 1 \notin B
        BY <2>1, <2>3
      <3>2. PICK g : TextDef(online, m - 1, g)
        BY <3>1
      <3> DEFINE h == [n \in 0 .. m |-> IF n = m THEN WithRange(online, g[m - 1], m - 1)
                                        ELSE g[n]]
      <3>3. ASSUME NEW n \in 0 .. m
            PROVE  h[n] = IF n = 0 THEN <<>> ELSE WithRange(online, h[n - 1], n - 1)
        <4>1. CASE n = m
          BY <2>3, <4>1
        <4>2. CASE n # m
          <5>1. n \in 0 .. m - 1
            BY <4>2
          <5>2. g[n] = IF n = 0 THEN <<>> ELSE WithRange(online, g[n - 1], n - 1)
            BY <3>2, <5>1 DEF TextDef
          <5>3. n # 0 => n - 1 \in 0 .. m /\ n - 1 # m
            BY <5>1
          <5> QED BY <4>2, <5>2, <5>3
        <4> QED BY <4>1, <4>2
      <3>4. TextDef(online, m, h)
        <4>1. h = [n \in 0 .. m |-> IF n = 0 THEN <<>> ELSE WithRange(online, h[n - 1], n - 1)]
          BY <3>3
        <4> QED BY <4>1 DEF TextDef
      <3> QED BY <3>4
    <2> QED BY <2>2, <2>3
  <1>2. \E g : TextDef(online, NumCpus, g)
    BY <1>1, CpuBound
  <1> QED BY <1>2 DEF TextFun

LEMMA TextStep ==
  ASSUME NEW online
  PROVE  /\ TextFun(online)[0] = <<>>
         /\ \A n \in 1 .. NumCpus :
              TextFun(online)[n] = WithRange(online, TextFun(online)[n - 1], n - 1)
  <1> DEFINE g == TextFun(online)
  <1>1. g = [n \in 0 .. NumCpus |-> IF n = 0 THEN <<>> ELSE WithRange(online, g[n - 1], n - 1)]
    BY TextExists DEF TextDef
  <1> HIDE DEF g
  <1>2. g[0] = <<>>
    BY <1>1, CpuBound
  <1>3. ASSUME NEW n \in 1 .. NumCpus PROVE g[n] = WithRange(online, g[n - 1], n - 1)
    BY <1>1, CpuBound
  <1> QED BY <1>2, <1>3 DEF g

-----------------------------------------------------------------------------
ParseStart == [list |-> {}, previous |-> -1, seen |-> 0, break |-> FALSE]
LoopDef(tool, text, num, S, g) ==
  g = [s \in SUBSET S |-> IF s = {} THEN ParseStart
                          ELSE ParseChar(tool, text, Max(s), num, g[s \ {Max(s)}])]
LoopFun(tool, text, num, S) == CHOOSE g : LoopDef(tool, text, num, S, g)
LoopAt(tool, text, num, S) == LoopFun(tool, text, num, S)[S]

LEMMA ParseIsLoop ==
  ASSUME NEW tool, NEW text \in Seq(Nat), NEW num
  PROVE  Parse(tool, text, num) = LoopAt(tool, text, num, 1 .. Len(text))
  <1> DEFINE S == DOMAIN text
             ident == [i \in DOMAIN text |-> i]
             Def(g) == g = [s \in SUBSET S |-> IF s = {} THEN ParseStart
                      ELSE ParseChar(tool, text, ident[Max(s)], num, g[s \ {Max(s)}])]
  <1>1. Parse(tool, text, num) = (CHOOSE g : Def(g))[S]
    BY DEF Parse, FoldLeftDomain, FoldLeft, MapThenFoldSet, ParseStart
  <1>2. S = 1 .. Len(text) /\ Len(text) \in Nat
    OBVIOUS
  <1>3. \A s \in SUBSET S : s # {} => ident[Max(s)] = Max(s)
    BY <1>2, LastLine
  <1>4. \A g : Def(g) <=> LoopDef(tool, text, num, S, g)
    <2> TAKE g
    <2>1. [s \in SUBSET S |-> IF s = {} THEN ParseStart
                      ELSE ParseChar(tool, text, ident[Max(s)], num, g[s \ {Max(s)}])]
           = [s \in SUBSET S |-> IF s = {} THEN ParseStart
                          ELSE ParseChar(tool, text, Max(s), num, g[s \ {Max(s)}])]
      <3> HIDE DEF S, ident
      <3> QED BY <1>3
    <2> QED BY <2>1 DEF LoopDef
  <1>5. (CHOOSE g : Def(g)) = LoopFun(tool, text, num, S)
    <2> HIDE DEF Def
    <2> QED BY <1>4 DEF LoopFun
  <1> QED BY <1>1, <1>2, <1>5 DEF LoopAt

Positions(S) == \E n \in Nat : S \subseteq 1 .. n

LEMMA LoopUnique ==
  ASSUME NEW tool, NEW text, NEW num, NEW S, NEW T, NEW g, NEW h,
         Positions(S), T \subseteq S,
         LoopDef(tool, text, num, S, g), LoopDef(tool, text, num, T, h)
  PROVE  \A s \in SUBSET T : g[s] = h[s]
  <1>0. PICK n \in Nat : S \subseteq 1 .. n
    BY DEF Positions
  <1> DEFINE B == {s \in SUBSET T : g[s] # h[s]}
  <1> SUFFICES ASSUME B # {} PROVE FALSE
    OBVIOUS
  <1>1. PICK s \in B : \A U \in B : U \subseteq s => U = s
    <2> DEFINE I == 1 .. n
    <2>1. B \subseteq SUBSET I
      BY <1>0
    <2>2. IsFiniteSet(I)
      BY FS_Interval
    <2> HIDE DEF B, I
    <2> QED BY <2>1, <2>2, SmallestSet
  <1>2. s \in SUBSET T /\ s \in SUBSET S /\ g[s] # h[s]
    OBVIOUS
  <1>3. s # {}
    BY <1>2 DEF LoopDef
  <1>4. Max(s) \in s
    <2>1. s \in SUBSET (1 .. n)
      BY <1>0, <1>2
    <2> QED BY <1>3, <2>1, LastLine
  <1>5. g[s \ {Max(s)}] = h[s \ {Max(s)}]
    BY <1>1, <1>4
  <1>6. /\ g[s] = ParseChar(tool, text, Max(s), num, g[s \ {Max(s)}])
        /\ h[s] = ParseChar(tool, text, Max(s), num, h[s \ {Max(s)}])
    BY <1>2, <1>3 DEF LoopDef
  <1> QED BY <1>2, <1>5, <1>6

LEMMA LoopExists ==
  ASSUME NEW tool, NEW text, NEW num, NEW n \in Nat
  PROVE  \A T \in SUBSET (1 .. n) : LoopDef(tool, text, num, T, LoopFun(tool, text, num, T))
  <1> DEFINE F(T) == LoopFun(tool, text, num, T)
             D(T, g) == LoopDef(tool, text, num, T, g)
             B == {T \in SUBSET (1 .. n) : ~ D(T, F(T))}
  <1> SUFFICES ASSUME B # {} PROVE FALSE
    OBVIOUS
  <1>1. PICK T \in B : \A U \in B : U \subseteq T => U = T
    <2> DEFINE I == 1 .. n
    <2>1. B \subseteq SUBSET I
      OBVIOUS
    <2>2. IsFiniteSet(I)
      BY FS_Interval
    <2> HIDE DEF B, I
    <2> QED BY <2>1, <2>2, SmallestSet
  <1> DEFINE Rest(s) == s \ {Max(s)}
             G == [s \in SUBSET T |-> IF s = {} THEN ParseStart
                     ELSE ParseChar(tool, text, Max(s), num, F(Rest(s))[Rest(s)])]
  <1>2. ASSUME NEW s \in SUBSET T, s # {}
        PROVE  G[Rest(s)] = F(Rest(s))[Rest(s)]
    <2> DEFINE W == Rest(s)
               X == Rest(W)
    <2>0. Max(s) \in s
      BY <1>2, LastLine
    <2>1. W \subseteq T /\ W # T /\ W \in SUBSET (1 .. n)
      BY <2>0
    <2>2. D(W, F(W))
      <3> HIDE DEF D, F
      <3> QED BY <1>1, <2>1
    <2>3. CASE W = {}
      <3>1. F(W)[W] = ParseStart
        BY <2>2, <2>3 DEF LoopDef
      <3> QED BY <2>1, <2>3, <3>1
    <2>4. CASE W # {}
      <3>0. Max(W) \in W
        BY <2>1, <2>4, LastLine
      <3>1. X \subseteq W /\ X # T /\ X \in SUBSET (1 .. n)
        BY <2>1, <3>0
      <3>2. D(X, F(X))
        <4> HIDE DEF D, F
        <4> QED BY <1>1, <2>1, <3>1
      <3>4. F(W)[X] = F(X)[X]
        <4>1. X \in SUBSET X /\ Positions(W)
          BY <2>1 DEF Positions
        <4>2. LoopDef(tool, text, num, W, F(W)) /\ LoopDef(tool, text, num, X, F(X))
          BY <2>2, <3>2
        <4>3. X \subseteq W
          BY <3>1
        <4> HIDE DEF F, W, X
        <4> QED BY <4>1, <4>2, <4>3, LoopUnique
      <3>5. F(W)[W] = ParseChar(tool, text, Max(W), num, F(W)[X])
        <4> HIDE DEF F
        <4> QED BY <2>2, <2>4 DEF LoopDef
      <3>6. G[W] = ParseChar(tool, text, Max(W), num, F(X)[X])
        <4> HIDE DEF F
        <4> QED BY <2>1, <2>4
      <3> HIDE DEF F, G
      <3> QED BY <3>4, <3>5, <3>6
    <2> QED BY <2>3, <2>4
  <1>3. LoopDef(tool, text, num, T, G)
    <2>1. G = [s \in SUBSET T |-> IF s = {} THEN ParseStart
                 ELSE ParseChar(tool, text, Max(s), num, G[Rest(s)])]
      <3>1. \A s \in SUBSET T : s # {} => G[Rest(s)] = F(Rest(s))[Rest(s)]
        BY <1>2
      <3> HIDE DEF F
      <3> QED BY <3>1
    <2> HIDE DEF G
    <2> QED BY <2>1 DEF LoopDef
  <1>4. LoopDef(tool, text, num, T, F(T))
    BY <1>3 DEF LoopFun
  <1> QED BY <1>1, <1>4

\* The state of the loop after k characters.
After(tool, text, num, k) == LoopAt(tool, text, num, 1 .. k)

LEMMA LoopStep ==
  ASSUME NEW tool, NEW text, NEW num
  PROVE  /\ After(tool, text, num, 0) = ParseStart
         /\ \A k \in Nat : k # 0 =>
              After(tool, text, num, k)
                = ParseChar(tool, text, k, num, After(tool, text, num, k - 1))
  <1> DEFINE F(T) == LoopFun(tool, text, num, T)
  <1>1. F(1 .. 0)[1 .. 0] = ParseStart
    <2>1. LoopDef(tool, text, num, 1 .. 0, F(1 .. 0))
      BY LoopExists
    <2>2. 1 .. 0 = {}
      OBVIOUS
    <2> QED BY <2>1, <2>2 DEF LoopDef
  <1>2. ASSUME NEW k \in Nat, k # 0
        PROVE  F(1 .. k)[1 .. k]
                 = ParseChar(tool, text, k, num, F(1 .. k - 1)[1 .. k - 1])
    <2>1. Max(1 .. k) = k
      <3>1. 1 .. k # {} /\ k \in 1 .. k
        BY <1>2
      <3>2. Max(1 .. k) \in 1 .. k /\ \A y \in 1 .. k : Max(1 .. k) >= y
        BY <3>1, LastLine
      <3> QED BY <3>1, <3>2
    <2>2. (1 .. k) \ {k} = 1 .. k - 1 /\ 1 .. k - 1 \subseteq 1 .. k
      OBVIOUS
    <2>3. LoopDef(tool, text, num, 1 .. k, F(1 .. k))
      BY LoopExists
    <2>4. LoopDef(tool, text, num, 1 .. k - 1, F(1 .. k - 1))
      BY <2>2, LoopExists
    <2>5. F(1 .. k)[1 .. k - 1] = F(1 .. k - 1)[1 .. k - 1]
      <3> DEFINE K == 1 .. k
                 J == 1 .. k - 1
      <3>1. J \in SUBSET J /\ J \subseteq K /\ Positions(K)
        BY <2>2 DEF Positions
      <3> SUFFICES F(K)[J] = F(J)[J]
        OBVIOUS
      <3>2. LoopDef(tool, text, num, K, F(K)) /\ LoopDef(tool, text, num, J, F(J))
        BY <2>3, <2>4
      <3> HIDE DEF F, K, J
      <3> QED BY <3>1, <3>2, LoopUnique
    <2>6. F(1 .. k)[1 .. k] = ParseChar(tool, text, k, num, F(1 .. k)[1 .. k - 1])
      <3>1. 1 .. k # {}
        BY <1>2
      <3> HIDE DEF F
      <3> QED BY <2>1, <2>2, <2>3, <3>1 DEF LoopDef
    <2> QED BY <2>5, <2>6
  <1> QED BY <1>1, <1>2 DEF After, LoopAt
-----------------------------------------------------------------------------
(* The numbers in the text have one digit or two.                          *)

LEMMA MinIs ==
  ASSUME NEW T, T \subseteq Int, NEW x \in T, \A y \in T : x <= y
  PROVE  Min(T) = x
  <1>1. Min(T) \in T /\ \A y \in T : Min(T) <= y
    BY DEF Min
  <1>2. Min(T) <= x /\ x <= Min(T) /\ x \in Int /\ Min(T) \in Int
    BY <1>1
  <1> QED BY <1>2

LEMMA MaxIs ==
  ASSUME NEW T, T \subseteq Int, NEW x \in T, \A y \in T : x >= y
  PROVE  Max(T) = x
  <1>1. Max(T) \in T /\ \A y \in T : Max(T) >= y
    BY DEF Max
  <1>2. Max(T) >= x /\ x >= Max(T) /\ x \in Int /\ Max(T) \in Int
    BY <1>1
  <1> QED BY <1>2

DigitsDef(q, g) ==
  g = [s \in SUBSET DOMAIN q |-> IF s = {} THEN 0 ELSE 10 * g[s \ {Max(s)}] + q[Max(s)]]
Decimal(q) == (CHOOSE g : DigitsDef(q, g))[DOMAIN q]

LEMMA DecimalIs ==
  ASSUME NEW q \in Seq(Nat), Len(q) \in {1, 2}
  PROVE  Decimal(q) = IF Len(q) = 1 THEN q[1] ELSE 10 * q[1] + q[2]
  <1> DEFINE D == DOMAIN q
             G == [s \in SUBSET D |-> IF s = {} THEN 0 ELSE
                     IF 2 \in s THEN (IF 1 \in s THEN 10 * q[1] + q[2] ELSE q[2]) ELSE q[1]]
             g == CHOOSE h : DigitsDef(q, h)
  <1>1. D = 1 .. Len(q) /\ 1 \in D /\ q[1] \in Nat
    OBVIOUS
  <1>2. Len(q) = 2 => 2 \in D /\ q[2] \in Nat
    BY <1>1
  <1>3. D \subseteq {1, 2} /\ (Len(q) = 1 => D = {1}) /\ (Len(q) = 2 => D = {1, 2})
    BY <1>1
  <1>4. Max({1}) = 1 /\ Max({2}) = 2 /\ Max({1, 2}) = 2
    <2>1. ASSUME NEW T \in {{1}, {2}, {1, 2}}, NEW x \in T, \A y \in T : x >= y
          PROVE  Max(T) = x
      <3>1. T \subseteq Int
        OBVIOUS
      <3> QED BY <2>1, <3>1, MaxIs
    <2> QED BY <2>1
  <1>5. \A s \in SUBSET D : s = {} \/ s = {1} \/ (Len(q) = 2 /\ s \in {{2}, {1, 2}})
    BY <1>3
  <1>6. {1} \ {1} = {} /\ {2} \ {2} = {} /\ {1, 2} \ {2} = {1}
    OBVIOUS
  <1> HIDE DEF D
  <1>7. DigitsDef(q, G)
    <2>1. ASSUME NEW s \in SUBSET D
          PROVE  G[s] = IF s = {} THEN 0 ELSE 10 * G[s \ {Max(s)}] + q[Max(s)]
      <3>1. CASE s = {}
        BY <3>1
      <3>2. CASE s = {1}
        BY <1>1, <1>4, <1>6, <3>2
      <3>3. CASE Len(q) = 2 /\ s = {2}
        BY <1>2, <1>4, <1>6, <3>3
      <3>4. CASE Len(q) = 2 /\ s = {1, 2}
        <4>1. G[{1}] = q[1] /\ G[s] = 10 * q[1] + q[2]
          BY <1>1, <3>4
        <4> HIDE DEF G
        <4> QED BY <1>4, <1>6, <3>4, <4>1
      <3> QED BY <1>5, <3>1, <3>2, <3>3, <3>4
    <2>2. G = [s \in SUBSET D |-> IF s = {} THEN 0 ELSE 10 * G[s \ {Max(s)}] + q[Max(s)]]
      BY <2>1
    <2> HIDE DEF G
    <2> QED BY <2>2 DEF DigitsDef, D
  <1>8. DigitsDef(q, g)
    BY <1>7
  <1> HIDE DEF g, G
  <1>9. \A s \in SUBSET D : g[s] = IF s = {} THEN 0 ELSE 10 * g[s \ {Max(s)}] + q[Max(s)]
    BY <1>8 DEF DigitsDef, D
  <1>10. g[{}] = 0
    BY <1>9
  <1>11. g[{1}] = q[1]
    <2>1. {1} \in SUBSET D
      BY <1>1
    <2>2. g[{1}] = 10 * g[{1} \ {Max({1})}] + q[Max({1})]
      BY <1>9, <2>1
    <2>3. g[{1}] = 10 * 0 + q[1]
      BY <1>4, <1>6, <1>10, <2>2
    <2> QED BY <1>1, <2>3
  <1>12. Len(q) = 2 => g[{1, 2}] = 10 * q[1] + q[2]
    <2> SUFFICES ASSUME Len(q) = 2 PROVE g[{1, 2}] = 10 * q[1] + q[2]
      OBVIOUS
    <2>1. {1, 2} \in SUBSET D
      BY <1>1, <1>2
    <2>2. g[{1, 2}] = 10 * g[{1, 2} \ {Max({1, 2})}] + q[Max({1, 2})]
      BY <1>9, <2>1
    <2> QED BY <1>4, <1>6, <1>11, <2>2
  <1> QED BY <1>3, <1>11, <1>12 DEF Decimal, g, D

LEMMA AtoiIs ==
  ASSUME NEW text, NEW k
  PROVE  Atoi(text, k) =
           LET end == Min({j \in k .. Len(text) + 1 : j > Len(text) \/ ~IsDigit(text[j])})
           IN  Decimal(SubSeq(text, k, end - 1))
  BY DEF Atoi, FoldLeft, MapThenFoldSet, Decimal, DigitsDef

\* A number of m digits starts at place k.
Run(text, k, m) ==
  /\ k + m - 1 <= Len(text)
  /\ \A j \in k .. k + m - 1 : IsDigit(text[j])
  /\ k + m > Len(text) \/ ~IsDigit(text[k + m])

LEMMA AtoiRun ==
  ASSUME NEW text \in Seq(Nat), NEW k \in 1 .. Len(text), NEW m \in {1, 2}, Run(text, k, m)
  PROVE  Atoi(text, k) = IF m = 1 THEN text[k] ELSE 10 * text[k] + text[k + 1]
  <1> DEFINE T == {j \in k .. Len(text) + 1 : j > Len(text) \/ ~IsDigit(text[j])}
             q == SubSeq(text, k, k + m - 1)
  <1>1. k + m \in T /\ T \subseteq Int /\ \A y \in T : k + m <= y
    BY DEF Run
  <1>2. Min(T) = k + m
    <2> HIDE DEF T
    <2> QED BY <1>1, MinIs
  <1>3. Atoi(text, k) = Decimal(SubSeq(text, k, Min(T) - 1))
    BY AtoiIs
  <1>4. Min(T) - 1 = k + m - 1
    BY <1>2
  <1>5. q \in Seq(Nat) /\ Len(q) = m /\ q[1] = text[k] /\ (m = 2 => q[2] = text[k + 1])
    <2>1. k + m - 1 \in 1 .. Len(text) /\ k <= k + m - 1
      BY DEF Run
    <2>2. q \in Seq(Nat)
      BY <2>1
    <2>3. Len(q) = m
      BY <2>1
    <2>4. q[1] = text[k]
      BY <2>1
    <2>5. m = 2 => q[2] = text[k + 1]
      BY <2>1
    <2> QED BY <2>2, <2>3, <2>4, <2>5
  <1>6. Decimal(q) = IF Len(q) = 1 THEN q[1] ELSE 10 * q[1] + q[2]
    <2> HIDE DEF q
    <2> QED BY <1>5, DecimalIs
  <1> HIDE DEF q, T
  <1> QED BY <1>3, <1>4, <1>5, <1>6 DEF q

\* A text in which every number, and the rest of every number, is a CPU's, and
\* numbers stand at the start and after each dash.  Only a wide text has numbers
\* of two digits.
Readable(text, wide) ==
  /\ text \in Seq(Nat) /\ Len(text) > 0 /\ IsDigit(text[1])
  /\ \A k \in 1 .. Len(text) :
       /\ text[k] <= Dash
       /\ text[k] = Dash => k < Len(text) /\ IsDigit(text[k + 1])
       /\ IsDigit(text[k]) =>
            /\ text[k] \in AllCpus
            /\ \/ Run(text, k, 1)
               \/ wide /\ Run(text, k, 2) /\ 10 * text[k] + text[k + 1] \in AllCpus

\* Both tools read a CPU's number wherever they read one.
LEMMA NumberIsCpu ==
  ASSUME NEW tool, NEW text, NEW wide, Readable(text, wide),
         NEW k \in 1 .. Len(text), IsDigit(text[k])
  PROVE  NumberAt(tool, text, k) \in AllCpus
  <1>1. text[k] \in AllCpus
    BY DEF Readable
  <1>2. Atoi(text, k) \in AllCpus
    <2>1. CASE Run(text, k, 1)
      BY <1>1, <2>1, AtoiRun DEF Readable
    <2>2. CASE wide /\ Run(text, k, 2) /\ 10 * text[k] + text[k + 1] \in AllCpus
      BY <2>2, AtoiRun DEF Readable
    <2> QED BY <2>1, <2>2 DEF Readable
  <1> QED BY <1>1, <1>2 DEF NumberAt, OneDigit
LEMMA CharInBounds ==
  ASSUME NEW tool, NEW text, NEW wide, Readable(text, wide),
         NEW k \in 1 .. Len(text), NEW num, NEW st,
         st.list \subseteq AllCpus,
         (k = 1 /\ st = ParseStart) \/ (k # 1 /\ st.previous \in AllCpus)
  PROVE  LET new == ParseChar(tool, text, k, num, st)
         IN  new.list \subseteq AllCpus /\ new.previous \in AllCpus
  <1>1. text[k] \in Nat /\ text[k] <= Dash /\ (k = 1 => IsDigit(text[k]))
    BY DEF Readable
  <1>2. CASE IsDigit(text[k]) /\ ~st.break
    <2> DEFINE cpu == NumberAt(tool, text, k)
    <2>1. cpu \in AllCpus /\ cpu < NumCpus
      BY <1>2, NumberIsCpu, CpuBound DEF AllCpus
    <2>2. text[k] # Comma /\ text[k] # Dash
      BY <1>1, <1>2 DEF IsDigit, Comma, Dash
    <2>3. ParseChar(tool, text, k, num, st)
            = [list |-> st.list \cup {cpu}, previous |-> cpu,
               seen |-> st.seen + Cardinality({cpu}),
               break |-> st.seen + Cardinality({cpu}) >= num]
      <3> HIDE DEF cpu
      <3> QED BY <1>2, <2>1, <2>2 DEF ParseChar, cpu
    <2> QED BY <2>1, <2>3
  <1>3. CASE text[k] = Dash /\ ~st.break
    <2> DEFINE next == NumberAt(tool, text, k + 1)
               S == Gap(st.previous, next)
    <2>1. ~IsDigit(text[k]) /\ text[k] # Comma
      BY <1>3 DEF IsDigit, Comma, Dash
    <2>2. st.previous \in AllCpus
      BY <1>1, <2>1
    <2>3. k + 1 \in 1 .. Len(text) /\ IsDigit(text[k + 1])
      BY <1>3 DEF Readable
    <2>4. next \in AllCpus
      BY <2>3, NumberIsCpu
    <2> HIDE DEF next
    <2>5. S \subseteq AllCpus
      BY <2>2, <2>4, CpuBound DEF Gap, AllCpus
    <2>6. ParseChar(tool, text, k, num, st)
            = [list |-> st.list \cup S, previous |-> next,
               seen |-> st.seen + Cardinality(S), break |-> st.seen + Cardinality(S) >= num]
      <3> HIDE DEF S
      <3> QED BY <1>3, <2>1 DEF ParseChar, S, next
    <2> HIDE DEF S
    <2> QED BY <2>4, <2>5, <2>6
  <1>4. CASE st.break \/ text[k] = Comma
    <2>1. k # 1
      BY <1>1, <1>4 DEF ParseStart, IsDigit, Comma
    <2>2. ParseChar(tool, text, k, num, st) = st
      BY <1>4, <1>1 DEF ParseChar, IsDigit, Comma, Dash
    <2> QED BY <2>1, <2>2
  <1>5. IsDigit(text[k]) \/ text[k] = Comma \/ text[k] = Dash
    BY <1>1 DEF IsDigit, Comma, Dash
  <1> QED BY <1>2, <1>3, <1>4, <1>5

\* The loop stays inside the array of CPUs.
LEMMA ParseInBounds ==
  ASSUME NEW tool, NEW text, NEW wide, Readable(text, wide), NEW num
  PROVE  LET st == Parse(tool, text, num)
         IN  st.list \subseteq AllCpus /\ st.previous \in AllCpus
  <1> DEFINE A(k) == After(tool, text, num, k)
             P(k) == A(k).list \subseteq AllCpus /\ A(k).previous \in AllCpus
             B == {k \in 1 .. Len(text) : ~P(k)}
  <1>1. Len(text) \in Nat /\ Len(text) > 0 /\ text \in Seq(Nat)
    BY DEF Readable
  <1>2. A(0) = ParseStart /\ \A k \in Nat : k # 0 => A(k) = ParseChar(tool, text, k, num, A(k - 1))
    BY LoopStep
  <1> HIDE DEF A
  <1>3. B = {}
    <2> SUFFICES ASSUME B # {} PROVE FALSE
      OBVIOUS
    <2>1. PICK k \in B : \A y \in B : k <= y
      <3>1. B \subseteq Nat
        BY <1>1
      <3> HIDE DEF B
      <3> QED BY <3>1, LeastNumber
    <2>2. k \in 1 .. Len(text) /\ ~P(k)
      OBVIOUS
    <2>3. A(k - 1).list \subseteq AllCpus
          /\ ((k = 1 /\ A(k - 1) = ParseStart) \/ (k # 1 /\ A(k - 1).previous \in AllCpus))
      <3>1. CASE k = 1
        BY <1>2, <3>1 DEF ParseStart
      <3>2. CASE k # 1
        <4>1. k - 1 \in 1 .. Len(text) /\ ~(k <= k - 1)
          BY <1>1, <2>2, <3>2
        <4>2. P(k - 1)
          BY <2>1, <4>1
        <4> QED BY <3>2, <4>2
      <3> QED BY <3>1, <3>2
    <2>4. A(k) = ParseChar(tool, text, k, num, A(k - 1))
      BY <1>1, <1>2, <2>2
    <2>5. P(k)
      BY <2>2, <2>3, <2>4, CharInBounds
    <2> QED BY <2>2, <2>5
  <1>4. Parse(tool, text, num) = A(Len(text))
    BY <1>1, ParseIsLoop DEF A, After
  <1>5. Len(text) \in 1 .. Len(text)
    BY <1>1
  <1>6. P(Len(text))
    BY <1>3, <1>5
  <1> QED BY <1>4, <1>6

-----------------------------------------------------------------------------
(* The kernel's text.                                                      *)

Glued(u, c, v) == (u \o <<c>>) \o v

LEMMA GluedIs ==
  ASSUME NEW u \in Seq(Nat), NEW c \in Nat, NEW v \in Seq(Nat)
  PROVE  LET t == Glued(u, c, v)
         IN  /\ t \in Seq(Nat) /\ Len(t) = Len(u) + 1 + Len(v)
             /\ Len(u) \in Nat /\ Len(v) \in Nat
             /\ \A k \in 1 .. Len(u) : t[k] = u[k]
             /\ t[Len(u) + 1] = c
             /\ \A k \in 1 .. Len(v) : t[Len(u) + 1 + k] = v[k]
  <1> DEFINE w == u \o <<c>>
  <1>1. <<c>> \in Seq(Nat) /\ Len(<<c>>) = 1
    OBVIOUS
  <1>2. /\ w \in Seq(Nat) /\ Len(w) = Len(u) + 1 /\ Len(u) \in Nat /\ Len(v) \in Nat
        /\ \A k \in 1 .. Len(u) : w[k] = u[k]
        /\ w[Len(u) + 1] = c
    BY <1>1, ConcatProperties
  <1> HIDE DEF w
  <1> DEFINE t == w \o v
  <1>3. /\ t \in Seq(Nat) /\ Len(t) = Len(w) + Len(v)
        /\ \A i \in 1 .. Len(w) + Len(v) : t[i] = IF i <= Len(w) THEN w[i] ELSE v[i - Len(w)]
    BY <1>2, ConcatProperties
  <1> HIDE DEF t
  <1>4. \A k \in 1 .. Len(u) : t[k] = u[k]
    BY <1>2, <1>3
  <1>5. t[Len(u) + 1] = c
    BY <1>2, <1>3
  <1>6. ASSUME NEW k \in 1 .. Len(v) PROVE t[Len(u) + 1 + k] = v[k]
    <2>1. Len(u) + 1 + k \in 1 .. Len(w) + Len(v) /\ ~(Len(u) + 1 + k <= Len(w))
      BY <1>2
    <2>2. Len(u) + 1 + k - Len(w) = k
      BY <1>2
    <2>3. t[Len(u) + 1 + k] = v[Len(u) + 1 + k - Len(w)]
      BY <1>3, <2>1
    <2> QED BY <2>2, <2>3
  <1> QED BY <1>2, <1>3, <1>4, <1>5, <1>6 DEF Glued, t, w

LEMMA GluedReadable ==
  ASSUME NEW u, NEW v, NEW wide, NEW c \in {Comma, Dash}, Readable(u, wide), Readable(v, wide)
  PROVE  Readable(Glued(u, c, v), wide)
  <1> DEFINE t == Glued(u, c, v)
             n == Len(u)
             m == Len(v)
  <1>1. u \in Seq(Nat) /\ v \in Seq(Nat) /\ c \in Nat /\ n > 0 /\ m > 0
        /\ ~IsDigit(c) /\ c <= Dash
    BY DEF Readable, Comma, Dash, IsDigit
  <1>2. /\ t \in Seq(Nat) /\ Len(t) = n + 1 + m
        /\ n \in Nat /\ m \in Nat
        /\ \A k \in 1 .. n : t[k] = u[k]
        /\ t[n + 1] = c
        /\ \A k \in 1 .. m : t[n + 1 + k] = v[k]
    <2>1. t \in Seq(Nat) /\ Len(t) = n + 1 + m /\ n \in Nat /\ m \in Nat
      BY <1>1, GluedIs
    <2>2. \A k \in 1 .. n : t[k] = u[k]
      BY <1>1, GluedIs
    <2>3. t[n + 1] = c
      BY <1>1, GluedIs
    <2>4. \A k \in 1 .. m : t[n + 1 + k] = v[k]
      BY <1>1, GluedIs
    <2> QED BY <2>1, <2>2, <2>3, <2>4
  <1> HIDE DEF t, n, m
  <1>3. Len(t) > 0 /\ t[1] = u[1]
    BY <1>1, <1>2
  <1>4. IsDigit(t[1]) /\ IsDigit(t[n + 1 + 1])
    <2>1. 1 \in 1 .. m
      BY <1>1, <1>2
    <2>2. t[n + 1 + 1] = v[1]
      BY <1>2, <2>1
    <2> QED BY <1>3, <2>2 DEF Readable
  <1>5. ASSUME NEW k \in 1 .. n, NEW j \in {1, 2}, Run(u, k, j)
        PROVE  Run(t, k, j) /\ (j = 2 => t[k + 1] = u[k + 1])
    <2>1. k + j - 1 <= n /\ \A i \in k .. k + j - 1 : i \in 1 .. n /\ IsDigit(u[i])
      BY <1>2, <1>5 DEF Run, n
    <2>2. k + j - 1 <= Len(t) /\ \A i \in k .. k + j - 1 : IsDigit(t[i])
      BY <1>2, <2>1
    <2>3. k + j = n + 1 \/ (k + j \in 1 .. n /\ ~IsDigit(u[k + j]))
      BY <1>2, <1>5, <2>1 DEF Run, n
    <2>4. ~IsDigit(t[k + j])
      BY <1>1, <1>2, <2>3
    <2>5. j = 2 => k + 1 \in 1 .. n
      BY <1>2, <2>1
    <2> QED BY <1>2, <2>2, <2>4, <2>5 DEF Run
  <1>6. ASSUME NEW k \in 1 .. m, NEW j \in {1, 2}, Run(v, k, j)
        PROVE  Run(t, n + 1 + k, j) /\ (j = 2 => t[n + 1 + k + 1] = v[k + 1])
    <2>0. n \in Nat /\ m \in Nat
      BY <1>2
    <2>1. k + j - 1 <= m /\ \A i \in k .. k + j - 1 : i \in 1 .. m /\ IsDigit(v[i])
      <3>1. k + j - 1 <= m /\ \A i \in k .. k + j - 1 : IsDigit(v[i])
        BY <1>6 DEF Run, m
      <3>2. \A i \in k .. k + j - 1 : i \in 1 .. m
        BY <2>0, <3>1
      <3> QED BY <3>1, <3>2
    <2>2. ASSUME NEW i \in n + 1 + k .. n + 1 + k + j - 1 PROVE IsDigit(t[i])
      <3> DEFINE h == i - n - 1
      <3>1. h \in k .. k + j - 1 /\ i = n + 1 + h
        BY <2>0
      <3> HIDE DEF h
      <3>2. h \in 1 .. m /\ IsDigit(v[h])
        BY <2>1, <3>1
      <3>3. t[n + 1 + h] = v[h]
        BY <1>2, <3>2
      <3> QED BY <3>1, <3>2, <3>3
    <2>3. k + j = m + 1 \/ (k + j \in 1 .. m /\ ~IsDigit(v[k + j]))
      <3>1. k + j - 1 <= m /\ (k + j > m \/ ~IsDigit(v[k + j]))
        BY <1>6 DEF Run, m
      <3> QED BY <2>0, <3>1
    <2>4. n + 1 + k + j > Len(t) \/ ~IsDigit(t[n + 1 + k + j])
      <3>1. n + 1 + k + j = n + 1 + (k + j)
        BY <1>2
      <3> QED BY <1>2, <2>3, <3>1
    <2>5. j = 2 => k + 1 \in 1 .. m /\ n + 1 + k + 1 = n + 1 + (k + 1)
      <3>1. k + j - 1 <= m
        BY <2>1
      <3> QED BY <2>0, <3>1
    <2>6. n + 1 + k + j - 1 <= Len(t)
      <3>1. k + j - 1 <= m /\ Len(t) = n + 1 + m
        BY <1>2, <2>1
      <3> QED BY <2>0, <3>1
    <2> QED BY <1>2, <2>2, <2>4, <2>5, <2>6 DEF Run
  <1>7. ASSUME NEW k \in 1 .. Len(t)
        PROVE  /\ t[k] <= Dash
               /\ t[k] = Dash => k < Len(t) /\ IsDigit(t[k + 1])
               /\ IsDigit(t[k]) =>
                    /\ t[k] \in AllCpus
                    /\ \/ Run(t, k, 1)
                       \/ wide /\ Run(t, k, 2) /\ 10 * t[k] + t[k + 1] \in AllCpus
    <2>1. CASE k \in 1 .. n
      <3>1. /\ u[k] <= Dash
            /\ u[k] = Dash => k + 1 \in 1 .. n /\ IsDigit(u[k + 1])
            /\ IsDigit(u[k]) =>
                    /\ u[k] \in AllCpus
                    /\ \/ Run(u, k, 1)
                       \/ wide /\ Run(u, k, 2) /\ 10 * u[k] + u[k + 1] \in AllCpus
        BY <1>2, <2>1 DEF Readable, n
      <3>2. t[k] = u[k] /\ k < Len(t) /\ (k + 1 \in 1 .. n => t[k + 1] = u[k + 1])
        BY <1>2, <2>1
      <3>3. CASE IsDigit(u[k])
        BY <1>5, <2>1, <3>1, <3>2, <3>3 DEF IsDigit, Dash
      <3> QED BY <3>1, <3>2, <3>3
    <2>2. CASE k = n + 1
      BY <1>1, <1>2, <1>4, <2>2
    <2>3. CASE k > n + 1
      <3> DEFINE i == k - n - 1
      <3>0. i \in 1 .. m /\ k = n + 1 + i /\ k + 1 = n + 1 + (i + 1) /\ k + 1 = n + 1 + i + 1
        BY <1>2, <2>3
      <3> HIDE DEF i
      <3>1. /\ v[i] <= Dash
            /\ v[i] = Dash => i + 1 \in 1 .. m /\ IsDigit(v[i + 1])
            /\ IsDigit(v[i]) =>
                    /\ v[i] \in AllCpus
                    /\ \/ Run(v, i, 1)
                       \/ wide /\ Run(v, i, 2) /\ 10 * v[i] + v[i + 1] \in AllCpus
        BY <1>2, <3>0 DEF Readable, m
      <3>2. t[k] = v[i] /\ (i + 1 \in 1 .. m => t[k + 1] = v[i + 1] /\ k < Len(t))
        <4>1. t[k] = v[i]
          BY <1>2, <3>0
        <4>2. i + 1 \in 1 .. m => t[k + 1] = v[i + 1]
          BY <1>2, <3>0
        <4>3. i + 1 \in 1 .. m => k < Len(t)
          BY <1>2, <3>0
        <4> QED BY <4>1, <4>2, <4>3
      <3>3. CASE IsDigit(v[i])
        <4>1. Run(v, i, 1) => Run(t, k, 1)
          BY <1>6, <3>0
        <4>2. Run(v, i, 2) => Run(t, k, 2) /\ t[k + 1] = v[i + 1]
          BY <1>6, <3>0
        <4> QED BY <3>1, <3>2, <3>3, <4>1, <4>2 DEF IsDigit, Dash
      <3> QED BY <3>1, <3>2, <3>3
    <2> QED BY <1>2, <2>1, <2>2, <2>3
  <1> QED BY <1>2, <1>3, <1>4, <1>7 DEF Readable, t

LEMMA DigitsReadable ==
  ASSUME NEW c \in AllCpus, NEW wide, wide \/ c < 10
  PROVE  Readable(Digits(c), wide)
  <1>1. c \in Nat /\ c < NumCpus /\ c < 100
    BY CpuBound DEF AllCpus
  <1>2. CASE c < 10
    BY <1>1, <1>2 DEF Digits, Readable, Run, IsDigit, Dash
  <1>3. CASE c >= 10 /\ wide
    <2> DEFINE d == c \div 10
               e == c % 10
    <2>1. d \in Nat /\ e \in Nat /\ d < 10 /\ e < 10 /\ c = 10 * d + e
      BY <1>1
    <2> HIDE DEF d, e
    <2>2. d \in AllCpus /\ e \in AllCpus
      BY <1>1, <1>3, <2>1, CpuBound DEF AllCpus
    <2>3. Digits(c) = <<d, e>>
      BY <1>1, <1>3 DEF Digits, d, e
    <2> DEFINE t == <<d, e>>
    <2>4. t \in Seq(Nat) /\ Len(t) = 2 /\ t[1] = d /\ t[2] = e
      BY <2>1
    <2> HIDE DEF t
    <2>5. Run(t, 1, 2) /\ Run(t, 2, 1)
      <3>1. \A j \in 1 .. 1 + 2 - 1 : j = 1 \/ j = 2
        OBVIOUS
      <3>2. \A j \in 2 .. 2 + 1 - 1 : j = 2
        OBVIOUS
      <3> QED BY <2>1, <2>4, <3>1, <3>2 DEF Run, IsDigit
    <2>6. \A k \in 1 .. Len(t) : k = 1 \/ k = 2
      BY <2>4
    <2>7. ASSUME NEW k \in 1 .. Len(t)
          PROVE  /\ t[k] <= Dash
                 /\ t[k] # Dash
                 /\ t[k] \in AllCpus
                 /\ \/ Run(t, k, 1)
                    \/ wide /\ Run(t, k, 2) /\ 10 * t[k] + t[k + 1] \in AllCpus
      <3>1. CASE k = 1
        BY <1>3, <2>1, <2>2, <2>4, <2>5, <3>1 DEF Dash
      <3>2. CASE k = 2
        BY <2>1, <2>2, <2>4, <2>5, <3>2 DEF Dash
      <3> QED BY <2>6, <3>1, <3>2
    <2>8. IsDigit(t[1])
      BY <2>1, <2>4 DEF IsDigit
    <2>9. Readable(t, wide)
      BY <2>4, <2>7, <2>8 DEF Readable
    <2> QED BY <2>3, <2>9 DEF t
  <1> QED BY <1>1, <1>2, <1>3
RangeStart(online, b) == Min({c \in 0 .. b : c .. b \subseteq online})

LEMMA RangeStartIs ==
  ASSUME NEW online \in SUBSET AllCpus, NEW b \in online
  PROVE  LET a == RangeStart(online, b)
         IN  /\ a \in Nat /\ a <= b /\ a .. b \subseteq online
             /\ a # 0 => a - 1 \notin online
  <1> DEFINE T == {c \in 0 .. b : c .. b \subseteq online}
  <1>1. b \in Nat
    BY CpuBound DEF AllCpus
  <1>2. T \subseteq Nat /\ b \in T
    BY <1>1
  <1>3. PICK a \in T : \A y \in T : a <= y
    <2> HIDE DEF T
    <2> QED BY <1>2, LeastNumber
  <1>4. RangeStart(online, b) = a
    <2>1. T \subseteq Int
      BY <1>2
    <2> HIDE DEF T
    <2> QED BY <1>3, <2>1, MinIs DEF RangeStart, T
  <1>5. a \in Nat /\ a <= b /\ a .. b \subseteq online
    BY <1>1
  <1>6. ASSUME a # 0, a - 1 \in online PROVE FALSE
    <2>1. a - 1 \in 0 .. b /\ a - 1 .. b \subseteq online
      BY <1>1, <1>5, <1>6
    <2>2. a <= a - 1
      BY <1>3, <2>1
    <2> QED BY <1>5, <2>2
  <1> QED BY <1>4, <1>5, <1>6

\* The CPUs of the ranges that end before CPU n.
Closed(online, n) == {c \in online : \E e \in c .. n - 1 : e + 1 \notin online}

LEMMA ClosedEnds ==
  ASSUME NEW online \in SUBSET AllCpus
  PROVE  Closed(online, 0) = {} /\ Closed(online, NumCpus) = online
  <1>1. \A c \in online : c \in Nat /\ c <= NumCpus - 1
    BY CpuBound DEF AllCpus
  <1>2. NumCpus - 1 + 1 \notin online
    BY CpuBound, <1>1
  <1>3. ASSUME NEW c \in online PROVE NumCpus - 1 \in c .. NumCpus - 1
    BY CpuBound, <1>1
  <1>4. Closed(online, NumCpus) = online
    BY <1>2, <1>3 DEF Closed
  <1> QED BY <1>1, <1>4 DEF Closed

LEMMA ClosedStep ==
  ASSUME NEW online \in SUBSET AllCpus, NEW n \in 1 .. NumCpus
  PROVE  LET a == RangeStart(online, n - 1)
         IN  IF n - 1 \in online /\ n - 1 + 1 \notin online
             THEN /\ Closed(online, n) = Closed(online, n - 1) \cup (a .. n - 1)
                  /\ \A c \in Closed(online, n - 1) : c < a
             ELSE Closed(online, n) = Closed(online, n - 1)
  <1>0. n \in Nat /\ n - 1 + 1 = n /\ \A c \in online : c \in Nat
    BY CpuBound DEF AllCpus
  <1>1. CASE n - 1 \in online /\ n \notin online
    <2> DEFINE a == RangeStart(online, n - 1)
    <2>1. /\ a \in Nat /\ a <= n - 1 /\ a .. n - 1 \subseteq online
          /\ a # 0 => a - 1 \notin online
      BY <1>1, RangeStartIs
    <2> HIDE DEF a
    <2>2. ASSUME NEW c \in Closed(online, n - 1) PROVE c < a /\ c \in Closed(online, n)
      <3>1. c \in online /\ c \in Nat
        BY <1>0 DEF Closed
      <3>2. PICK e \in c .. n - 1 - 1 : e + 1 \notin online
        BY DEF Closed
      <3>3. e \in c .. n - 1
        BY <1>0, <3>1
      <3>4. ~(e + 1 \in a .. n - 1)
        BY <2>1, <3>2
      <3>5. c < a
        BY <1>0, <2>1, <3>1, <3>3, <3>4
      <3> QED BY <3>1, <3>2, <3>3, <3>5 DEF Closed
    <2>3. ASSUME NEW c \in a .. n - 1 PROVE c \in Closed(online, n)
      <3>1. n - 1 \in c .. n - 1 /\ n - 1 + 1 \notin online /\ c \in online
        BY <1>0, <1>1, <2>1
      <3> QED BY <3>1 DEF Closed
    <2>4. ASSUME NEW c \in Closed(online, n), c \notin a .. n - 1
          PROVE  c \in Closed(online, n - 1)
      <3>1. c \in online /\ c \in Nat /\ c <= n - 1
        <4>1. PICK e \in c .. n - 1 : TRUE
          BY DEF Closed
        <4>2. c \in online /\ c \in Nat
          BY <1>0 DEF Closed
        <4> QED BY <1>0, <4>1, <4>2
      <3>2. c < a /\ a # 0 /\ c # a - 1
        BY <1>0, <2>1, <2>4, <3>1
      <3>3. a - 2 \in c .. n - 1 - 1 /\ a - 2 + 1 = a - 1
        BY <1>0, <2>1, <3>1, <3>2
      <3>4. a - 2 + 1 \notin online
        BY <2>1, <3>2, <3>3
      <3> QED BY <3>1, <3>3, <3>4 DEF Closed
    <2> QED BY <1>0, <1>1, <2>2, <2>3, <2>4 DEF a
  <1>2. CASE ~(n - 1 \in online /\ n \notin online)
    <2>1. ASSUME NEW c \in Closed(online, n - 1) PROVE c \in Closed(online, n)
      <3>1. c \in online /\ c \in Nat
        BY <1>0 DEF Closed
      <3>2. PICK e \in c .. n - 1 - 1 : e + 1 \notin online
        BY DEF Closed
      <3>3. e \in c .. n - 1
        BY <1>0, <3>1
      <3> QED BY <3>1, <3>2, <3>3 DEF Closed
    <2>2. ASSUME NEW c \in Closed(online, n) PROVE c \in Closed(online, n - 1)
      <3>1. c \in online /\ c \in Nat
        BY <1>0 DEF Closed
      <3>2. PICK e \in c .. n - 1 : e + 1 \notin online
        BY DEF Closed
      <3>3. CASE e <= n - 1 - 1
        <4>1. e \in c .. n - 1 - 1
          BY <1>0, <3>1, <3>3
        <4> QED BY <3>1, <3>2, <4>1 DEF Closed
      <3>4. CASE ~(e <= n - 1 - 1)
        <4>1. e = n - 1
          BY <1>0, <3>1, <3>4
        <4>2. n - 1 \notin online
          BY <1>0, <1>2, <3>2, <4>1
        <4>3. c # n - 1
          BY <3>1, <4>2
        <4>4. n - 2 \in c .. n - 1 - 1 /\ n - 2 + 1 = n - 1
          BY <1>0, <3>1, <4>1, <4>3
        <4> QED BY <3>1, <4>2, <4>4 DEF Closed
      <3> QED BY <3>3, <3>4
    <2>3. Closed(online, n) = Closed(online, n - 1)
      BY <2>1, <2>2
    <2> QED BY <1>0, <1>2, <2>3
  <1> QED BY <1>1, <1>2

LEMMA RangeReadable ==
  ASSUME NEW online \in SUBSET AllCpus, NEW b \in online, NEW wide, wide \/ online \subseteq 0 .. 9
  PROVE  LET a == RangeStart(online, b)
         IN  /\ RangeText(online, b) = IF a = b THEN Digits(a) ELSE Glued(Digits(a), Dash, Digits(b))
             /\ Readable(RangeText(online, b), wide)
  <1> DEFINE a == RangeStart(online, b)
  <1>1. a \in Nat /\ b \in Nat /\ a <= b /\ a .. b \subseteq online
    BY RangeStartIs, CpuBound DEF AllCpus
  <1>2. a \in online
    BY <1>1
  <1>3. RangeText(online, b) = IF a = b THEN Digits(a) ELSE Glued(Digits(a), Dash, Digits(b))
    BY DEF RangeText, RangeStart, Glued
  <1> HIDE DEF a
  <1>4. \A c \in online : Readable(Digits(c), wide)
    <2> SUFFICES ASSUME NEW c \in online PROVE Readable(Digits(c), wide)
      OBVIOUS
    <2>1. wide \/ c < 10
      OBVIOUS
    <2> QED BY <2>1, DigitsReadable
  <1>5. Readable(Glued(Digits(a), Dash, Digits(b)), wide)
    BY <1>2, <1>4, GluedReadable
  <1> QED BY <1>2, <1>3, <1>4, <1>5 DEF a

LEMMA WithRangeIs ==
  ASSUME NEW online \in SUBSET AllCpus, NEW b \in online, b + 1 \notin online, NEW text
  PROVE  WithRange(online, text, b)
           = IF text = <<>> THEN RangeText(online, b) ELSE Glued(text, Comma, RangeText(online, b))
  <1>1. RangeText(online, b) \in Seq(Nat)
    BY RangeReadable, TRUE DEF Readable
  <1>2. <<>> \o RangeText(online, b) = RangeText(online, b)
    BY <1>1
  <1> QED BY <1>2 DEF WithRange, Glued

LEMMA TextReadable ==
  ASSUME NEW online \in SUBSET AllCpus, NEW wide, wide \/ online \subseteq 0 .. 9,
         NEW n \in 0 .. NumCpus
  PROVE  IF Closed(online, n) = {} THEN TextFun(online)[n] = <<>>
                                   ELSE Readable(TextFun(online)[n], wide)
  <1> DEFINE t == TextFun(online)
             P(m) == IF Closed(online, m) = {} THEN t[m] = <<>> ELSE Readable(t[m], wide)
             B == {m \in 0 .. NumCpus : ~P(m)}
  <1> SUFFICES ASSUME B # {} PROVE FALSE
    OBVIOUS
  <1>1. PICK m \in B : \A y \in B : m <= y
    <2>1. B \subseteq Nat
      BY CpuBound
    <2> HIDE DEF B
    <2> QED BY <2>1, LeastNumber
  <1>2. m \in 0 .. NumCpus /\ ~P(m)
    OBVIOUS
  <1>3. m # 0
    BY <1>2, TextStep, ClosedEnds
  <1>4. m \in 1 .. NumCpus /\ m - 1 \in 0 .. NumCpus /\ ~(m <= m - 1)
    BY <1>2, <1>3, CpuBound
  <1>5. P(m - 1)
    BY <1>1, <1>4
  <1>6. t[m] = WithRange(online, t[m - 1], m - 1)
    BY <1>4, TextStep
  <1> DEFINE b == m - 1
             a == RangeStart(online, b)
  <1>7. CASE b \in online /\ b + 1 \notin online
    <2> DEFINE r == RangeText(online, b)
    <2>1. Readable(r, wide)
      BY <1>7, RangeReadable
    <2>2. t[m] = IF t[b] = <<>> THEN r ELSE Glued(t[b], Comma, r)
      BY <1>6, <1>7, WithRangeIs
    <2>3. Closed(online, m) # {}
      <3>1. a \in Nat /\ a <= b /\ b \in Nat
        BY <1>4, <1>7, RangeStartIs
      <3>2. Closed(online, m) = Closed(online, b) \cup (a .. b)
        BY <1>4, <1>7, ClosedStep
      <3> QED BY <3>1, <3>2
    <2>4. t[b] = <<>> \/ Readable(t[b], wide)
      BY <1>5
    <2>5. Readable(t[m], wide)
      <3> HIDE DEF t, b, r
      <3> QED BY <2>1, <2>2, <2>4, GluedReadable
    <2> QED BY <1>2, <2>3, <2>5
  <1>8. CASE ~(b \in online /\ b + 1 \notin online)
    <2>1. t[m] = t[b]
      BY <1>6, <1>8 DEF WithRange
    <2>2. Closed(online, m) = Closed(online, b)
      BY <1>4, <1>8, ClosedStep
    <2> QED BY <1>2, <1>5, <2>1, <2>2
  <1> QED BY <1>7, <1>8
LEMMA TextIsSeq ==
  ASSUME NEW online \in SUBSET AllCpus, NEW n \in 0 .. NumCpus
  PROVE  TextFun(online)[n] \in Seq(Nat)
  <1>1. TextFun(online)[n] = <<>> \/ Readable(TextFun(online)[n], TRUE)
    BY TextReadable
  <1>2. <<>> \in Seq(Nat)
    OBVIOUS
  <1>3. Readable(TextFun(online)[n], TRUE) => TextFun(online)[n] \in Seq(Nat)
    BY DEF Readable
  <1> QED BY <1>1, <1>2, <1>3

Starts(t, text) ==
  Len(t) <= Len(text) /\ \A k \in 1 .. Len(t) : text[k] = t[k]

LEMMA StartsOn ==
  ASSUME NEW r \in Seq(Nat), NEW s \in Seq(Nat), NEW t \in Seq(Nat), Starts(r, s), Starts(s, t)
  PROVE  Starts(r, t)
  <1>1. Len(r) \in Nat /\ Len(s) \in Nat /\ Len(t) \in Nat
    OBVIOUS
  <1>2. Len(r) <= Len(s) /\ Len(s) <= Len(t)
    BY DEF Starts
  <1>3. \A k \in 1 .. Len(r) : k \in 1 .. Len(s)
    BY <1>1, <1>2
  <1>4. \A k \in 1 .. Len(r) : t[k] = r[k]
    BY <1>3 DEF Starts
  <1> QED BY <1>1, <1>2, <1>4 DEF Starts

LEMMA GluedStarts ==
  ASSUME NEW u \in Seq(Nat), NEW c \in Nat, NEW v \in Seq(Nat)
  PROVE  Starts(u, Glued(u, c, v))
  <1> DEFINE t == Glued(u, c, v)
  <1>1. Len(t) = Len(u) + 1 + Len(v) /\ Len(u) \in Nat /\ Len(v) \in Nat
    BY GluedIs
  <1>2. \A k \in 1 .. Len(u) : t[k] = u[k]
    BY GluedIs
  <1> HIDE DEF t
  <1>3. Starts(u, t)
    BY <1>1, <1>2 DEF Starts
  <1> QED BY <1>3 DEF t

LEMMA GluedPair ==
  ASSUME NEW a \in Nat, NEW c \in Nat, NEW b \in Nat
  PROVE  LET r == Glued(<<a>>, c, <<b>>)
         IN  Len(r) = 3 /\ r[1] = a /\ r[2] = c /\ r[3] = b
  BY DEF Glued

\* The text only grows.
LEMMA TextGrows ==
  ASSUME NEW online \in SUBSET AllCpus, NEW n \in 0 .. NumCpus
  PROVE  Starts(TextFun(online)[n], OnlineText(online))
  <1> DEFINE t == TextFun(online)
             text == OnlineText(online)
             B == {d \in 0 .. NumCpus : ~Starts(t[NumCpus - d], text)}
  <1>0. text = t[NumCpus] /\ NumCpus \in 0 .. NumCpus /\ text \in Seq(Nat)
    BY TextIsFun, TextIsSeq, CpuBound
  <1>1. B = {}
    <2> SUFFICES ASSUME B # {} PROVE FALSE
      OBVIOUS
    <2>1. PICK d \in B : \A y \in B : d <= y
      <3>1. B \subseteq Nat
        BY CpuBound
      <3> HIDE DEF B
      <3> QED BY <3>1, LeastNumber
    <2>2. d \in 0 .. NumCpus /\ ~Starts(t[NumCpus - d], text)
      OBVIOUS
    <2>3. d # 0
      <3>1. Starts(text, text)
        BY <1>0 DEF Starts
      <3> QED BY <1>0, <2>2, <3>1, CpuBound
    <2> DEFINE m == NumCpus - d
    <2>4. m \in 0 .. NumCpus /\ m + 1 \in 1 .. NumCpus /\ m + 1 = NumCpus - (d - 1)
          /\ m + 1 - 1 = m /\ d - 1 \in 0 .. NumCpus /\ ~(d <= d - 1)
      BY <2>2, <2>3, CpuBound
    <2>5. Starts(t[m + 1], text)
      BY <2>1, <2>4
    <2>6. t[m + 1] = WithRange(online, t[m], m)
      BY <2>4, TextStep
    <2>7. t[m] \in Seq(Nat)
      BY <2>4, TextIsSeq
    <2> HIDE DEF m, t, text
    <2>8. Starts(t[m], t[m + 1])
      <3>1. CASE m \in online /\ m + 1 \notin online
        <4> DEFINE r == RangeText(online, m)
        <4>1. r \in Seq(Nat)
          BY <3>1, RangeReadable, TRUE DEF Readable
        <4>2. CASE t[m] = <<>>
          BY <2>4, <2>6, <3>1, <4>1, <4>2, WithRangeIs DEF Starts
        <4>3. CASE t[m] # <<>>
          <5>1. t[m + 1] = Glued(t[m], Comma, r)
            BY <2>6, <3>1, <4>3, WithRangeIs
          <5>2. Comma \in Nat
            BY DEF Comma
          <5> HIDE DEF r
          <5> QED BY <2>7, <4>1, <5>1, <5>2, GluedStarts
        <4> QED BY <4>2, <4>3
      <3>2. CASE ~(m \in online /\ m + 1 \notin online)
        <4>1. t[m + 1] = t[m]
          BY <2>6, <3>2 DEF WithRange
        <4> QED BY <2>7, <4>1 DEF Starts
      <3> QED BY <3>1, <3>2
    <2>9. Starts(t[m], text)
      <3>1. t[m + 1] \in Seq(Nat)
        BY <2>4, TextIsSeq DEF t
      <3> HIDE DEF t
      <3> QED BY <1>0, <2>5, <2>7, <2>8, <3>1, StartsOn
    <2> QED BY <2>2, <2>9 DEF m
  <1>2. NumCpus - n \in 0 .. NumCpus /\ NumCpus - (NumCpus - n) = n
    BY CpuBound
  <1>3. Starts(t[NumCpus - (NumCpus - n)], text)
    BY <1>1, <1>2
  <1> QED BY <1>2, <1>3

-----------------------------------------------------------------------------
(* Texts with numbers of one digit are read as they are meant.             *)

\* The loop has marked X, counted it, and goes on unless X is all.
Marks(online, st, X, p) ==
  /\ st.list = X /\ st.previous = p /\ st.seen = Cardinality(X)
  /\ X # online => ~st.break

LEMMA MarkKeeps ==
  ASSUME NEW online \in SUBSET AllCpus, NEW X \in SUBSET online, NEW S \in SUBSET online,
         S \cap X = {}, NEW st, NEW p, NEW cpu, Marks(online, st, X, p)
  PROVE  Marks(online, [list |-> st.list \cup S, previous |-> cpu,
                        seen |-> st.seen + Cardinality(S),
                        break |-> st.seen + Cardinality(S) >= Cardinality(online)],
               X \cup S, cpu)
  <1>1. IsFiniteSet(online)
    <2>1. IsFiniteSet(AllCpus)
      BY FS_Interval, CpuBound DEF AllCpus
    <2> QED BY <2>1, FS_Subset
  <1>2. IsFiniteSet(X) /\ IsFiniteSet(S) /\ IsFiniteSet(X \cup S)
    BY <1>1, FS_Subset
  <1>3. /\ Cardinality(X) \in Nat /\ Cardinality(S) \in Nat /\ Cardinality(online) \in Nat
        /\ Cardinality(X \cup S) \in Nat
    BY <1>1, <1>2, FS_CardinalityType
  <1>4. Cardinality(X \cup S) = Cardinality(X) + Cardinality(S)
    <2>1. Cardinality(X \cup S) = Cardinality(X) + Cardinality(S) - Cardinality(X \cap S)
      BY <1>2, FS_Union
    <2>2. X \cap S = {}
      OBVIOUS
    <2>3. Cardinality(X \cap S) = 0
      BY <2>2, FS_EmptySet
    <2> QED BY <1>3, <2>1, <2>3
  <1>5. X \cup S # online => ~(Cardinality(X \cup S) >= Cardinality(online))
    <2>1. X \cup S \in SUBSET online
      OBVIOUS
    <2>2. Cardinality(X \cup S) <= Cardinality(online)
          /\ (Cardinality(online) = Cardinality(X \cup S) => online = X \cup S)
      BY <1>1, <2>1, FS_Subset
    <2> QED BY <1>3, <2>2
  <1> QED BY <1>4, <1>5 DEF Marks

LEMMA NumberIsDigit ==
  ASSUME NEW tool, NEW text, Readable(text, FALSE), NEW k \in 1 .. Len(text), IsDigit(text[k])
  PROVE  NumberAt(tool, text, k) = text[k]
  <1>1. Run(text, k, 1) /\ text \in Seq(Nat)
    BY DEF Readable
  <1>2. Atoi(text, k) = text[k]
    BY <1>1, AtoiRun
  <1> QED BY <1>2 DEF NumberAt, OneDigit

LEMMA DigitMarks ==
  ASSUME NEW online \in SUBSET AllCpus, NEW X \in SUBSET online, NEW st, NEW p,
         Marks(online, st, X, p), NEW tool, NEW text, Readable(text, FALSE),
         NEW k \in 1 .. Len(text), IsDigit(text[k]), text[k] \in online, text[k] \notin X
  PROVE  Marks(online, ParseChar(tool, text, k, Cardinality(online), st),
               X \cup {text[k]}, text[k])
  <1> DEFINE cpu == text[k]
             num == Cardinality(online)
  <1>1. NumberAt(tool, text, k) = cpu
    BY NumberIsDigit
  <1>2. cpu < NumCpus /\ cpu # Comma /\ cpu # Dash
    <2>0. cpu \in AllCpus
      OBVIOUS
    <2>1. cpu \in Nat /\ cpu < NumCpus
      BY <2>0, CpuBound DEF AllCpus
    <2>2. cpu < 10
      BY DEF IsDigit
    <2> HIDE DEF cpu
    <2> QED BY <2>1, <2>2 DEF Comma, Dash
  <1>3. ~st.break
    BY DEF Marks
  <1>4. ParseChar(tool, text, k, num, st)
          = [list |-> st.list \cup {cpu}, previous |-> cpu,
             seen |-> st.seen + Cardinality({cpu}),
             break |-> st.seen + Cardinality({cpu}) >= num]
    BY <1>1, <1>2, <1>3 DEF ParseChar
  <1>5. {cpu} \in SUBSET online /\ {cpu} \cap X = {}
    OBVIOUS
  <1> HIDE DEF cpu
  <1>6. Marks(online, [list |-> st.list \cup {cpu}, previous |-> cpu,
                       seen |-> st.seen + Cardinality({cpu}),
                       break |-> st.seen + Cardinality({cpu}) >= num], X \cup {cpu}, cpu)
    BY <1>5, MarkKeeps
  <1> QED BY <1>4, <1>6 DEF cpu

LEMMA DashMarks ==
  ASSUME NEW online \in SUBSET AllCpus, NEW X \in SUBSET online, X # online, NEW st, NEW p,
         Marks(online, st, X, p), NEW tool, NEW text, Readable(text, FALSE),
         NEW k \in 1 .. Len(text), text[k] = Dash,
         Gap(p, text[k + 1]) \subseteq online, Gap(p, text[k + 1]) \cap X = {}
  PROVE  Marks(online, ParseChar(tool, text, k, Cardinality(online), st),
               X \cup Gap(p, text[k + 1]), text[k + 1])
  <1> DEFINE next == text[k + 1]
             S == Gap(p, next)
             num == Cardinality(online)
  <1>1. k + 1 \in 1 .. Len(text) /\ IsDigit(text[k + 1])
    BY DEF Readable
  <1>2. NumberAt(tool, text, k + 1) = next
    BY <1>1, NumberIsDigit
  <1>3. ~st.break /\ st.previous = p
    BY DEF Marks
  <1>4. text[k] # Comma /\ ~IsDigit(text[k])
    BY DEF IsDigit, Comma, Dash
  <1>5. ParseChar(tool, text, k, num, st)
          = [list |-> st.list \cup S, previous |-> next,
             seen |-> st.seen + Cardinality(S), break |-> st.seen + Cardinality(S) >= num]
    BY <1>2, <1>3, <1>4 DEF ParseChar
  <1>6. S \in SUBSET online /\ S \cap X = {}
    OBVIOUS
  <1> HIDE DEF S, next
  <1>7. Marks(online, [list |-> st.list \cup S, previous |-> next,
             seen |-> st.seen + Cardinality(S), break |-> st.seen + Cardinality(S) >= num],
             X \cup S, next)
    BY <1>6, MarkKeeps
  <1> QED BY <1>5, <1>7 DEF S, next

\* The text of a range, at place q + 1, marks the range.
LEMMA RangeMarks ==
  ASSUME NEW online \in SUBSET AllCpus, online \subseteq 0 .. 9, NEW b \in online,
         NEW X \in SUBSET online, NEW tool, NEW text, Readable(text, FALSE), NEW q \in Nat,
         NEW p,
         \A c \in X : c < RangeStart(online, b),
         q + Len(RangeText(online, b)) <= Len(text),
         \A i \in 1 .. Len(RangeText(online, b)) : text[q + i] = RangeText(online, b)[i],
         Marks(online, After(tool, text, Cardinality(online), q), X, p)
  PROVE  Marks(online,
               After(tool, text, Cardinality(online), q + Len(RangeText(online, b))),
               X \cup (RangeStart(online, b) .. b), b)
  <1> DEFINE num == Cardinality(online)
             A(k) == After(tool, text, num, k)
             a == RangeStart(online, b)
             r == RangeText(online, b)
  <1>1. a \in Nat /\ b \in Nat /\ a <= b /\ a .. b \subseteq online /\ a < 10 /\ b < 10
    <2>1. a \in Nat /\ a <= b /\ a .. b \subseteq online /\ b \in Nat /\ b <= 9
      BY RangeStartIs, CpuBound DEF AllCpus
    <2> QED BY <2>1
  <1>2. r = IF a = b THEN Digits(a) ELSE Glued(Digits(a), Dash, Digits(b))
    BY RangeReadable, TRUE
  <1> HIDE DEF a, r, A
  <1>3. Digits(a) = <<a>> /\ Digits(b) = <<b>>
    BY <1>1 DEF Digits
  <1>4. Len(text) \in Nat
    BY DEF Readable
  <1>5. ASSUME NEW k \in Nat
        PROVE  A(k + 1) = ParseChar(tool, text, k + 1, num, A(k))
    <2>1. k + 1 \in Nat /\ k + 1 # 0 /\ k + 1 - 1 = k
      OBVIOUS
    <2>2. \A j \in Nat : j # 0 => A(j) = ParseChar(tool, text, j, num, A(j - 1))
      BY LoopStep DEF A
    <2>3. A(k + 1) = ParseChar(tool, text, k + 1, num, A(k + 1 - 1))
      BY <2>1, <2>2
    <2> QED BY <2>1, <2>3
  <1>6. a \in online /\ a \notin X /\ b \notin X /\ \A c \in X : c < a /\ c \in Nat
    BY <1>1, CpuBound DEF a, AllCpus
  <1>7. Len(r) >= 1 /\ Len(r) \in Nat /\ r[1] = a
    <2>1. CASE a = b
      BY <1>1, <1>2, <1>3, <2>1
    <2>2. CASE a # b
      <3>1. r = Glued(<<a>>, Dash, <<b>>)
        BY <1>2, <1>3, <2>2
      <3>2. Dash \in Nat
        BY DEF Dash
      <3> QED BY <1>1, <3>1, <3>2, GluedPair
    <2> QED BY <2>1, <2>2
  <1>8. text[q + 1] = a /\ q + 1 \in 1 .. Len(text) /\ IsDigit(text[q + 1])
    BY <1>1, <1>4, <1>7 DEF IsDigit, r
  <1>9. A(q + 1) = ParseChar(tool, text, q + 1, num, A(q))
    BY <1>5
  <1>10. Marks(online, A(q + 1), X \cup {a}, a)
    <2>1. Marks(online, A(q), X, p)
      BY DEF A
    <2>2. text[q + 1] \in online /\ text[q + 1] \notin X
      BY <1>6, <1>8
    <2>3. Marks(online, ParseChar(tool, text, q + 1, num, A(q)), X \cup {text[q + 1]}, text[q + 1])
      BY <1>8, <2>1, <2>2, DigitMarks
    <2> QED BY <1>8, <1>9, <2>3
  <1>11. CASE a = b
    <2>1. Len(r) = 1
      BY <1>2, <1>3, <1>11
    <2>2. X \cup (a .. b) = X \cup {a}
      BY <1>1, <1>11
    <2> QED BY <1>10, <1>11, <2>1, <2>2 DEF A, a, r
  <1>12. CASE a # b
    <2>1. Len(r) = 3 /\ r[2] = Dash /\ r[3] = b
      <3>1. r = Glued(<<a>>, Dash, <<b>>)
        BY <1>2, <1>3, <1>12
      <3>2. Dash \in Nat
        BY DEF Dash
      <3> QED BY <1>1, <3>1, <3>2, GluedPair
    <2>2. /\ text[q + 2] = Dash /\ q + 2 \in 1 .. Len(text)
          /\ text[q + 3] = b /\ q + 3 \in 1 .. Len(text)
      BY <1>4, <2>1 DEF r
    <2>3. /\ q + 2 + 1 = q + 3 /\ q + 1 + 1 = q + 2
          /\ q + 1 \in Nat /\ q + 2 \in Nat
      OBVIOUS
    <2> DEFINE Y == X \cup {a}
               S == Gap(a, b)
    <2>4. Y \in SUBSET online /\ Y # online /\ S \subseteq online /\ S \cap Y = {}
      <3>1. S = a + 1 .. b - 1
        BY DEF Gap
      <3>2. S \subseteq online
        BY <1>1, <3>1
      <3>3. b \notin Y
        BY <1>6, <1>12
      <3> QED BY <1>1, <1>6, <3>1, <3>2, <3>3
    <2>5. Marks(online, A(q + 2), Y \cup S, b)
      <3>0. A(q + 1 + 1) = ParseChar(tool, text, q + 1 + 1, num, A(q + 1))
        BY <1>5, <2>3
      <3>1. A(q + 2) = ParseChar(tool, text, q + 2, num, A(q + 1))
        BY <2>3, <3>0
      <3>2. Gap(a, text[q + 2 + 1]) = S
        BY <2>2, <2>3
      <3> HIDE DEF S, Y
      <3>3. Marks(online, A(q + 1), Y, a)
        BY <1>10 DEF Y
      <3>4. Marks(online, ParseChar(tool, text, q + 2, num, A(q + 1)),
                  Y \cup Gap(a, text[q + 2 + 1]), text[q + 2 + 1])
        BY <2>2, <2>4, <3>2, <3>3, DashMarks
      <3> QED BY <2>2, <2>3, <3>1, <3>2, <3>4
    <2> DEFINE Z == Y \cup S
    <2>6. Z \in SUBSET online /\ b \notin Z
      BY <1>1, <1>6, <1>12, <2>4 DEF Gap
    <2>7. Marks(online, A(q + 3), Z \cup {b}, b)
      <3>0. A(q + 2 + 1) = ParseChar(tool, text, q + 2 + 1, num, A(q + 2))
        BY <1>5, <2>3
      <3>1. A(q + 3) = ParseChar(tool, text, q + 3, num, A(q + 2))
        BY <2>3, <3>0
      <3>2. IsDigit(text[q + 3]) /\ text[q + 3] \in online /\ text[q + 3] \notin Z
        BY <1>1, <2>2, <2>6 DEF IsDigit
      <3> HIDE DEF Z
      <3>3. Marks(online, A(q + 2), Z, b)
        BY <2>5 DEF Z
      <3>4. Marks(online, ParseChar(tool, text, q + 3, num, A(q + 2)),
                  Z \cup {text[q + 3]}, text[q + 3])
        BY <2>2, <2>6, <3>2, <3>3, DigitMarks
      <3> QED BY <2>2, <3>1, <3>4
    <2>8. Z \cup {b} = X \cup (a .. b)
      BY <1>1, <1>12 DEF Gap
    <2> QED BY <2>1, <2>7, <2>8 DEF A, a, r
  <1> QED BY <1>11, <1>12
\* After the text of the ranges that end before CPU n, the loop has marked these
\* ranges and remembers their last CPU.
LEMMA TextMarks ==
  ASSUME NEW online \in SUBSET AllCpus, online \subseteq 0 .. 9, online # {}, NEW tool,
         NEW n \in 0 .. NumCpus
  PROVE  LET X  == Closed(online, n)
             st == After(tool, OnlineText(online), Cardinality(online),
                         Len(TextFun(online)[n]))
         IN  /\ Marks(online, st, X, st.previous)
             /\ X # {} => st.previous \in X /\ \A c \in X : c <= st.previous
  <1> DEFINE t == TextFun(online)
             text == OnlineText(online)
             num == Cardinality(online)
             A(k) == After(tool, text, num, k)
             L(m) == Len(t[m])
             X(m) == Closed(online, m)
             P(m) == /\ Marks(online, A(L(m)), X(m), A(L(m)).previous)
                     /\ X(m) # {} => /\ A(L(m)).previous \in X(m)
                                     /\ \A c \in X(m) : c <= A(L(m)).previous
             B == {m \in 0 .. NumCpus : ~P(m)}
  <1> SUFFICES ASSUME B # {} PROVE FALSE
    OBVIOUS
  <1>1. PICK m \in B : \A y \in B : m <= y
    <2>1. B \subseteq Nat
      BY CpuBound
    <2> HIDE DEF B
    <2> QED BY <2>1, LeastNumber
  <1>2. m \in 0 .. NumCpus /\ ~P(m)
    OBVIOUS
  <1>3. Readable(text, FALSE)
    <2>1. NumCpus \in 0 .. NumCpus
      BY CpuBound
    <2>2. Readable(t[NumCpus], FALSE)
      BY <2>1, TextReadable, ClosedEnds
    <2> QED BY <2>2, TextIsFun
  <1>4. Len(text) \in Nat
    BY <1>3 DEF Readable
  <1>5. m # 0
    <2> SUFFICES ASSUME m = 0 PROVE FALSE
      OBVIOUS
    <2>1. t[0] = <<>> /\ X(0) = {}
      BY TextStep, ClosedEnds
    <2>2. L(0) = 0
      BY <2>1
    <2>3. A(0) = ParseStart
      BY LoopStep
    <2>4. Cardinality({}) = 0
      BY FS_EmptySet
    <2>5. Marks(online, ParseStart, {}, ParseStart.previous)
      BY <2>4 DEF Marks, ParseStart
    <2>6. P(0)
      <3> HIDE DEF L, A, X
      <3> QED BY <2>1, <2>2, <2>3, <2>5
    <2> QED BY <1>2, <2>6
  <1> DEFINE b == m - 1
  <1>6. /\ m \in 1 .. NumCpus /\ b \in 0 .. NumCpus /\ ~(m <= b)
        /\ b + 1 = m /\ b \in Nat
    BY <1>2, <1>5, CpuBound
  <1>7. P(b)
    BY <1>1, <1>6
  <1>8. t[m] = WithRange(online, t[b], b)
    BY <1>6, TextStep
  <1>9. t[b] \in Seq(Nat) /\ t[m] \in Seq(Nat)
    BY <1>6, TextIsSeq
  <1>10. L(m) <= Len(text) /\ \A k \in 1 .. L(m) : text[k] = t[m][k]
    BY <1>6, TextGrows DEF Starts
  <1>11. CASE b \in online /\ b + 1 \notin online
    <2> DEFINE r == RangeText(online, b)
               a == RangeStart(online, b)
    <2>1. r \in Seq(Nat) /\ Len(r) \in Nat
      BY <1>11, RangeReadable, TRUE DEF Readable
    <2>2. X(m) = X(b) \cup (a .. b) /\ \A c \in X(b) : c < a
      BY <1>6, <1>11, ClosedStep
    <2>3. a \in Nat /\ a <= b
      BY <1>11, RangeStartIs
    <2>4. t[m] = IF t[b] = <<>> THEN r ELSE Glued(t[b], Comma, r)
      BY <1>8, <1>11, WithRangeIs
    <2>5. X(b) \in SUBSET online
      BY DEF Closed
    <2>6. b \notin X(b) /\ \A c \in X(b) : c \in Nat
      <3>1. \A c \in X(b) : c \in AllCpus
        BY <2>5
      <3> HIDE DEF X
      <3>2. \A c \in X(b) : c \in Nat
        BY <3>1, CpuBound DEF AllCpus
      <3> HIDE DEF a, b
      <3> QED BY <1>6, <2>2, <2>3, <3>2
    <2>7. \E q \in Nat : /\ q + Len(r) = L(m)
                         /\ \A i \in 1 .. Len(r) : text[q + i] = r[i]
                         /\ A(q) = A(L(b))
      <3>1. CASE t[b] = <<>>
        <4>1. L(b) = 0
          BY <3>1
        <4>2. t[m] = r
          BY <2>4, <3>1
        <4>3. 0 \in Nat /\ 0 + Len(r) = L(m) /\ \A i \in 1 .. Len(r) : text[0 + i] = r[i]
          <5> HIDE DEF r, text, t
          <5> QED BY <1>10, <2>1, <4>2
        <4> HIDE DEF L, A, r, text
        <4> QED BY <4>1, <4>3
      <3>2. CASE t[b] # <<>>
        <4> DEFINE u == t[b]
                   q == Len(u) + 1
        <4>1. t[m] = Glued(u, Comma, r) /\ u \in Seq(Nat)
          BY <1>9, <2>4, <3>2
        <4>2. Comma \in Nat
          BY DEF Comma
        <4>3. /\ Len(t[m]) = Len(u) + 1 + Len(r) /\ Len(u) \in Nat
              /\ t[m][Len(u) + 1] = Comma
              /\ \A k \in 1 .. Len(r) : t[m][Len(u) + 1 + k] = r[k]
          <5> HIDE DEF u, r
          <5> DEFINE g == Glued(u, Comma, r)
          <5>1. Len(g) = Len(u) + 1 + Len(r) /\ Len(u) \in Nat
            BY <2>1, <4>1, <4>2, GluedIs
          <5>2. g[Len(u) + 1] = Comma
            BY <2>1, <4>1, <4>2, GluedIs
          <5>3. \A k \in 1 .. Len(r) : g[Len(u) + 1 + k] = r[k]
            BY <2>1, <4>1, <4>2, GluedIs
          <5> HIDE DEF g
          <5>4. t[m] = g
            BY <4>1 DEF g
          <5> QED BY <5>1, <5>2, <5>3, <5>4
        <4> HIDE DEF u, r, text, t
        <4>4. q \in Nat /\ q # 0 /\ q - 1 = L(b) /\ q + Len(r) = L(m)
          BY <4>3 DEF u
        <4>5. q \in 1 .. Len(text) /\ text[q] = Comma
          <5>1. q \in 1 .. L(m) /\ q \in 1 .. Len(text)
            BY <1>4, <1>10, <2>1, <4>4
          <5>2. t[m][q] = Comma
            BY <4>3
          <5> QED BY <1>10, <5>1, <5>2
        <4>6. \A i \in 1 .. Len(r) : text[q + i] = r[i]
          BY <1>10, <2>1, <4>3, <4>4
        <4>7. A(q) = A(L(b))
          <5>1. A(q) = ParseChar(tool, text, q, num, A(q - 1))
            BY <4>4, LoopStep
          <5>2. ParseChar(tool, text, q, num, A(q - 1)) = A(q - 1)
            BY <4>5 DEF ParseChar, Comma, Dash, IsDigit
          <5> QED BY <4>4, <5>1, <5>2
        <4> HIDE DEF q, L, A
        <4> QED BY <4>4, <4>6, <4>7
      <3> QED BY <3>1, <3>2
    <2>8. PICK q \in Nat : /\ q + Len(r) = L(m)
                           /\ \A i \in 1 .. Len(r) : text[q + i] = r[i]
                           /\ A(q) = A(L(b))
      BY <2>7
    <2>9. Marks(online, A(L(m)), X(m), b)
      <3>1. Marks(online, A(q), X(b), A(q).previous)
        BY <1>7, <2>8
      <3>2. q + Len(r) <= Len(text)
        BY <1>10, <2>8
      <3>3. Marks(online, A(q + Len(r)), X(b) \cup (a .. b), b)
        <4> HIDE DEF X, b, text
        <4> QED BY <1>3, <1>11, <2>2, <2>5, <2>8, <3>1, <3>2, RangeMarks
      <3> QED BY <2>2, <2>8, <3>3
    <2>10. A(L(m)).previous = b
      BY <2>9 DEF Marks
    <2>11. b \in X(m) /\ \A c \in X(m) : c <= b
      <3> HIDE DEF X, a, b
      <3>1. b \in a .. b
        BY <1>6, <2>3
      <3>2. \A c \in X(b) : c <= b
        BY <1>6, <2>2, <2>3, <2>6
      <3> QED BY <1>6, <2>2, <2>3, <3>1, <3>2
    <2>12. P(m)
      <3> HIDE DEF A, L, X, b
      <3> QED BY <2>9, <2>10, <2>11
    <2> QED BY <1>2, <2>12
  <1>12. CASE ~(b \in online /\ b + 1 \notin online)
    <2>1. t[m] = t[b]
      BY <1>8, <1>12 DEF WithRange
    <2>2. X(m) = X(b)
      BY <1>6, <1>12, ClosedStep
    <2>3. L(m) = L(b)
      BY <2>1
    <2> HIDE DEF A, L, X, b
    <2> QED BY <1>2, <1>7, <2>2, <2>3
  <1> QED BY <1>11, <1>12

LEMMA ParsedIsOnline ==
  ASSUME NEW online \in SUBSET AllCpus, online \subseteq 0 .. 9, online # {}, NEW tool
  PROVE  LET st == Parse(tool, OnlineText(online), Cardinality(online))
         IN  /\ st.list = online /\ st.previous \in online
             /\ st.previous = Max(online)
  <1> DEFINE text == OnlineText(online)
             st == Parse(tool, text, Cardinality(online))
  <1>1. NumCpus \in 0 .. NumCpus /\ text = TextFun(online)[NumCpus]
        /\ Closed(online, NumCpus) = online
    BY CpuBound, TextIsFun, ClosedEnds
  <1>2. text \in Seq(Nat)
    BY <1>1, TextIsSeq
  <1>3. st = After(tool, text, Cardinality(online), Len(text))
    BY <1>2, ParseIsLoop DEF After
  <1>4. /\ Marks(online, st, online, st.previous)
        /\ st.previous \in online /\ \A c \in online : c <= st.previous
    BY <1>1, <1>3, TextMarks
  <1> HIDE DEF st
  <1>5. online \subseteq Int
    BY CpuBound DEF AllCpus
  <1>6. \A c \in online : st.previous >= c
    BY <1>4, <1>5
  <1>7. Max(online) = st.previous
    BY <1>4, <1>5, <1>6, MaxIs
  <1> QED BY <1>4, <1>7 DEF Marks, st

LEMMA ParsedInBounds ==
  ASSUME NEW online \in SUBSET AllCpus, online # {}, NEW tool
  PROVE  LET st == Parse(tool, OnlineText(online), Cardinality(online))
         IN  st.list \subseteq AllCpus /\ st.previous \in AllCpus
  <1>1. NumCpus \in 0 .. NumCpus /\ Closed(online, NumCpus) = online
    BY CpuBound, ClosedEnds
  <1>2. Readable(OnlineText(online), TRUE)
    BY <1>1, TextReadable, TextIsFun
  <1> QED BY <1>2, ParseInBounds

\* The tools find the online CPUs, whatever set of them is online: from the text
\* the kernel would write, fill_out_online_cores of the monitor and of the daemon
\* tool marks exactly these CPUs and stops at the last, provided that their
\* numbers have one digit; with larger numbers it never leaves the array.
THEOREM OnlineCpusAreFound == ToolSpec => []OnlineCpusFound
  <1>1. ToolInit => OnlineCpusFound
    BY DEF ToolInit, Idle, OnlineCpusFound
  <1>2. ASSUME OnlineCpusFound, [ToolNext]_toolVars PROVE OnlineCpusFound'
    <2>1. ASSUME job' = job PROVE OnlineCpusFound'
      BY <1>2, <2>1 DEF OnlineCpusFound
    <2>2. ASSUME job' = Idle PROVE OnlineCpusFound'
      BY <2>2 DEF OnlineCpusFound, Idle
    <2>3. ASSUME NEW online \in SUBSET AllCpus, online # {}, ListCpus(online)
          PROVE  OnlineCpusFound'
      <3> DEFINE num == Cardinality(online)
                 mon == Parse("monitor", OnlineText(online), num)
                 dmn == Parse("daemon", OnlineText(online), num)
                 list == MonitorCores(online)
      <3>1. /\ mon.list \subseteq AllCpus
            /\ dmn.list \subseteq AllCpus /\ dmn.previous \in AllCpus
        BY <2>3, ParsedInBounds
      <3>2. online \subseteq 0 .. 9 => /\ mon.list = online /\ dmn.list = online
                                       /\ dmn.previous \in online
                                       /\ dmn.previous = Max(online)
        BY <2>3, ParsedIsOnline
      <3>3. list = IF online = AllCpus THEN AllCpus ELSE mon.list
        BY DEF MonitorCores
      <3>4. DaemonCores(online) = [app |-> dmn.list \ {dmn.previous}, daemon |-> dmn.previous]
        BY DEF DaemonCores
      <3>5. job' = [kind |-> "cpus", online |-> online, monitor |-> list,
                    daemon |-> DaemonCores(online)]
        BY <2>3 DEF ListCpus, Start
      <3> HIDE DEF mon, dmn, list
      <3>6. /\ job'.online = online /\ job'.monitor = list
            /\ job'.daemon.app = dmn.list \ {dmn.previous}
            /\ job'.daemon.daemon = dmn.previous
        BY <3>4, <3>5
      <3>7. job'.monitor \cup job'.daemon.app \cup {job'.daemon.daemon} \subseteq AllCpus
        BY <3>1, <3>3, <3>6
      <3>8. online \subseteq 0 .. 9 =>
              /\ job'.monitor = job'.online
              /\ job'.daemon.app \cup {job'.daemon.daemon} = job'.online
              /\ job'.daemon.daemon = Max(job'.online)
        BY <3>2, <3>3, <3>6
      <3> QED BY <3>6, <3>7, <3>8 DEF OnlineCpusFound
    <2>4. ASSUME job'.kind # "cpus" PROVE OnlineCpusFound'
      BY <2>4 DEF OnlineCpusFound
    <2>5. CASE UNCHANGED toolVars
      BY <2>1, <2>5 DEF toolVars
    <2>6. CASE Control \/ (\E r \in Rates : SetRate(r))
      BY <2>1, <2>6 DEF Control, SetRate
    <2>7. CASE Finish
      BY <2>2, <2>7 DEF Finish
    <2>8. CASE \E online \in SUBSET AllCpus : online # {} /\ ListCpus(online)
      BY <2>3, <2>8
    <2>9. CASE \E m \in Machines : DecodeFetch(m) \/ \E s \in Samples : DecodeOp(m, s)
      <3>1. ASSUME NEW m, DecodeFetch(m) PROVE job'.kind # "cpus"
        BY <3>1 DEF DecodeFetch, Start
      <3>2. ASSUME NEW m, NEW s, DecodeOp(m, s) PROVE job'.kind # "cpus"
        BY <3>2 DEF DecodeOp, Start
      <3> QED BY <2>4, <2>9, <3>1, <3>2
    <2> QED BY <1>2, <2>5, <2>6, <2>7, <2>8, <2>9 DEF ToolNext
  <1> QED BY <1>1, <1>2, PTL DEF ToolSpec
=============================================================================
