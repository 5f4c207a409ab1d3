--------------------------- MODULE IbsRingProofs ---------------------------
(***************************************************************************)
(* Proofs about IbsRing for every capacity, any number of interrupts and   *)
(* any sequence of reads.                                                  *)
(***************************************************************************)
EXTENDS IbsRing, TLAPS

\* What the handler's locals mean while it runs: it still owns the slot it
\* found free, because the reader can only move rd away from it.
NmiInv ==
  /\ npc \in {"store", "setwr"} =>
       /\ old_wr = wr
       /\ new_wr = IF wr + 1 = capacity THEN 0 ELSE wr + 1
       /\ Occupancy <= capacity - 2
  /\ npc = "setwr" => buf[wr] = stored
  /\ npc = "inc" => Occupancy >= 1

\* What the reader's snapshots mean: rd is its own, wr may have moved on, and
\* entries never counts a record that is not in the ring.
ReaderInv ==
  /\ rpc \in {"wr", "entries", "copy", "copy2", "setrd"} => l_rd = rd
  /\ rpc \in {"rd", "wr", "entries"} => entries >= 1 /\ want \in 1 .. capacity
  /\ rpc \in {"entries", "copy", "copy2", "setrd"} =>
       /\ l_wr # rd
       /\ Dist(rd, l_wr) <= Occupancy
  /\ rpc \in {"copy", "copy2", "setrd"} => l_cnt \in 1 .. entries
  /\ rpc = "copy2" =>
       /\ ~(l_rd < l_wr)
       /\ l_cnt > BytesToEnd
       /\ ubuf \in [1 .. l_cnt -> Nat]
       /\ \A i \in 1 .. l_cnt :
            ubuf[i] = IF i <= BytesToEnd THEN taken + i ELSE NoRecord
  /\ rpc = "sub" => l_cnt >= 1

\* The inductive invariant: the checked properties and the meaning of the
\* locals on which they depend.
RingInv ==
  /\ RingTypeOK
  /\ EntriesAccounting
  /\ EventConservation
  /\ LiveRecords
  /\ NmiInv
  /\ ReaderInv
  /\ DeliveredInOrder
  /\ CleanReadIsExact

-----------------------------------------------------------------------------
(* Arithmetic of the ring.                                                 *)

\* The slot index the handler computes is the next slot around the ring.
LEMMA NextSlotWraps ==
  ASSUME capacity \in Nat \ {0}, wr \in Slots
  PROVE  NextSlot(wr) = IF wr + 1 = capacity THEN 0 ELSE wr + 1
  BY DEF NextSlot, Slots

LEMMA CapacityType ==
  ASSUME RingTypeOK
  PROVE  capacity \in Nat \ {0}
  BY RingAssumption DEF RingTypeOK

\* A reader's count never exceeds what lies between rd and wr.
LEMMA CountInRing ==
  ASSUME RingInv, rpc \in {"copy", "copy2", "setrd"}
  PROVE  /\ l_cnt \in 1 .. Occupancy
         /\ Occupancy \in 1 .. capacity - 1
         /\ l_rd = rd
  <1>1. capacity \in Nat \ {0}
    BY CapacityType DEF RingInv
  <1> QED
    BY <1>1 DEF RingInv, RingTypeOK, EntriesAccounting, ReaderInv, NmiInv,
                Occupancy, Dist, Slots, Flag

\* Where the i-th unread record lies.
LEMMA UnreadSlot ==
  ASSUME RingInv, NEW i \in 1 .. Occupancy
  PROVE  /\ rd + i - 1 < capacity => buf[rd + i - 1] = taken + i
         /\ rd + i - 1 >= capacity =>
              /\ buf[rd + i - 1 - capacity] = taken + i
              /\ rd + i - 1 - capacity \in 0 .. wr - 1
  <1>1. capacity \in Nat \ {0} /\ rd \in Slots /\ wr \in Slots /\ taken \in Nat
    BY CapacityType DEF RingInv, RingTypeOK
  <1>2. CASE rd + i - 1 < capacity
    <2>1. rd + i - 1 \in Slots /\ Dist(rd, rd + i - 1) = i - 1
      BY <1>1, <1>2 DEF Slots, Dist, Occupancy
    <2> QED BY <1>1, <1>2, <2>1 DEF RingInv, LiveRecords, Occupancy, Dist, Slots
  <1>3. CASE rd + i - 1 >= capacity
    <2>1. /\ rd + i - 1 - capacity \in Slots
          /\ rd + i - 1 - capacity \in 0 .. wr - 1
          /\ Dist(rd, rd + i - 1 - capacity) = i - 1
      BY <1>1, <1>3 DEF Slots, Dist, Occupancy
    <2> QED BY <1>1, <1>3, <2>1 DEF RingInv, LiveRecords, Occupancy, Dist, Slots
  <1> QED BY <1>1, <1>2, <1>3 DEF Slots

LEMMA NmiLostInv ==
  ASSUME RingInv, NmiLost
  PROVE  RingInv'
  <1>1. capacity \in Nat \ {0}
    BY CapacityType DEF RingInv
  <1> QED
    BY <1>1 DEF RingInv, NmiLost, RingTypeOK, EntriesAccounting,
       EventConservation, LiveRecords, NmiInv, ReaderInv, DeliveredInOrder,
       CleanReadIsExact, Slots, Dist, Occupancy, Flag, NmiStates,
       ReaderStates, NoRecord, BytesToEnd, atomicVars, nmiVars, readerVars

LEMMA NmiIncInv ==
  ASSUME RingInv, NmiInc
  PROVE  RingInv'
  <1>1. capacity \in Nat \ {0}
    BY CapacityType DEF RingInv
  <1> QED
    BY <1>1 DEF RingInv, NmiInc, RingTypeOK, EntriesAccounting,
       EventConservation, LiveRecords, NmiInv, ReaderInv, DeliveredInOrder,
       CleanReadIsExact, Slots, Dist, Occupancy, Flag, NmiStates,
       ReaderStates, NoRecord, BytesToEnd, atomicVars, nmiVars, readerVars

LEMMA NmiQueueInv ==
  ASSUME RingInv, NmiQueue
  PROVE  RingInv'
  <1>1. capacity \in Nat \ {0}
    BY CapacityType DEF RingInv
  <1> QED
    BY <1>1 DEF RingInv, NmiQueue, RingTypeOK, EntriesAccounting,
       EventConservation, LiveRecords, NmiInv, ReaderInv, DeliveredInOrder,
       CleanReadIsExact, Slots, Dist, Occupancy, Flag, NmiStates,
       ReaderStates, NoRecord, BytesToEnd, atomicVars, nmiVars, readerVars

LEMMA NmiOutInv ==
  ASSUME RingInv, NmiOut
  PROVE  RingInv'
  <1>1. capacity \in Nat \ {0}
    BY CapacityType DEF RingInv
  <1> QED
    BY <1>1 DEF RingInv, NmiOut, RingTypeOK, EntriesAccounting,
       EventConservation, LiveRecords, NmiInv, ReaderInv, DeliveredInOrder,
       CleanReadIsExact, Slots, Dist, Occupancy, Flag, NmiStates,
       ReaderStates, NoRecord, BytesToEnd, atomicVars, nmiVars, readerVars

LEMMA ReadRdInv ==
  ASSUME RingInv, ReadRd
  PROVE  RingInv'
  <1>1. capacity \in Nat \ {0}
    BY CapacityType DEF RingInv
  <1> QED
    BY <1>1 DEF RingInv, ReadRd, RingTypeOK, EntriesAccounting,
       EventConservation, LiveRecords, NmiInv, ReaderInv, DeliveredInOrder,
       CleanReadIsExact, Slots, Dist, Occupancy, Flag, NmiStates,
       ReaderStates, NoRecord, BytesToEnd, atomicVars, nmiVars, readerVars

LEMMA ReadWrInv ==
  ASSUME RingInv, ReadWr
  PROVE  RingInv'
  <1>1. capacity \in Nat \ {0}
    BY CapacityType DEF RingInv
  <1> QED
    BY <1>1 DEF RingInv, ReadWr, RingTypeOK, EntriesAccounting,
       EventConservation, LiveRecords, NmiInv, ReaderInv, DeliveredInOrder,
       CleanReadIsExact, Slots, Dist, Occupancy, Flag, NmiStates,
       ReaderStates, NoRecord, BytesToEnd, atomicVars, nmiVars, readerVars

LEMMA ReadEntriesInv ==
  ASSUME RingInv, ReadEntries
  PROVE  RingInv'
  <1>1. capacity \in Nat \ {0}
    BY CapacityType DEF RingInv
  <1>2. ReadCount \in 1 .. entries
    BY <1>1 DEF RingInv, RingTypeOK, ReaderInv, ReadEntries, ReadCount
  <1> QED
    BY <1>1, <1>2
       DEF RingInv, ReadEntries, RingTypeOK, EntriesAccounting,
           EventConservation, LiveRecords, NmiInv, ReaderInv, DeliveredInOrder,
           CleanReadIsExact, Slots, Dist, Occupancy, Flag, NmiStates,
           ReaderStates, NoRecord, BytesToEnd, atomicVars, nmiVars, readerVars

LEMMA CopyFaultInv ==
  ASSUME RingInv, CopyFault
  PROVE  RingInv'
  <1>1. capacity \in Nat \ {0}
    BY CapacityType DEF RingInv
  <1> QED
    BY <1>1 DEF RingInv, CopyFault, ReadReturn, RingTypeOK, EntriesAccounting,
       EventConservation, LiveRecords, NmiInv, ReaderInv, DeliveredInOrder,
       CleanReadIsExact, Slots, Dist, Occupancy, Flag, NmiStates,
       ReaderStates, NoRecord, BytesToEnd, atomicVars, nmiVars, readerVars

LEMMA SubEntriesInv ==
  ASSUME RingInv, SubEntries
  PROVE  RingInv'
  <1>1. capacity \in Nat \ {0}
    BY CapacityType DEF RingInv
  <1> QED
    BY <1>1 DEF RingInv, SubEntries, ReadReturn, RingTypeOK,
       EntriesAccounting, EventConservation, LiveRecords, NmiInv, ReaderInv,
       DeliveredInOrder, CleanReadIsExact, Slots, Dist, Occupancy, Flag,
       NmiStates, ReaderStates, NoRecord, BytesToEnd, atomicVars, nmiVars,
       readerVars

LEMMA GetLostInv ==
  ASSUME RingInv, GetLost
  PROVE  RingInv'
  <1>1. capacity \in Nat \ {0}
    BY CapacityType DEF RingInv
  <1> QED
    BY <1>1 DEF RingInv, GetLost, RingTypeOK, EntriesAccounting,
       EventConservation, LiveRecords, NmiInv, ReaderInv, DeliveredInOrder,
       CleanReadIsExact, Slots, Dist, Occupancy, Flag, NmiStates,
       ReaderStates, NoRecord, BytesToEnd, atomicVars, nmiVars, readerVars

LEMMA ReadBeginInv ==
  ASSUME RingInv, NEW n \in 1 .. capacity, ReadBegin(n)
  PROVE  RingInv'
  <1>1. capacity \in Nat \ {0}
    BY CapacityType DEF RingInv
  <1> QED
    BY <1>1 DEF RingInv, ReadBegin, RingTypeOK, EntriesAccounting,
       EventConservation, LiveRecords, NmiInv, ReaderInv, DeliveredInOrder,
       CleanReadIsExact, Slots, Dist, Occupancy, Flag, NmiStates,
       ReaderStates, NoRecord, BytesToEnd, atomicVars, nmiVars, readerVars

\* The full test: the handler goes on to store only when a slot is free.
LEMMA NmiCheckInv ==
  ASSUME RingInv, NmiCheck
  PROVE  RingInv'
  <1>1. capacity \in Nat \ {0}
    BY CapacityType DEF RingInv
  <1>2. NextSlot(wr) = IF wr + 1 = capacity THEN 0 ELSE wr + 1
    BY <1>1, NextSlotWraps DEF RingInv, RingTypeOK
  <1>3. RingTypeOK'
    BY <1>1, <1>2 DEF RingInv, NmiCheck, RingTypeOK, Slots, NmiStates,
       atomicVars, readerVars
  <1>4. EntriesAccounting' /\ EventConservation' /\ LiveRecords'
    BY <1>1 DEF RingInv, NmiCheck, RingTypeOK, EntriesAccounting,
       EventConservation, LiveRecords, Slots, Dist, Occupancy, Flag,
       atomicVars, readerVars
  <1>5. NmiInv'
    BY <1>1, <1>2 DEF RingInv, NmiCheck, RingFull, RingTypeOK, NmiInv, Slots,
       Dist, Occupancy, atomicVars, readerVars
  <1>6. ReaderInv' /\ DeliveredInOrder' /\ CleanReadIsExact'
    BY DEF RingInv, NmiCheck, ReaderInv, DeliveredInOrder, CleanReadIsExact,
       Dist, BytesToEnd, Slots, Occupancy, Flag, atomicVars, readerVars
  <1> QED BY <1>3, <1>4, <1>5, <1>6 DEF RingInv

\* Storing a record touches only the free slot at wr.
LEMMA NmiStoreInv ==
  ASSUME RingInv, NmiStore
  PROVE  RingInv'
  <1>1. capacity \in Nat \ {0}
    BY CapacityType DEF RingInv
  <1>2. RingTypeOK' /\ EntriesAccounting' /\ EventConservation'
    BY <1>1 DEF RingInv, NmiStore, RingTypeOK, EntriesAccounting,
       EventConservation, Slots, Dist, Occupancy, Flag, NmiStates, atomicVars,
       readerVars
  <1>3. LiveRecords' /\ NmiInv'
    BY <1>1 DEF RingInv, NmiStore, RingTypeOK, LiveRecords, NmiInv, Slots,
                Dist, Occupancy, Flag, atomicVars, readerVars
  <1>4. ReaderInv' /\ DeliveredInOrder' /\ CleanReadIsExact'
    BY <1>1 DEF RingInv, NmiStore, RingTypeOK, ReaderInv, DeliveredInOrder,
                CleanReadIsExact, Dist, Occupancy, BytesToEnd, Slots,
                atomicVars, readerVars
  <1> QED BY <1>2, <1>3, <1>4 DEF RingInv

\* Publishing the record extends the unread part of the ring by one slot.
LEMMA NmiSetWrInv ==
  ASSUME RingInv, NmiSetWr
  PROVE  RingInv'
  <1>1. capacity \in Nat \ {0}
    BY CapacityType DEF RingInv
  <1>2. Occupancy' = Occupancy + 1
    BY <1>1 DEF RingInv, NmiSetWr, RingTypeOK, NmiInv, Slots, Dist, Occupancy
  <1>3. RingTypeOK' /\ EntriesAccounting' /\ EventConservation' /\ NmiInv'
    BY <1>1, <1>2 DEF RingInv, NmiSetWr, RingTypeOK, EntriesAccounting,
       NmiInv, EventConservation, Slots, Dist, Occupancy, Flag, NmiStates,
       atomicVars, readerVars
  <1>4. LiveRecords'
    <2>1. stored' = taken' + Occupancy' + Flag(npc = "setwr")'
      BY <1>1, <1>2 DEF RingInv, NmiSetWr, LiveRecords, Flag, readerVars,
         RingTypeOK, Occupancy, Dist, Slots
    <2>2. ASSUME NEW s \in Slots, Dist(rd, s) < Occupancy + 1
          PROVE  buf[s] = taken + 1 + Dist(rd, s)
      <3>1. CASE Dist(rd, s) < Occupancy
        BY <3>1 DEF RingInv, LiveRecords
      <3>2. CASE Dist(rd, s) = Occupancy
        <4>1. s = wr
          BY <1>1, <3>2 DEF RingInv, RingTypeOK, Dist, Occupancy, Slots
        <4>2. buf[wr] = stored /\ stored = taken + Occupancy + 1
          BY DEF RingInv, NmiInv, LiveRecords, NmiSetWr, Flag
        <4> QED BY <1>1, <3>2, <4>1, <4>2 DEF RingInv, RingTypeOK, Dist, Occupancy, Slots
      <3> QED BY <1>1, <2>2, <3>1, <3>2 DEF RingInv, RingTypeOK, Dist, Occupancy, Slots
    <2> QED BY <1>2, <2>1, <2>2 DEF LiveRecords, NmiSetWr, Slots, Dist, readerVars
  <1>5. ReaderInv' /\ DeliveredInOrder' /\ CleanReadIsExact'
    BY <1>1, <1>2 DEF RingInv, NmiSetWr, RingTypeOK, ReaderInv,
       DeliveredInOrder, CleanReadIsExact, Dist, Occupancy, BytesToEnd, Slots,
       atomicVars, readerVars
  <1> QED BY <1>3, <1>4, <1>5 DEF RingInv

\* One copy from rd on: records up to the end of the buffer, then whatever
\* lies behind it.
LEMMA CopyStraightInv ==
  ASSUME RingInv, CopyStraight
  PROVE  RingInv'
  <1>1. capacity \in Nat \ {0}
    BY CapacityType DEF RingInv
  <1>2. l_cnt \in 1 .. Occupancy /\ Occupancy \in 1 .. capacity - 1 /\ l_rd = rd
    BY CountInRing DEF CopyStraight
  <1>3. RingTypeOK' /\ EntriesAccounting' /\ EventConservation' /\ LiveRecords' /\ NmiInv' /\ ReaderInv'
    BY <1>1 DEF RingInv, CopyStraight, RingTypeOK, EntriesAccounting,
       EventConservation, LiveRecords, NmiInv, ReaderInv, Slots, Dist,
       Occupancy, Flag, ReaderStates, NoRecord, SlotContent, atomicVars,
       nmiVars
  <1>4. ASSUME NEW i \in 1 .. l_cnt
        PROVE  ubuf'[i] = IF rd + i - 1 < capacity THEN taken + i ELSE NoRecord
    <2>1. i \in 1 .. Occupancy /\ rd \in Slots /\ DOMAIN buf = Slots
      BY <1>1, <1>2, <1>4 DEF RingInv, RingTypeOK
    <2>2. rd + i - 1 < capacity => buf[rd + i - 1] = taken + i
      BY <2>1, UnreadSlot
    <2>3. rd + i - 1 \in DOMAIN buf <=> rd + i - 1 < capacity
      BY <1>1, <2>1 DEF Slots
    <2> QED BY <1>2, <2>2, <2>3 DEF CopyStraight, SlotContent
  <1>5. l_cnt <= Dist(rd, l_wr) => \A i \in 1 .. l_cnt : rd + i - 1 < capacity
    BY <1>1, <1>2 DEF CopyStraight, Dist, RingInv, RingTypeOK, Slots
  <1>6. DeliveredInOrder' /\ CleanReadIsExact'
    BY <1>2, <1>4, <1>5 DEF CopyStraight, DeliveredInOrder, CleanReadIsExact,
       Dist
  <1> QED BY <1>3, <1>6 DEF RingInv

\* The first copy of a wrapped ring: records up to the end of the buffer.
LEMMA CopyToEndInv ==
  ASSUME RingInv, CopyToEnd
  PROVE  RingInv'
  <1>1. capacity \in Nat \ {0}
    BY CapacityType DEF RingInv
  <1>2. l_cnt \in 1 .. Occupancy /\ Occupancy \in 1 .. capacity - 1 /\ l_rd = rd
    BY CountInRing DEF CopyToEnd
  <1>3. RingTypeOK' /\ EntriesAccounting' /\ EventConservation' /\ LiveRecords' /\ NmiInv'
    BY <1>1 DEF RingInv, CopyToEnd, RingTypeOK, EntriesAccounting,
       EventConservation, LiveRecords, NmiInv, Slots, Dist, Occupancy, Flag,
       ReaderStates, NoRecord, SlotContent, BytesToEnd, atomicVars, nmiVars
  <1>4. ASSUME NEW i \in 1 .. l_cnt
        PROVE  ubuf'[i] = IF i <= BytesToEnd THEN taken + i ELSE NoRecord
    <2>1. i \in 1 .. Occupancy /\ rd \in Slots /\ DOMAIN buf = Slots
      BY <1>1, <1>2, <1>4 DEF RingInv, RingTypeOK
    <2>2. rd + i - 1 < capacity => buf[rd + i - 1] = taken + i
      BY <2>1, UnreadSlot
    <2>3. /\ rd + i - 1 \in DOMAIN buf <=> rd + i - 1 < capacity
          /\ i <= BytesToEnd <=> rd + i - 1 < capacity
      BY <1>1, <1>2, <2>1 DEF Slots, BytesToEnd
    <2> QED BY <1>2, <2>2, <2>3 DEF CopyToEnd, SlotContent
  <1>5. ubuf' \in [1 .. l_cnt -> Nat]
    BY <1>4 DEF CopyToEnd, RingInv, RingTypeOK, NoRecord
  <1>6. ReaderInv'
    BY <1>1, <1>2, <1>4, <1>5 DEF RingInv, CopyToEnd, ReaderInv, BytesToEnd,
       Dist, Occupancy, NoRecord, atomicVars, nmiVars
  <1>7. rpc' = "setrd" => \A i \in 1 .. l_cnt : ubuf'[i] = taken + i
    <2> SUFFICES ASSUME rpc' = "setrd", NEW i \in 1 .. l_cnt
                 PROVE  ubuf'[i] = taken + i
      OBVIOUS
    <2>1. i <= BytesToEnd
      BY <1>1, <1>2 DEF CopyToEnd, BytesToEnd, RingInv, RingTypeOK, Slots
    <2> QED BY <1>4, <2>1
  <1>8. DeliveredInOrder' /\ CleanReadIsExact'
    BY <1>7 DEF CopyToEnd, DeliveredInOrder, CleanReadIsExact
  <1> QED BY <1>3, <1>6, <1>8 DEF RingInv

\* The second copy of a wrapped ring: as many records as the loaded wr says.
LEMMA CopyFromStartInv ==
  ASSUME RingInv, CopyFromStart
  PROVE  RingInv'
  <1>1. capacity \in Nat \ {0}
    BY CapacityType DEF RingInv
  <1>2. l_cnt \in 1 .. Occupancy /\ Occupancy \in 1 .. capacity - 1 /\ l_rd = rd
    BY CountInRing DEF CopyFromStart
  <1>3. RingTypeOK' /\ EntriesAccounting' /\ EventConservation' /\ LiveRecords' /\ NmiInv' /\ ReaderInv'
    BY <1>1 DEF RingInv, CopyFromStart, RingTypeOK, EntriesAccounting,
       EventConservation, LiveRecords, NmiInv, ReaderInv, Slots, Dist,
       Occupancy, Flag, ReaderStates, NoRecord, SlotContent, BytesToEnd,
       atomicVars, nmiVars
  <1>4. ASSUME NEW i \in 1 .. l_cnt
        PROVE  ubuf'[i] = IF i <= BytesToEnd \/ i - BytesToEnd <= l_wr
                          THEN taken + i ELSE NoRecord
    <2>1. i \in 1 .. Occupancy /\ rd \in Slots /\ wr \in Slots /\ DOMAIN buf = Slots
      BY <1>1, <1>2, <1>4 DEF RingInv, RingTypeOK
    <2>2. ubuf[i] = IF i <= BytesToEnd THEN taken + i ELSE NoRecord
      BY DEF RingInv, ReaderInv, CopyFromStart
    <2>3. i > BytesToEnd => /\ buf[i - BytesToEnd - 1] = taken + i
                            /\ i - BytesToEnd - 1 \in Slots
      <3> SUFFICES ASSUME i > BytesToEnd
                   PROVE  /\ buf[i - BytesToEnd - 1] = taken + i
                          /\ i - BytesToEnd - 1 \in Slots
        OBVIOUS
      <3>1. rd + i - 1 >= capacity /\ i - BytesToEnd - 1 = rd + i - 1 - capacity
        BY <1>1, <1>2, <2>1 DEF BytesToEnd, Slots
      <3>2. /\ buf[rd + i - 1 - capacity] = taken + i
            /\ rd + i - 1 - capacity \in 0 .. wr - 1
        BY <2>1, <3>1, UnreadSlot
      <3> QED BY <1>1, <2>1, <3>1, <3>2 DEF Slots
    <2>4. ubuf'[i] = IF i > BytesToEnd /\ i - BytesToEnd <= l_wr
                     THEN SlotContent(i - BytesToEnd - 1) ELSE ubuf[i]
      BY DEF CopyFromStart
    <2>5. BytesToEnd \in Int /\ l_wr \in Nat
      BY <1>1 DEF BytesToEnd, RingInv, RingTypeOK, Slots
    <2>6. CASE i <= BytesToEnd
      BY <2>2, <2>4, <2>5, <2>6
    <2>7. CASE i > BytesToEnd
      BY <2>1, <2>2, <2>3, <2>4, <2>5, <2>7 DEF SlotContent
    <2> QED BY <2>5, <2>6, <2>7
  <1>5. l_cnt <= Dist(rd, l_wr) => \A i \in 1 .. l_cnt : i - BytesToEnd <= l_wr
    BY <1>1, <1>2 DEF CopyFromStart, RingInv, RingTypeOK, ReaderInv, Slots,
       Dist, BytesToEnd
  <1>6. DeliveredInOrder'
    BY <1>4 DEF CopyFromStart, DeliveredInOrder
  <1>7. CleanReadIsExact'
    BY <1>2, <1>4, <1>5 DEF CopyFromStart, CleanReadIsExact, Dist
  <1> QED BY <1>3, <1>6, <1>7 DEF RingInv

\* Advancing rd by what was read takes that many records off the occupancy.
LEMMA SetRdOccupancy ==
  ASSUME RingInv, SetRd
  PROVE  /\ rd' = IF rd + l_cnt < capacity THEN rd + l_cnt ELSE rd + l_cnt - capacity
         /\ Occupancy' = Occupancy - l_cnt
  <1>1. capacity \in Nat \ {0}
    BY CapacityType DEF RingInv
  <1>2. l_cnt \in 1 .. Occupancy /\ Occupancy \in 1 .. capacity - 1 /\ l_rd = rd
    BY CountInRing DEF SetRd
  <1>3. rd' = IF rd + l_cnt < capacity THEN rd + l_cnt ELSE rd + l_cnt - capacity
    <2>1. rd \in Nat /\ l_cnt \in Nat /\ rd < capacity /\ l_cnt < capacity
      BY <1>1, <1>2 DEF RingInv, RingTypeOK, Slots
    <2>2. (rd + l_cnt) % capacity =
            IF rd + l_cnt < capacity THEN rd + l_cnt ELSE rd + l_cnt - capacity
      BY <1>1, <2>1
    <2> QED BY <1>2, <2>2 DEF SetRd
  <1>4. Occupancy' = Occupancy - l_cnt
    <2>1. rd \in Slots /\ wr \in Slots /\ wr' = wr /\ capacity' = capacity
      BY DEF RingInv, RingTypeOK, SetRd
    <2>2. Occupancy' = IF rd' <= wr THEN wr - rd' ELSE wr - rd' + capacity
      BY <2>1 DEF Occupancy, Dist
    <2>3. l_cnt \in Nat /\ 1 <= l_cnt /\ l_cnt <= Occupancy
      BY <1>2
    <2>4. CASE rd <= wr
      BY <1>1, <1>3, <2>1, <2>2, <2>3, <2>4 DEF Occupancy, Dist, Slots
    <2>5. CASE ~(rd <= wr)
      BY <1>1, <1>3, <2>1, <2>2, <2>3, <2>5 DEF Occupancy, Dist, Slots
    <2> QED BY <2>4, <2>5
  <1> QED BY <1>3, <1>4

\* Advancing rd frees the slots just copied and leaves the rest unread.
LEMMA SetRdInv ==
  ASSUME RingInv, SetRd
  PROVE  RingInv'
  <1>1. capacity \in Nat \ {0}
    BY CapacityType DEF RingInv
  <1>2. l_cnt \in 1 .. Occupancy /\ Occupancy \in 1 .. capacity - 1 /\ l_rd = rd
    BY CountInRing DEF SetRd
  <1>3. rd' = IF rd + l_cnt < capacity THEN rd + l_cnt ELSE rd + l_cnt - capacity
    BY SetRdOccupancy
  <1>4. Occupancy' = Occupancy - l_cnt
    BY SetRdOccupancy
  <1>5. RingTypeOK'
    BY <1>1, <1>2, <1>3 DEF RingInv, SetRd, RingTypeOK, Slots, ReaderStates,
       nmiVars
  <1>6. EntriesAccounting' /\ EventConservation'
    BY <1>1, <1>2, <1>4 DEF RingInv, SetRd, RingTypeOK, EntriesAccounting,
                EventConservation, Slots, Flag, nmiVars
  <1>7. NmiInv'
    BY <1>1, <1>2, <1>4 DEF RingInv, SetRd, RingTypeOK, EntriesAccounting,
       ReaderInv, NmiInv, Slots, Flag, nmiVars
  <1>8. ReaderInv'
    BY <1>2 DEF SetRd, ReaderInv
  <1>9. LiveRecords'
    <2>1. stored' = taken' + Occupancy' + Flag(npc = "setwr")'
      BY <1>1, <1>2, <1>4 DEF RingInv, SetRd, LiveRecords, Flag, nmiVars,
         RingTypeOK, Slots
    <2>2. ASSUME NEW s \in Slots, Dist(rd', s) < Occupancy - l_cnt
          PROVE  buf[s] = taken + l_cnt + 1 + Dist(rd', s)
      <3>1. Dist(rd, s) = Dist(rd', s) + l_cnt
        BY <1>1, <1>2, <1>3, <2>2 DEF RingInv, RingTypeOK, Slots, Dist,
           Occupancy
      <3>2. Dist(rd, s) < Occupancy
        BY <1>1, <1>2, <1>3, <2>2, <3>1 DEF RingInv, RingTypeOK, Slots, Dist
      <3>3. buf[s] = taken + 1 + Dist(rd, s)
        BY <3>2 DEF RingInv, LiveRecords
      <3> QED BY <1>1, <1>2, <1>3, <3>1, <3>3 DEF RingInv, RingTypeOK, Slots, Dist
    <2> QED BY <1>4, <2>1, <2>2 DEF LiveRecords, SetRd, Slots, Dist
  <1>10. DeliveredInOrder' /\ CleanReadIsExact'
    BY DEF SetRd, DeliveredInOrder, CleanReadIsExact
  <1> QED BY <1>5, <1>6, <1>7, <1>8, <1>9, <1>10 DEF RingInv
-----------------------------------------------------------------------------
(* The theorems.                                                           *)

\* The invariant holds before the first interrupt and the first read.
LEMMA RingInvInit == RingInit => RingInv
  BY RingAssumption DEF RingInit, RingInv, RingTypeOK, EntriesAccounting,
     EventConservation, LiveRecords, NmiInv, ReaderInv, DeliveredInOrder,
     CleanReadIsExact, Slots, Dist, Occupancy, Flag, NmiStates, ReaderStates,
     NoRecord

\* Every step of the handler, of the reader and of GET_LOST preserves it.
LEMMA RingInvNext == RingInv /\ [RingNext]_ringVars => RingInv'
  <1> SUFFICES ASSUME RingInv, [RingNext]_ringVars
               PROVE  RingInv'
    OBVIOUS
  <1>1. CASE Nmi
    BY <1>1, NmiCheckInv, NmiLostInv, NmiStoreInv, NmiSetWrInv, NmiIncInv,
       NmiQueueInv, NmiOutInv DEF Nmi
  <1>2. ASSUME NEW n \in 1 .. capacity, ReadBegin(n)
        PROVE  RingInv'
    BY <1>2, ReadBeginInv
  <1>3. CASE DoIbsRead
    BY <1>3, ReadRdInv, ReadWrInv, ReadEntriesInv, CopyStraightInv,
       CopyToEndInv, CopyFromStartInv, CopyFaultInv, SetRdInv, SubEntriesInv
       DEF DoIbsRead
  <1>4. CASE GetLost
    BY <1>4, GetLostInv
  <1>5. CASE UNCHANGED ringVars
    BY <1>5 DEF RingInv, RingTypeOK, EntriesAccounting, EventConservation,
       LiveRecords, NmiInv, ReaderInv, DeliveredInOrder, CleanReadIsExact,
       Slots, Dist, Occupancy, Flag, BytesToEnd, ringVars, atomicVars,
       nmiVars, readerVars
  <1> QED BY <1>1, <1>2, <1>3, <1>4, <1>5 DEF RingNext, Reader

\* The inductive invariant holds in every state of the ring.
THEOREM RingInvariant == RingSpec => []RingInv
  BY RingInvInit, RingInvNext, PTL DEF RingSpec

\* The ring is typed: indices stay inside the buffer and entries never goes
\* negative, for every capacity.
THEOREM RingTypeCorrect == RingSpec => []RingTypeOK
  <1>1. RingInv => RingTypeOK
    BY DEF RingInv
  <1> QED BY <1>1, RingInvariant, PTL

\* entries is the occupancy of the ring up to the two windows in which the
\* handler or the reader has moved its index but not yet adjusted entries.
THEOREM EntriesCorrect == RingSpec => []EntriesAccounting
  <1>1. RingInv => EntriesAccounting
    BY DEF RingInv
  <1> QED BY <1>1, RingInvariant, PTL

\* No sample interrupt goes unaccounted.
THEOREM EventsConserved == RingSpec => []EventConservation
  <1>1. RingInv => EventConservation
    BY DEF RingInv
  <1> QED BY <1>1, RingInvariant, PTL

\* No unread record is overwritten, skipped or duplicated.
THEOREM RecordsSafe == RingSpec => []LiveRecords
  <1>1. RingInv => LiveRecords
    BY DEF RingInv
  <1> QED BY <1>1, RingInvariant, PTL

\* The handler never writes a slot that the reader is copying, although the
\* two share no lock.
THEOREM RaceFreedom == RingSpec => []NoDataRace
  <1>1. RingInv => NoDataRace
    <2> SUFFICES ASSUME RingInv, npc = "store", rpc \in {"copy", "copy2"},
                        old_wr \in Slots, Dist(l_rd, old_wr) < l_cnt
                 PROVE  FALSE
      BY DEF NoDataRace, CopySlots
    <2>1. l_cnt \in 1 .. Occupancy /\ Occupancy \in 1 .. capacity - 1 /\ l_rd = rd
      BY CountInRing
    <2>2. Dist(l_rd, old_wr) = Occupancy
      BY <2>1 DEF RingInv, NmiInv, Occupancy
    <2> QED BY <2>1, <2>2
  <1> QED BY <1>1, RingInvariant, PTL

\* A read delivers the unread records in order, whatever interrupts it meets,
\* except for positions it fills with no record at all.
THEOREM ReadsInOrder == RingSpec => []DeliveredInOrder
  <1>1. RingInv => DeliveredInOrder
    BY DEF RingInv
  <1> QED BY <1>1, RingInvariant, PTL

\* A read whose count stays within the distance to its snapshot of wr delivers
\* exactly the records it reports.
THEOREM CleanReadsExact == RingSpec => []CleanReadIsExact
  <1>1. RingInv => CleanReadIsExact
    BY DEF RingInv
  <1> QED BY <1>1, RingInvariant, PTL
-----------------------------------------------------------------------------
(* The ring implements the bounded queue of SampleQueue.                   *)

\* The unread records by their serial numbers.
Unread == [i \in 1 .. Occupancy |-> taken + i]

\* What the refinement mapping's queue is: the unread records, in order.
QueueIsUnread ==
  /\ [i \in 1 .. Occupancy |-> buf[(rd + i - 1) % capacity]] = Unread
  /\ Occupancy \in 0 .. capacity - 1
  /\ Unread \in Seq(Nat)
  /\ Len(Unread) = Occupancy

\* The invariant gives the mapped queue its meaning.
LEMMA QueueMeaning == RingInv => QueueIsUnread
  <1> SUFFICES ASSUME RingInv
               PROVE  QueueIsUnread
    OBVIOUS
  <1>1. capacity \in Nat \ {0} /\ rd \in Slots /\ wr \in Slots /\ taken \in Nat
    BY CapacityType DEF RingInv, RingTypeOK
  <1>2. Occupancy \in 0 .. capacity - 1
    BY <1>1 DEF Occupancy, Dist, Slots
  <1>3. ASSUME NEW i \in 1 .. Occupancy
        PROVE  buf[(rd + i - 1) % capacity] = taken + i
    <2>1. rd \in Nat /\ i \in Nat \ {0} /\ rd < capacity /\ i < capacity
      BY <1>1, <1>2 DEF Slots
    <2>2. (rd + i - 1) % capacity =
            IF rd + i - 1 < capacity THEN rd + i - 1 ELSE rd + i - 1 - capacity
      BY <1>1, <2>1
    <2> QED BY <1>1, <2>1, <2>2, UnreadSlot
  <1>4. Unread \in Seq(Nat) /\ Len(Unread) = Occupancy
    BY <1>1, <1>2 DEF Unread
  <1> QED BY <1>2, <1>3, <1>4 DEF QueueIsUnread, Unread

\* A fresh ring is an empty queue.
LEMMA QueueInit == RingInit => Queue!Init
  BY RingAssumption DEF RingInit, Queue!Init, Occupancy, Dist, Flag

\* Publishing a record appends it: the handler found the ring not full.
LEMMA SetWrAccepts ==
  ASSUME RingInv, RingInv', NmiSetWr
  PROVE  Queue!Accept
  <1>1. capacity \in Nat \ {0}
    BY CapacityType DEF RingInv
  <1>2. Occupancy' = Occupancy + 1 /\ Occupancy <= capacity - 2
    <2>1. rd \in 0 .. capacity - 1 /\ wr \in 0 .. capacity - 1
      BY DEF RingInv, RingTypeOK, Slots
    <2>2. /\ wr' = (IF wr + 1 = capacity THEN 0 ELSE wr + 1)
          /\ rd' = rd /\ capacity' = capacity /\ Occupancy <= capacity - 2
      BY DEF RingInv, NmiInv, NmiSetWr
    <2> QED BY <1>1, <2>1, <2>2 DEF Dist, Occupancy
  <1>3. QueueIsUnread /\ QueueIsUnread'
    BY QueueMeaning, PTL
  <1>5. taken \in Nat /\ Occupancy \in Nat /\ Len(Unread) = Occupancy
    BY <1>1, <1>3 DEF QueueIsUnread, RingInv, RingTypeOK
  <1>6. stored = taken + Occupancy + 1
    BY DEF RingInv, LiveRecords, NmiSetWr, Flag
  <1>7. Unread' = Append(Unread, taken + Occupancy + 1)
    BY <1>2, <1>5 DEF Unread, NmiSetWr, readerVars
  <1>8. /\ stored' - Flag(npc = "setwr")' = stored
        /\ stored - Flag(npc = "setwr") = stored - 1
        /\ (lost + reported + Flag(npc = "lost"))' = lost + reported + Flag(npc = "lost")
        /\ capacity' = capacity
    BY DEF NmiSetWr, Flag, RingInv, RingTypeOK
  <1> DEFINE q == [i \in 1 .. Occupancy |-> buf[(rd + i - 1) % capacity]]
  <1>9. q = Unread /\ q' = Unread'
    BY <1>3 DEF QueueIsUnread
  <1>10. Len(q) < capacity - 1
    BY <1>1, <1>2, <1>5, <1>9
  <1>11. q' = Append(q, stored - Flag(npc = "setwr") + 1)
    <2>1. taken + Occupancy + 1 = stored - Flag(npc = "setwr") + 1
      BY <1>5, <1>6, <1>8
    <2> QED BY <1>7, <1>9, <2>1
  <1>12. (stored - Flag(npc = "setwr"))' = stored - Flag(npc = "setwr") + 1
    BY <1>5, <1>6, <1>8
  <1> QED BY <1>8, <1>10, <1>11, <1>12 DEF Queue!Accept

\* A handler that finds the ring full drops its sample, and only then.
LEMMA CheckDrops ==
  ASSUME RingInv, RingInv', NmiCheck, RingFull(NextSlot(wr))
  PROVE  Queue!Drop
  <1> DEFINE q == [i \in 1 .. Occupancy |-> buf[(rd + i - 1) % capacity]]
  <1>1. capacity \in Nat \ {0} /\ rd \in Slots /\ wr \in Slots
    BY CapacityType DEF RingInv, RingTypeOK
  <1>2. NextSlot(wr) = IF wr + 1 = capacity THEN 0 ELSE wr + 1
    BY <1>1, NextSlotWraps
  <1>3. Occupancy = capacity - 1
    BY <1>1, <1>2 DEF RingFull, Occupancy, Dist, Slots
  <1>4. Len(q) = capacity - 1
    BY <1>3, QueueMeaning DEF QueueIsUnread
  <1>5. /\ UNCHANGED <<q, capacity>>
        /\ stored' - Flag(npc = "setwr")' = stored - Flag(npc = "setwr")
    BY DEF NmiCheck, Occupancy, Dist, Flag, atomicVars
  <1>6. (lost + reported + Flag(npc = "lost"))' = lost + reported + Flag(npc = "lost") + 1
    BY DEF NmiCheck, Flag, atomicVars, RingInv, RingTypeOK
  <1> QED BY <1>4, <1>5, <1>6 DEF Queue!Drop

\* Advancing rd takes the records just read from the front.
LEMMA SetRdTakes ==
  ASSUME RingInv, RingInv', SetRd
  PROVE  \E n \in 1 .. capacity - 1 : Queue!Take(n)
  <1> DEFINE q == [i \in 1 .. Occupancy |-> buf[(rd + i - 1) % capacity]]
  <1>1. l_cnt \in 1 .. Occupancy /\ Occupancy \in 1 .. capacity - 1
    BY CountInRing DEF SetRd
  <1>2. taken \in Nat /\ capacity \in Nat \ {0}
    BY CapacityType DEF RingInv, RingTypeOK
  <1>3. QueueIsUnread /\ QueueIsUnread'
    BY QueueMeaning, PTL
  <1>4. q = Unread /\ q' = Unread' /\ Len(q) = Occupancy /\ q \in Seq(Nat)
    BY <1>3 DEF QueueIsUnread
  <1>5. Unread' = [i \in 1 .. Occupancy - l_cnt |-> taken + l_cnt + i]
    BY SetRdOccupancy DEF Unread, SetRd
  <1>6. SubSeq(Unread, l_cnt + 1, Occupancy) = [i \in 1 .. Occupancy - l_cnt |-> taken + l_cnt + i]
    BY <1>1, <1>2 DEF Unread
  <1>7. UNCHANGED <<capacity, stored - Flag(npc = "setwr"), lost + reported + Flag(npc = "lost")>>
    BY DEF SetRd, Flag, nmiVars
  <1>8. Queue!Take(l_cnt)
    <2>1. l_cnt <= Len(q)
      BY <1>1, <1>4
    <2>2. q' = SubSeq(q, l_cnt + 1, Len(q))
      BY <1>4, <1>5, <1>6
    <2> QED BY <1>7, <2>1, <2>2 DEF Queue!Take
  <1>9. l_cnt \in 1 .. capacity - 1
    BY <1>1, <1>2
  <1> QED BY <1>8, <1>9 DEF Queue!Take

\* A step that leaves the unread records and both counts alone is invisible.
LEMMA QueueStutters ==
  ASSUME RingInv, RingInv',
         UNCHANGED <<capacity, taken, Occupancy>>,
         UNCHANGED <<stored - Flag(npc = "setwr"), lost + reported + Flag(npc = "lost")>>
  PROVE  UNCHANGED Queue!queueVars
  <1>1. QueueIsUnread /\ QueueIsUnread'
    BY QueueMeaning, PTL
  <1>2. Unread' = Unread
    BY DEF Unread
  <1> QED BY <1>1, <1>2 DEF Queue!queueVars, QueueIsUnread

\* Every step of the ring is a step of the queue or invisible to it.
LEMMA QueueStep ==
  ASSUME RingInv, RingInv', [RingNext]_ringVars
  PROVE  [Queue!Next]_Queue!queueVars
  <1>1. CASE NmiSetWr
    BY <1>1, SetWrAccepts DEF Queue!Next
  <1>2. CASE NmiCheck /\ RingFull(NextSlot(wr))
    BY <1>2, CheckDrops DEF Queue!Next
  <1>3. CASE SetRd
    BY <1>3, SetRdTakes DEF Queue!Next
  <1> DEFINE Invisible == /\ UNCHANGED <<capacity, taken, Occupancy>>
                          /\ UNCHANGED <<stored - Flag(npc = "setwr"),
                                         lost + reported + Flag(npc = "lost")>>
  <1>4. CASE NmiCheck /\ ~RingFull(NextSlot(wr))
    <2>1. Invisible
      BY <1>4 DEF NmiCheck, Occupancy, Dist, Flag, atomicVars, readerVars
    <2> QED BY <2>1, QueueStutters
  <1>5. CASE NmiStore
    <2>1. Invisible
      BY <1>5 DEF NmiStore, Occupancy, Dist, Flag, atomicVars, readerVars, RingInv, RingTypeOK
    <2> QED BY <2>1, QueueStutters
  <1>6. CASE NmiLost \/ NmiInc \/ NmiQueue \/ NmiOut
    <2>1. Invisible
      <3>1. CASE NmiLost
        BY <3>1 DEF NmiLost, Occupancy, Dist, Flag, readerVars, RingInv, RingTypeOK
      <3>2. CASE NmiInc \/ NmiQueue \/ NmiOut
        BY <3>2 DEF NmiInc, NmiQueue, NmiOut, Occupancy, Dist, Flag, atomicVars, readerVars
      <3> QED BY <1>6, <3>1, <3>2
    <2> QED BY <2>1, QueueStutters
  <1>7. ASSUME NEW n \in 1 .. capacity, ReadBegin(n)
        PROVE  UNCHANGED Queue!queueVars
    <2>1. Invisible
      BY <1>7 DEF ReadBegin, Occupancy, Dist, Flag, atomicVars, nmiVars
    <2> QED BY <2>1, QueueStutters
  <1>8. CASE \/ ReadRd \/ ReadWr \/ ReadEntries \/ CopyStraight \/ CopyToEnd
             \/ CopyFromStart \/ CopyFault \/ SubEntries
    <2>1. Invisible
      BY <1>8 DEF ReadRd, ReadWr, ReadEntries, CopyStraight, CopyToEnd,
                  CopyFromStart, CopyFault, SubEntries, ReadReturn, Occupancy,
                  Dist, Flag, atomicVars, nmiVars
    <2> QED BY <2>1, QueueStutters
  <1>9. CASE GetLost
    <2>1. Invisible
      BY <1>9 DEF GetLost, Occupancy, Dist, Flag, nmiVars, readerVars, RingInv, RingTypeOK
    <2> QED BY <2>1, QueueStutters
  <1>10. CASE UNCHANGED ringVars
    <2>1. Invisible
      BY <1>10 DEF ringVars, atomicVars, nmiVars, readerVars, Occupancy, Dist, Flag
    <2> QED BY <2>1, QueueStutters
  <1> QED BY <1>1, <1>2, <1>3, <1>4, <1>5, <1>6, <1>7, <1>8, <1>9, <1>10
          DEF RingNext, Nmi, Reader, DoIbsRead

\* The lock-free ring implements the bounded FIFO queue for every capacity: no
\* interleaving of interrupts, reads and GET_LOST reorders, duplicates or
\* overwrites a record, and a sample is dropped only when the ring is full.
THEOREM RingRefinesQueue == RingSpec => ImplementsQueue
  <1>1. RingInit => Queue!Init
    BY QueueInit
  <1>2. RingInv /\ RingInv' /\ [RingNext]_ringVars => [Queue!Next]_Queue!queueVars
    BY QueueStep
  <1> QED BY <1>1, <1>2, RingInvariant, PTL DEF RingSpec, ImplementsQueue, Queue!Spec
=============================================================================
