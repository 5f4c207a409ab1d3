------------------------------ MODULE IbsRing ------------------------------
(***************************************************************************)
(* The sample ring of one ibs_dev: the NMI handler of the device's CPU     *)
(* produces records (driver/ibs-interrupt.c), the holder of dev->read_lock *)
(* consumes them (do_ibs_read in driver/ibs-fops.c), and any thread may    *)
(* exchange the lost counter (GET_LOST).  The two sides share no lock:     *)
(* they meet only in the atomics wr, rd, entries and lost and in the       *)
(* buffer, so every access to one of those is a step of its own.           *)
(*                                                                         *)
(* A record is its serial number: the k-th record stored is k.  NoRecord   *)
(* stands for bytes that are no record of this device: memory past the end *)
(* of the buffer, a slot never written, or user memory copy_to_user did    *)
(* not fill.  Sizes are counted in entries (entry_size is one unit).       *)
(***************************************************************************)
EXTENDS Integers, Sequences

CONSTANTS Capacities,   \* buffer capacities, in entries
          MaxEvents     \* bound: number of sample interrupts of a behaviour

ASSUME RingAssumption == /\ Capacities \subseteq Nat \ {0}
                         /\ MaxEvents \in Nat

VARIABLES
  capacity, buf,              \* dev->capacity and the slots of dev->buf
  wr, rd, entries, lost,      \* the atomics of struct ibs_dev
  npc, old_wr, new_wr,        \* the NMI handler: program counter, locals
  rpc, want,                  \* the reader: program counter, requested count
  l_rd, l_wr, l_cnt, ubuf,    \* do_ibs_read: locals and the user's buffer
  events, stored,             \* history: interrupts handled, records stored
  taken, reported             \* history: records consumed, losses reported

nmiVars    == <<npc, old_wr, new_wr, events, stored>>
readerVars == <<rpc, want, l_rd, l_wr, l_cnt, ubuf, taken>>
atomicVars == <<wr, rd, entries, lost>>
ringVars   == <<capacity, buf, atomicVars, nmiVars, readerVars, reported>>

NoRecord == 0

Slots == 0 .. capacity - 1

\* Number of steps around the ring from slot a to slot b.
Dist(a, b) == IF a <= b THEN b - a ELSE b - a + capacity

\* Records between the read and the write index.
Occupancy == Dist(rd, wr)

NmiStates    == {"idle", "lost", "store", "setwr", "inc", "queue", "out"}
ReaderStates == {"idle", "rd", "wr", "entries", "copy", "copy2", "setrd", "sub"}

RingInit ==
  /\ capacity \in Capacities
  /\ buf = [s \in Slots |-> NoRecord]
  /\ wr = 0 /\ rd = 0 /\ entries = 0 /\ lost = 0
  /\ npc = "idle" /\ old_wr = 0 /\ new_wr = 0
  /\ rpc = "idle" /\ want = 0
  /\ l_rd = 0 /\ l_wr = 0 /\ l_cnt = 0 /\ ubuf = <<>>
  /\ events = 0 /\ stored = 0 /\ taken = 0 /\ reported = 0

-----------------------------------------------------------------------------
(* The NMI handler, past its checks that the sample is real.               *)

\* The slot after slot a.
NextSlot(a) == (a + 1) % capacity

\* The ring is full when advancing wr would make it equal to rd.
RingFullNever(w) == FALSE
RingFull(w) == w = rd

NmiCheck ==
  /\ npc = "idle"
  /\ events < MaxEvents
  /\ events' = events + 1
  /\ old_wr' = wr
  /\ new_wr' = NextSlot(wr)
  /\ npc' = IF RingFull(NextSlot(wr)) THEN "lost" ELSE "store"
  /\ UNCHANGED <<capacity, buf, atomicVars, stored, readerVars, reported>>

NmiLostSkip ==
  /\ npc = "lost"
  /\ npc' = "out"
  /\ UNCHANGED <<capacity, buf, atomicVars, old_wr, new_wr, events, stored,
                 readerVars, reported>>
NmiLost ==
  /\ npc = "lost"
  /\ lost' = lost + 1
  /\ npc' = "out"
  /\ UNCHANGED <<capacity, buf, wr, rd, entries, old_wr, new_wr, events,
                 stored, readerVars, reported>>

\* collect_op_data/collect_fetch_data and collect_common_data: the record is
\* assembled in place.  NoDataRace shows that no reader looks at the slot
\* meanwhile, so assembling it is one step.
NmiStoreNext ==
  /\ npc = "store"
  /\ buf' = [buf EXCEPT ![new_wr] = stored + 1]
  /\ stored' = stored + 1
  /\ npc' = "setwr"
  /\ UNCHANGED <<capacity, atomicVars, old_wr, new_wr, events, readerVars,
                 reported>>
NmiStore ==
  /\ npc = "store"
  /\ buf' = [buf EXCEPT ![old_wr] = stored + 1]
  /\ stored' = stored + 1
  /\ npc' = "setwr"
  /\ UNCHANGED <<capacity, atomicVars, old_wr, new_wr, events, readerVars,
                 reported>>

NmiSetWr ==
  /\ npc = "setwr"
  /\ wr' = new_wr
  /\ npc' = "inc"
  /\ UNCHANGED <<capacity, buf, rd, entries, lost, old_wr, new_wr, events,
                 stored, readerVars, reported>>

NmiIncTwice ==
  /\ npc = "inc"
  /\ entries' = entries + 2
  /\ npc' = "queue"
  /\ UNCHANGED <<capacity, buf, wr, rd, lost, old_wr, new_wr, events, stored,
                 readerVars, reported>>
NmiInc ==
  /\ npc = "inc"
  /\ entries' = entries + 1
  /\ npc' = "queue"
  /\ UNCHANGED <<capacity, buf, wr, rd, lost, old_wr, new_wr, events, stored,
                 readerVars, reported>>

\* irq_work_queue(&dev->bottom_half); its effect is in IbsDevice.
NmiQueue ==
  /\ npc = "queue"
  /\ npc' = "out"
  /\ UNCHANGED <<capacity, buf, atomicVars, old_wr, new_wr, events, stored,
                 readerVars, reported>>

\* The label out: of the handlers, which re-arms the sampling hardware.
NmiOut ==
  /\ npc = "out"
  /\ npc' = "idle" /\ old_wr' = 0 /\ new_wr' = 0
  /\ UNCHANGED <<capacity, buf, atomicVars, events, stored, readerVars, reported>>

Nmi == NmiCheck \/ NmiLost \/ NmiStore \/ NmiSetWr \/ NmiInc \/ NmiQueue \/ NmiOut

-----------------------------------------------------------------------------
(* The reader: the holder of dev->read_lock.                               *)

\* do_ibs_read returns; its locals end with it.
ReadReturn ==
  rpc' = "idle" /\ want' = 0 /\ l_rd' = 0 /\ l_wr' = 0 /\ l_cnt' = 0 /\ ubuf' = <<>>

\* ibs_read: count was checked against the buffer size, read_lock is held
\* and the loop's test saw entries; do_ibs_read starts.
ReadBegin(n) ==
  /\ rpc = "idle"
  /\ entries # 0
  /\ want' = n
  /\ rpc' = "rd"
  /\ UNCHANGED <<capacity, buf, atomicVars, nmiVars, l_rd, l_wr, l_cnt, ubuf,
                 taken, reported>>

ReadRd ==
  /\ rpc = "rd"
  /\ l_rd' = rd
  /\ rpc' = "wr"
  /\ UNCHANGED <<capacity, buf, atomicVars, nmiVars, want, l_wr, l_cnt, ubuf,
                 taken, reported>>

ReadWr ==
  /\ rpc = "wr"
  /\ l_wr' = wr
  /\ rpc' = "entries"
  /\ UNCHANGED <<capacity, buf, atomicVars, nmiVars, want, l_rd, l_cnt, ubuf,
                 taken, reported>>

\* count = min(count, (size_t)(entries * entry_size)): a negative entries
\* becomes a huge size_t and does not limit count.
ReadCount == IF entries < 0 \/ want < entries THEN want ELSE entries

ReadEntries ==
  /\ rpc = "entries"
  /\ l_cnt' = ReadCount
  /\ rpc' = IF ReadCount = 0 THEN "idle" ELSE "copy"
  /\ UNCHANGED <<capacity, buf, atomicVars, nmiVars, want, l_rd, l_wr, ubuf,
                 taken, reported>>

\* capacity - rd as an unsigned number: it wraps to more than any count when
\* the buffer was shrunk since rd was loaded.
BytesToEnd == IF l_rd <= capacity THEN capacity - l_rd ELSE l_cnt

\* What a copy from slot s of the buffer delivers.
SlotContent(s) == IF s \in DOMAIN buf THEN buf[s] ELSE NoRecord

\* "Buffer has not wrapped": one copy of count entries from rd on.
CopyStraightOffByOne ==
  /\ rpc = "copy"
  /\ l_rd < l_wr
  /\ ubuf' = [i \in 1 .. l_cnt |-> SlotContent(l_rd + i)]
  /\ rpc' = "setrd"
  /\ UNCHANGED <<capacity, buf, atomicVars, nmiVars, want, l_rd, l_wr, l_cnt,
                 taken, reported>>
CopyStraight ==
  /\ rpc = "copy"
  /\ l_rd < l_wr
  /\ ubuf' = [i \in 1 .. l_cnt |-> SlotContent(l_rd + i - 1)]
  /\ rpc' = "setrd"
  /\ UNCHANGED <<capacity, buf, atomicVars, nmiVars, want, l_rd, l_wr, l_cnt,
                 taken, reported>>

\* "Buffer has wrapped": first up to the end of the buffer ...
CopyToEnd ==
  /\ rpc = "copy"
  /\ ~(l_rd < l_wr)
  /\ ubuf' = [i \in 1 .. l_cnt |->
                IF i <= BytesToEnd THEN SlotContent(l_rd + i - 1) ELSE NoRecord]
  /\ rpc' = IF l_cnt > BytesToEnd THEN "copy2" ELSE "setrd"
  /\ UNCHANGED <<capacity, buf, atomicVars, nmiVars, want, l_rd, l_wr, l_cnt,
                 taken, reported>>

\* ... then min(count - bytes_to_end, wr) entries from the buffer's start.
CopyRestDropped ==
  /\ rpc = "copy2"
  /\ rpc' = "setrd"
  /\ UNCHANGED <<capacity, buf, atomicVars, nmiVars, want, l_rd, l_wr, l_cnt,
                 ubuf, taken, reported>>
CopyFromStart ==
  /\ rpc = "copy2"
  /\ ubuf' = [i \in 1 .. l_cnt |->
                IF i > BytesToEnd /\ i - BytesToEnd <= l_wr
                THEN SlotContent(i - BytesToEnd - 1) ELSE ubuf[i]]
  /\ rpc' = "setrd"
  /\ UNCHANGED <<capacity, buf, atomicVars, nmiVars, want, l_rd, l_wr, l_cnt,
                 taken, reported>>

\* copy_to_user fails: -EFAULT, and nothing is consumed.
CopyFault ==
  /\ rpc \in {"copy", "copy2"}
  /\ ReadReturn
  /\ UNCHANGED <<capacity, buf, atomicVars, nmiVars, taken, reported>>

SetRd ==
  /\ rpc = "setrd"
  /\ rd' = (l_rd + l_cnt) % capacity
  /\ taken' = taken + l_cnt
  /\ rpc' = "sub"
  /\ UNCHANGED <<capacity, buf, wr, entries, lost, nmiVars, want, l_rd, l_wr,
                 l_cnt, ubuf, reported>>

SubEntries ==
  /\ rpc = "sub"
  /\ entries' = entries - l_cnt
  /\ ReadReturn
  /\ UNCHANGED <<capacity, buf, wr, rd, lost, nmiVars, taken, reported>>

\* do_ibs_read after its first statement.
DoIbsRead == \/ ReadRd \/ ReadWr \/ ReadEntries \/ CopyStraight \/ CopyToEnd
             \/ CopyFromStart \/ CopyFault \/ SetRd \/ SubEntries

Reader == (\E n \in 1 .. capacity : ReadBegin(n)) \/ DoIbsRead

\* GET_LOST: atomic_long_xchg(&dev->lost, 0), without a lock.
GetLost ==
  /\ reported' = reported + lost
  /\ lost' = 0
  /\ UNCHANGED <<capacity, buf, wr, rd, entries, nmiVars, readerVars>>

RingNext == Nmi \/ Reader \/ GetLost

RingSpec == RingInit /\ [][RingNext]_ringVars

-----------------------------------------------------------------------------
(* Properties.                                                             *)

Flag(b) == IF b THEN 1 ELSE 0

\* Types of the ring, the NMI handler's and the reader's locals.
RingTypeOK ==
  /\ capacity \in Capacities
  /\ buf \in [Slots -> Nat]
  /\ wr \in Slots /\ rd \in Slots
  /\ entries \in Nat /\ lost \in Nat
  /\ npc \in NmiStates /\ old_wr \in Slots /\ new_wr \in Slots
  /\ rpc \in ReaderStates /\ want \in Nat
  /\ l_rd \in Slots /\ l_wr \in Slots /\ l_cnt \in Nat
  /\ ubuf \in Seq(Nat)
  /\ events \in Nat /\ stored \in Nat /\ taken \in Nat /\ reported \in Nat

\* entries ("buffer occupancy in entries", struct ibs_dev) is the distance
\* from rd to wr, except that it lags one behind between the handler's store
\* to wr and its increment, and runs ahead by the records just read between
\* the reader's store to rd and its subtraction.  So it never goes negative
\* and no path loses or double-counts a record.
EntriesAccounting ==
  entries = Occupancy - Flag(npc = "inc") + (IF rpc = "sub" THEN l_cnt ELSE 0)

\* Every sample interrupt is accounted for: stored, counted as lost (and
\* perhaps already reported through GET_LOST's exchange), or in progress.
EventConservation ==
  events = stored + lost + reported + Flag(npc \in {"store", "lost"})

\* The slots from rd up to wr hold the records not yet consumed, in the order
\* in which they were sampled: no record is overwritten before it is read,
\* skipped or read twice, however reads and interrupts interleave.
LiveRecords ==
  /\ stored = taken + Occupancy + Flag(npc = "setwr")
  /\ \A s \in Slots :
       Dist(rd, s) < Occupancy => buf[s] = taken + 1 + Dist(rd, s)

\* The slots do_ibs_read copies from.
CopySlots == {s \in Slots : Dist(l_rd, s) < l_cnt}

\* The handler never fills a slot that a reader is copying: the full test
\* against rd, which the reader moves only after copying, keeps them apart.
NoDataRace ==
  npc = "store" /\ rpc \in {"copy", "copy2"} => old_wr \notin CopySlots

\* A reader never gets a record out of order, twice, or one that belongs to a
\* later read: position i of its buffer holds the i-th unread record or bytes
\* that are no record at all.
DeliveredInOrder ==
  rpc = "setrd" => \A i \in 1 .. l_cnt : ubuf[i] \in {taken + i, NoRecord}

\* As long as no interrupt stored a record between the reader's loads of wr
\* and of entries (so that count is within the distance to the loaded wr), the
\* reader gets exactly the records it is told it got.
CleanReadIsExact ==
  rpc = "setrd" /\ l_cnt <= Dist(l_rd, l_wr)
    => \A i \in 1 .. l_cnt : ubuf[i] = taken + i

\* What ibs-fops.h promises of a read, for every interleaving: all of the
\* count it returns are records.  Violated: see the run ring_torn_read.
ReadIsExact ==
  rpc = "setrd" => \A i \in 1 .. l_cnt : ubuf[i] = taken + i

\* The ring as a bounded queue: its content is what lies between rd and wr.
Queue == INSTANCE SampleQueue WITH
           bound    <- capacity - 1,
           queue    <- [i \in 1 .. Occupancy |-> buf[(rd + i - 1) % capacity]],
           accepted <- stored - Flag(npc = "setwr"),
           dropped  <- lost + reported + Flag(npc = "lost")

\* The ring implements the bounded FIFO queue: records enter at the back, leave
\* from the front in order, and a sample is dropped only when capacity - 1
\* records are waiting.
ImplementsQueue == Queue!Spec
=============================================================================
