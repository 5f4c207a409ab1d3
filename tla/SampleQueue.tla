---------------------------- MODULE SampleQueue ----------------------------
(***************************************************************************)
(* What the sample ring of an IBS device promises: a bounded FIFO queue of *)
(* records.  A new sample is appended while there is room and dropped only *)
(* when the queue is full; a read removes records from the front.  Records *)
(* carry their serial number, so a queue that reordered, duplicated or     *)
(* overwrote one would not be a behaviour of this specification.           *)
(***************************************************************************)
EXTENDS Integers, Sequences

VARIABLES bound,        \* most records the queue holds; it never changes
          queue,        \* the records waiting to be read
          accepted,     \* records appended so far
          dropped       \* samples lost so far

queueVars == <<bound, queue, accepted, dropped>>

Init == bound \in Nat /\ queue = <<>> /\ accepted = 0 /\ dropped = 0

Accept ==
  /\ Len(queue) < bound
  /\ queue' = Append(queue, accepted + 1)
  /\ accepted' = accepted + 1
  /\ UNCHANGED <<bound, dropped>>

Drop ==
  /\ Len(queue) = bound
  /\ dropped' = dropped + 1
  /\ UNCHANGED <<bound, queue, accepted>>

Take(n) ==
  /\ n <= Len(queue)
  /\ queue' = SubSeq(queue, n + 1, Len(queue))
  /\ UNCHANGED <<bound, accepted, dropped>>

Next == Accept \/ Drop \/ \E n \in 1 .. bound : Take(n)

Spec == Init /\ [][Next]_queueVars
=============================================================================
