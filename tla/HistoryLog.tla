----------------------------- MODULE HistoryLog -----------------------------
(***************************************************************************)
(* The lock-free ring of history_log.cpp and its replay loop in            *)
(* mqtt_sender.cpp (replay_history_if_pending).                            *)
(*                                                                         *)
(* head and tail are size_t counters that wrap; the slot of a counter is   *)
(* its value modulo the capacity.  The sensor task appends, the publish    *)
(* task peeks, publishes and, once the broker confirms, advances.  Both    *)
(* run on one core and the sensor task has the higher priority, so an      *)
(* append is never interrupted by the publish task while a peek can be     *)
(* interrupted by an append between any two records it copies.             *)
(*                                                                         *)
(* A record is the number of the append that wrote it.                     *)
(***************************************************************************)
EXTENDS Naturals, Sequences

CONSTANTS
  Capacity,   \* CAPACITY, 8192 in the code
  SizeMax,    \* the number of values of size_t, 2^32 on the target
  Batch,      \* BACKFILL_BATCH_SIZE
  MaxBatches, \* BACKFILL_MAX_BATCHES_PER_CYCLE
  Overlap,    \* may an append interrupt a peek?
  MaxAppends  \* bound: appends

(* CAPACITY divides the range of size_t because both are powers of two.    *)
ASSUME HistoryConstants ==
  /\ Capacity \in Nat \ {0} /\ SizeMax \in Nat /\ SizeMax > Capacity
  /\ SizeMax % Capacity = 0
  /\ Batch \in Nat \ {0} /\ MaxBatches \in Nat \ {0}
  /\ Overlap \in BOOLEAN /\ MaxAppends \in Nat

VARIABLES
  s_ring,   \* slot -> record, 0 when never written
  s_head, s_tail,
  rpPc,     \* replay_history_if_pending(): "idle", "next", "copy", "await"
  tail,     \* peek_batch's tail and count, and how many records it copied
  count,
  out,      \* the caller's batch
  batches,  \* batches confirmed in this publish cycle
  appended, \* history: records appended
  replayed  \* history: the last record confirmed

ringVars == <<s_ring, s_head, s_tail>>
peekVars == <<tail, count, out>>
logVars == <<ringVars, peekVars, rpPc, batches, appended, replayed>>

ringIndex(counter) == counter % Capacity

(* The unsigned difference of two counters.                                *)
Distance(h, t) == (h + SizeMax - t) % SizeMax

(* Mutant: a lapped tail is not corrected.                                 *)
MutLappedTail(h, t) == t

(* Mutant: the corrected tail skips one record too many.                   *)
MutShortTail(h, t) ==
  IF Distance(h, t) > Capacity THEN (h + SizeMax - Capacity + 1) % SizeMax ELSE t

correctedTail(h, t) ==
  IF Distance(h, t) > Capacity THEN (h + SizeMax - Capacity) % SizeMax ELSE t

LogInit ==
  /\ s_ring = [i \in 0..(Capacity - 1) |-> 0]
  /\ s_head = 0 /\ s_tail = 0
  /\ rpPc = "idle"
  /\ tail = 0 /\ count = 0 /\ out = <<>>
  /\ batches = 0
  /\ appended = 0 /\ replayed = 0

-----------------------------------------------------------------------------
(* history_log_append().  The counters stay within one size_t cycle of     *)
(* each other (2^32 readings).                                             *)
HistoryAppend ==
  /\ appended < MaxAppends
  /\ Distance(s_head, s_tail) < SizeMax - 1
  /\ rpPc = "copy" => Overlap
  /\ s_ring' = [s_ring EXCEPT ![ringIndex(s_head)] = appended + 1]
  /\ s_head' = (s_head + 1) % SizeMax
  /\ appended' = appended + 1
  /\ UNCHANGED <<s_tail, rpPc, peekVars, batches, replayed>>

(* A healthy publish cycle enters the replay loop.                         *)
ReplayStart ==
  /\ rpPc = "idle"
  /\ rpPc' = "next"
  /\ batches' = 0
  /\ UNCHANGED <<ringVars, peekVars, appended, replayed>>

(* history_log_has_pending() and the first half of                         *)
(* history_log_peek_batch(): a lapped tail is corrected.                   *)
HasPending == s_head # s_tail
MinOf(a, b) == IF a < b THEN a ELSE b

PeekBatch ==
  /\ rpPc = "next"
  /\ batches < MaxBatches /\ HasPending
  /\ s_tail' = correctedTail(s_head, s_tail)
  /\ tail' = s_tail'
  /\ count' = MinOf(Distance(s_head, s_tail'), Batch)
  /\ out' = <<>>
  /\ rpPc' = "copy"
  /\ UNCHANGED <<s_ring, s_head, batches, appended, replayed>>

ReplayDone ==
  /\ rpPc = "next"
  /\ batches = MaxBatches \/ ~HasPending
  /\ rpPc' = "idle"
  /\ UNCHANGED <<ringVars, peekVars, batches, appended, replayed>>

(* One record is copied, across the end of the ring too; the last one is   *)
(* followed by the publish.                                                *)
CopyRecord ==
  /\ rpPc = "copy"
  /\ out' = Append(out, s_ring[ringIndex(tail + Len(out))])
  /\ rpPc' = IF Len(out) + 1 = count THEN "await" ELSE "copy"
  /\ UNCHANGED <<ringVars, tail, count, batches, appended, replayed>>

(* The broker's acknowledgement: history_log_advance() ...                 *)
BatchAcked ==
  /\ rpPc = "await"
  /\ s_tail' = (s_tail + Len(out)) % SizeMax
  /\ replayed' = out[Len(out)]
  /\ batches' = batches + 1
  /\ rpPc' = "next"
  /\ UNCHANGED <<s_ring, s_head, peekVars, appended>>

(* ... or its absence.                                                     *)
BatchNotAcked ==
  /\ rpPc = "await"
  /\ rpPc' = "idle"
  /\ UNCHANGED <<ringVars, peekVars, batches, appended, replayed>>

LogNext ==
  \/ HistoryAppend \/ ReplayStart \/ PeekBatch \/ ReplayDone \/ CopyRecord
  \/ BatchAcked \/ BatchNotAcked

LogSpec == LogInit /\ [][LogNext]_logVars

-----------------------------------------------------------------------------
(* Properties.                                                             *)

(* Every variable holds a value of its C++ type.                           *)
LogTypeOK ==
  /\ s_ring \in [0..(Capacity - 1) -> Nat]
  /\ s_head \in 0..(SizeMax - 1) /\ s_tail \in 0..(SizeMax - 1)
  /\ rpPc \in {"idle", "next", "copy", "await"}
  /\ tail \in 0..(SizeMax - 1)
  /\ count \in 0..Batch
  /\ out \in Seq(Nat) /\ Len(out) <= Batch
  /\ batches \in 0..MaxBatches
  /\ appended \in Nat /\ replayed \in Nat

(* The pending records, oldest first.                                      *)
Pending ==
  LET n == MinOf(Distance(s_head, s_tail), Capacity)
  IN  [i \in 1..n |-> s_ring[ringIndex(s_head + SizeMax - n + i - 1)]]

(* The batch a peek is about to hand out, or has.                          *)
PeekedBatch ==
  IF rpPc \notin {"copy", "await"} THEN <<>>
  ELSE [i \in 1..count |->
          IF i <= Len(out) THEN out[i] ELSE s_ring[ringIndex(tail + i - 1)]]

(* The ring implements the queue: nothing pending is lost below capacity,  *)
(* batches are the oldest records in order, and a record leaves only when  *)
(* the batch that carried it is confirmed, across counter wraps and laps.  *)
Queue == INSTANCE HistoryQueue
           WITH queue <- Pending, inFlight <- PeekedBatch
ImplementsQueue == Queue!QueueSpec

(* "oldest not-yet-replayed entries ... oldest first": a batch is in the   *)
(* order of the appends and starts after everything already replayed.      *)
ReplayOrdered ==
  rpPc = "await" =>
    /\ out[1] > replayed
    /\ \A i \in 1..(Len(out) - 1) : out[i] < out[i + 1]
=============================================================================
