---------------------------- MODULE HistoryQueue ----------------------------
(***************************************************************************)
(* What the store-and-forward log promises (history_log.h): a queue of the *)
(* readings that failed to publish, oldest first, which forgets its oldest *)
(* reading only when it is full, and a reading that was replayed only once *)
(* the batch that carried it is confirmed.                                 *)
(***************************************************************************)
EXTENDS Naturals, Sequences

CONSTANTS
  Capacity, \* readings the log can hold
  Batch     \* readings one replay message can carry

VARIABLES
  queue,    \* pending readings, oldest first
  inFlight, \* the batch handed to the broker
  appended  \* readings appended so far; the n-th one is called n

queueVars == <<queue, inFlight, appended>>

LastOf(s, n) == IF Len(s) <= n THEN s ELSE SubSeq(s, Len(s) - n + 1, Len(s))
FirstOf(s, n) == IF Len(s) <= n THEN s ELSE SubSeq(s, 1, n)
Within(x, s) == \E i \in 1..Len(s) : s[i] = x

QueueInit == queue = <<>> /\ inFlight = <<>> /\ appended = 0

(* A failed publish appends its reading; a full log forgets the oldest.    *)
Append1 ==
  /\ appended' = appended + 1
  /\ queue' = LastOf(Append(queue, appended + 1), Capacity)
  /\ UNCHANGED inFlight

(* The oldest pending readings are sent.                                   *)
Send ==
  /\ inFlight = <<>> /\ queue # <<>>
  /\ inFlight' = FirstOf(queue, Batch)
  /\ UNCHANGED <<queue, appended>>

(* They are confirmed, and gone, or not, and stay.  Some may have been     *)
(* forgotten on the way: what is left of the batch is the queue's front.   *)
Confirm ==
  /\ inFlight # <<>>
  /\ \E n \in 0..Len(queue) :
       /\ \A i \in 1..Len(queue) : Within(queue[i], inFlight) <=> i <= n
       /\ queue' = SubSeq(queue, n + 1, Len(queue))
  /\ inFlight' = <<>>
  /\ UNCHANGED appended

Resign ==
  /\ inFlight # <<>>
  /\ inFlight' = <<>>
  /\ UNCHANGED <<queue, appended>>

QueueNext == Append1 \/ Send \/ Confirm \/ Resign

QueueSpec == QueueInit /\ [][QueueNext]_queueVars
=============================================================================
