------------------------------ MODULE TimeBuckets ------------------------------
(***************************************************************************)
(* What an event queue promises, without keys or counters: one FIFO bucket *)
(* per instant, and the earliest non-empty bucket is served first.         *)
(* "Maintains events in chronological order.  Events at the same time are  *)
(* processed in insertion order (FIFO)" (src/executor/event.rs:15-16).     *)
(***************************************************************************)
EXTENDS Naturals, Sequences

CONSTANTS
  MaxTime,   \* instants are 0..MaxTime
  Payloads   \* what distinguishes two events of the same instant

VARIABLES
  bucket,    \* instant -> payloads waiting there, oldest first
  returned   \* what the last operation returned, a sequence of events

bucketVars == <<bucket, returned>>

Times == 0..MaxTime
Waiting == {t \in Times : bucket[t] # <<>>}
Earliest == CHOOSE t \in Waiting : \A u \in Waiting : t <= u

BucketInit ==
  /\ bucket = [t \in Times |-> <<>>]
  /\ returned = <<>>

Put(t, p) ==
  /\ bucket' = [bucket EXCEPT ![t] = Append(@, p)]
  /\ returned' = <<>>

Take ==
  /\ Waiting # {}
  /\ returned' = <<[time |-> Earliest, payload |-> Head(bucket[Earliest])]>>
  /\ bucket' = [bucket EXCEPT ![Earliest] = Tail(@)]

TakeNothing ==
  /\ Waiting = {}
  /\ returned' = <<>>
  /\ UNCHANGED bucket

\* Everything up to target, bucket after bucket.
TakeUntil(target) ==
  /\ bucket' = [t \in Times |-> IF t <= target THEN <<>> ELSE bucket[t]]
  /\ LET due[t \in Times] ==
           (IF t = 0 THEN <<>> ELSE due[t - 1])
             \o [i \in 1..Len(bucket[t]) |-> [time |-> t, payload |-> bucket[t][i]]]
     IN  returned' = due[target]

Forget ==
  /\ bucket' = [t \in Times |-> <<>>]
  /\ returned' = <<>>

BucketNext ==
  \/ \E t \in Times, p \in Payloads : Put(t, p)
  \/ Take
  \/ TakeNothing
  \/ \E t \in Times : TakeUntil(t)
  \/ Forget

BucketSpec == BucketInit /\ [][BucketNext]_bucketVars
===============================================================================
