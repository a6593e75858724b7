----------------------------- MODULE EventQueueOps -----------------------------
(***************************************************************************)
(* EventQueue (src/executor/event.rs:18-93) as a state machine: its public *)
(* operations in any order, and its refinement of TimeBuckets.             *)
(***************************************************************************)
EXTENDS EventQueue

CONSTANTS
  MaxTime,    \* bound: event times are 0..MaxTime
  Payloads,   \* distinguishable payloads
  MaxPushes   \* bound: pushes between two clears

ASSUME QueueBounds == MaxTime \in Nat /\ MaxPushes \in Nat

VARIABLES
  queue,      \* the EventQueue
  returned    \* what the last call returned: pop's Option and drain's Vec as a sequence

vars == <<queue, returned>>

Event == [time : 0..MaxTime, payload : Payloads]

\* The entries of a set in key order, as popping them one by one yields them.
InKeyOrder(entries) ==
  CHOOSE s \in [1..Cardinality(entries) -> entries] :
    \A i, j \in DOMAIN s : i < j => Earlier(s[i], s[j])

Init ==
  /\ queue = EmptyQueue
  /\ returned = <<>>

PushEvent(ev) ==
  /\ queue.counter < MaxPushes
  /\ queue' = Push(queue, ev)
  /\ returned' = <<>>

\* pop on a non-empty queue; peek reads the same entry and changes nothing.
Pop ==
  \E e \in queue.entries :
    /\ IsFirst(e, queue)
    /\ queue' = Without(queue, {e})
    /\ returned' = <<e.event>>

PopEmpty ==
  /\ queue.entries = {}
  /\ returned' = <<>>
  /\ UNCHANGED queue

\* The loop of drain_until pops the due entries one by one, so in key order.
DrainUntil(target) ==
  LET due    == DueBy(queue, target)
      popped == InKeyOrder(due)
  IN  /\ queue' = Without(queue, due)
      /\ returned' = [i \in 1..Len(popped) |-> popped[i].event]

Clear ==
  /\ queue' = EmptyQueue
  /\ returned' = <<>>

Next ==
  \/ \E ev \in Event : PushEvent(ev)
  \/ Pop
  \/ PopEmpty
  \/ \E t \in 0..MaxTime : DrainUntil(t)
  \/ Clear

Spec == Init /\ [][Next]_vars

-------------------------------------------------------------------------------
\* The keys of one instant, in counter order, are the abstract FIFO bucket.
BucketAt(t) ==
  LET sorted == InKeyOrder({e \in queue.entries : e.event.time = t})
  IN  [i \in 1..Len(sorted) |-> sorted[i].event.payload]

Buckets == INSTANCE TimeBuckets WITH bucket <- [t \in 0..MaxTime |-> BucketAt(t)]

\* The (time, counter) keys implement chronological order with FIFO inside one
\* instant, for pop and for drain_until (src/executor/event.rs:15-16, 49, 80).
ImplementsBuckets == Buckets!BucketSpec
===============================================================================
