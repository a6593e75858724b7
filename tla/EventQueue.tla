------------------------------ MODULE EventQueue ------------------------------
(***************************************************************************)
(* The priority queue of src/executor/event.rs as operators on its value.  *)
(*                                                                         *)
(* The BTreeMap keyed by (time, counter) is a set of entries; an entry     *)
(* pairs an event with the value the counter had when it was pushed, so    *)
(* the pair (event.time, seq) is its key.  The counter is u64 in the code; *)
(* it is a natural here, 2^64 pushes being out of reach of any run.        *)
(***************************************************************************)
EXTENDS Naturals, Sequences, FiniteSets

EmptyQueue == [entries |-> {}, counter |-> 0]

\* Mutants: newest first at equal times, a counter that push_all does not advance,
\* an order that is not looked at, a bound that excludes the target itself.
EarlierLifo(a, b) ==
  \/ a.event.time < b.event.time
  \/ a.event.time = b.event.time /\ a.seq > b.seq
PushAllFrozen(q, evs) ==
  [entries |-> q.entries \cup {[event |-> evs[i], seq |-> q.counter] : i \in DOMAIN evs},
   counter |-> q.counter]
IsAny(e, q) == e \in q.entries
DueBefore(q, target) == {e \in q.entries : e.event.time < target}

\* The tuple order on the keys (time, counter).
Earlier(a, b) ==
  \/ a.event.time < b.event.time
  \/ a.event.time = b.event.time /\ a.seq < b.seq

Entry(ev, n) == [event |-> ev, seq |-> n]

Push(q, ev) ==
  [entries |-> q.entries \cup {Entry(ev, q.counter)}, counter |-> q.counter + 1]

\* One push per event, in the order of the sequence.
PushAll(q, evs) ==
  [entries |-> q.entries \cup {Entry(evs[i], q.counter + i - 1) : i \in 1..Len(evs)},
   counter |-> q.counter + Len(evs)]

\* e is the entry that pop_first removes and first_key_value reads.
IsFirst(e, q) == e \in q.entries /\ \A f \in q.entries \ {e} : Earlier(e, f)

Without(q, removed) == [entries |-> q.entries \ removed, counter |-> q.counter]

\* The entries drain_until takes, and those a run_until may process.
DueBy(q, target) == {e \in q.entries : e.event.time <= target}

\* The queue's type: every entry carries a past value of the counter, and no
\* two carry the same, so BTreeMap::insert never replaces a pending event.
EntrySet(Event) == [event : Event, seq : Nat]
QueueOK(q, Event) ==
  /\ q \in [entries : SUBSET EntrySet(Event), counter : Nat]
  /\ IsFiniteSet(q.entries)
  /\ \A e \in q.entries : e.seq < q.counter
  /\ \A e, f \in q.entries : e.seq = f.seq => e = f
===============================================================================
