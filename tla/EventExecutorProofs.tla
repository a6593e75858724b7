-------------------------- MODULE EventExecutorProofs --------------------------
(***************************************************************************)
(* Proofs about EventExecutor, for every set of nodes, delays and bounds,  *)
(* and about NodeNetwork, for every network of built-in nodes.             *)
(*                                                                         *)
(* First the executor with its nodes' answers left open, then, under       *)
(* NetSpec: the types (NetTypes), the counters (CountersAgree), that a     *)
(* network is such an executor (ImplementsExecutor), what becomes of an    *)
(* event (EachItemOnce), the measured delays (LatencyStatistics), and the  *)
(* sampling, numbering and order of events (SampledAndNumbered).           *)
(***************************************************************************)
EXTENDS NodeNetwork, CollectionProofs

Outgoing == [time : Nat, dst : RemoteNodes \cup {Custom}]

\* The bounded batches of events are sequences.
LEMMA EventSeqsAreSeqs ==
  ASSUME NEW S, NEW n \in Nat, NEW s \in EventSeqs(S, n)
  PROVE  s \in Seq(S) /\ Len(s) <= n
<1>1. PICK k \in 0..n : s \in [1..k -> S]
  BY DEF EventSeqs
<1>2. QED
  BY <1>1

\* The two parts of what a node returns, seen as events.
LEMMA ResponseTypes ==
  ASSUME ExecutorAssumption, TypeOK, NEW e \in queue.entries,
         NEW locals \in EventSeqs([time : {e.event.time + d : d \in Delays},
                                   dst : LocalNodes], MaxFanout),
         NEW outgoing \in EventSeqs([time : {e.event.time + d : d \in Delays},
                                     dst : RemoteNodes \cup {Custom}], MaxFanout)
  PROVE  /\ locals \in Seq(Event)
         /\ outgoing \in Seq(Outgoing)
         /\ \A i \in 1..Len(locals) : locals[i].time >= e.event.time
         /\ \A i \in 1..Len(outgoing) : outgoing[i].time >= e.event.time
<1> DEFINE L == [time : {e.event.time + d : d \in Delays}, dst : LocalNodes]
           R == [time : {e.event.time + d : d \in Delays}, dst : RemoteNodes \cup {Custom}]
<1>1. e.event.time \in Nat
  BY DEF TypeOK, QueueOK, EntrySet, Event
<1>2. /\ L \subseteq Event /\ R \subseteq Outgoing
      /\ \A x \in L \cup R : x.time >= e.event.time
  BY <1>1 DEF Event, Outgoing, Destinations, ExecutorAssumption
<1> HIDE DEF L, R
<1>3. locals \in Seq(L) /\ outgoing \in Seq(R)
  BY EventSeqsAreSeqs DEF ExecutorAssumption, L, R
<1>4. QED
  BY <1>2, <1>3

\* What peak becomes is a count.
LEMMA PeakIsNat ==
  ASSUME stats \in StatsType, NEW E, NEW q, QueueOK(q, E), NEW evs \in Seq(E)
  PROVE  PeakAfter(q, evs) \in Nat
<1>1. IsFiniteSet(PushAll(q, evs).entries)
  BY PushAllOK DEF QueueOK
<1>2. Cardinality(PushAll(q, evs).entries) \in Nat
  BY <1>1, FS_CardinalityType
<1>3. QED
  BY <1>2 DEF PeakAfter, Larger, StatsType

\* The statistics stay a record of counts.
LEMMA CountOK ==
  ASSUME stats \in StatsType, NEW a \in Nat, NEW b \in Nat, NEW c \in Nat,
         NEW d \in Nat, NEW p \in Nat, Count(a, b, c, d, p)
  PROVE  stats' \in StatsType
  BY DEF StatsType, Count

\* Type correctness: no step, and no choice of what the nodes answer, takes the
\* executor out of its types; in particular no two pending events ever share a key.
THEOREM TypeCorrect == Spec => []TypeOK
<1> USE ExecutorAssumption
<1>1. Init => TypeOK
  <2>1. QueueOK(EmptyQueue, Event)
    BY FS_EmptySet DEF QueueOK, EmptyQueue, EntrySet
  <2>2. QED
    BY <2>1 DEF Init, TypeOK, NoStats, StatsType, NoRun, RunRecord
<1>2. TypeOK /\ [Next]_vars => TypeOK'
  <2> SUFFICES ASSUME TypeOK, [Next]_vars  PROVE TypeOK'
    OBVIOUS
  <2>1. CASE InitExecutor
    <3>1. QueueOK(EmptyQueue, Event)
      BY FS_EmptySet DEF QueueOK, EmptyQueue, EntrySet
    <3>2. QED
      BY <2>1, <3>1 DEF InitExecutor, TypeOK, NoStats, StatsType, NoRun, RunRecord
  <2>2. ASSUME NEW ev \in InputEvent, ScheduleEvent(ev)  PROVE TypeOK'
    <3>1. <<ev>> \in Seq(Event)
      BY DEF InputEvent, Event, ExecutorAssumption
    <3>2. QueueOK(queue', Event)
      BY <2>2, <3>1, PushAllOK, PushIsPushAll DEF ScheduleEvent, TypeOK
    <3>3. PeakAfter(queue, <<ev>>) \in Nat
      BY <3>1, PeakIsNat DEF TypeOK
    <3>4. stats' \in StatsType /\ scheduled' \in Nat
      BY <2>2, <3>3, CountOK DEF ScheduleEvent, TypeOK
    <3>5. QED
      BY <2>2, <3>2, <3>4 DEF ScheduleEvent, TypeOK
  <2>3. ASSUME NEW evs \in EventSeqs(InputEvent, MaxScheduled), HandleIncoming(evs)
        PROVE  TypeOK'
    <3>1. evs \in Seq(Event)
      <4>1. evs \in Seq(InputEvent)
        BY EventSeqsAreSeqs DEF ExecutorAssumption
      <4>2. InputEvent \subseteq Event
        BY DEF InputEvent, Event, ExecutorAssumption
      <4>3. QED
        BY <4>1, <4>2
    <3>2. QueueOK(queue', Event)
      BY <2>3, <3>1, PushAllOK DEF HandleIncoming, TypeOK
    <3>3. PeakAfter(queue, evs) \in Nat
      BY <3>1, PeakIsNat DEF TypeOK
    <3>4. stats' \in StatsType
      <4>1. Len(evs) \in Nat
        BY <3>1
      <4>2. QED
        BY <2>3, <3>3, <4>1, CountOK DEF HandleIncoming, TypeOK
    <3>5. QED
      BY <2>3, <3>2, <3>4 DEF HandleIncoming, TypeOK
  <2>4. ASSUME NEW t \in 0..MaxTime, BeginRun(t)  PROVE TypeOK'
    <3>1. target' \in Nat /\ run' \in RunRecord
      BY <2>4 DEF BeginRun, TypeOK, RunRecord, QueueOK, ExecutorAssumption
    <3>2. QED
      BY <2>4, <3>1 DEF BeginRun, TypeOK
  <2>5. CASE ProcessSomeEvent
    <3> SUFFICES ASSUME NEW e \in queue.entries,
                        NEW locals \in EventSeqs([time : {e.event.time + d : d \in Delays},
                                                  dst : LocalNodes], MaxFanout),
                        NEW outgoing \in EventSeqs([time : {e.event.time + d : d \in Delays},
                                                    dst : RemoteNodes \cup {Custom}], MaxFanout),
                        ProcessEvent(e, locals, outgoing)
                 PROVE  TypeOK'
      BY <2>5 DEF ProcessSomeEvent
    <3>1. locals \in Seq(Event) /\ outgoing \in Seq(Outgoing)
      BY ResponseTypes
    <3>2. e \in EntrySet(Event) /\ e.event.time \in Nat
      BY DEF TypeOK, QueueOK, EntrySet, Event
    <3>3. QueueOK(Without(queue, {e}), Event)
      BY WithoutOK DEF TypeOK
    <3>4. QueueOK(queue', Event)
      BY <3>1, <3>3, PushAllOK DEF ProcessEvent, HandleEvent
    <3>5. PeakAfter(Without(queue, {e}), locals) \in Nat
      BY <3>1, <3>3, PeakIsNat DEF TypeOK
    <3>6. stats' \in StatsType
      <4>1. Len(locals) \in Nat /\ Len(outgoing) \in Nat
        BY <3>1
      <4>2. Len(locals) + Len(outgoing) \in Nat
        BY <4>1
      <4>3. QED
        BY <3>5, <4>1, <4>2, CountOK DEF ProcessEvent, HandleEvent, TypeOK
    <3>7. current_time' \in Nat /\ run' \in RunRecord
      BY <3>2 DEF ProcessEvent, HandleEvent, TypeOK, RunRecord, Larger
    <3>8. all_outgoing' \in Seq(Outgoing)
      BY <3>1 DEF ProcessEvent, HandleEvent, TypeOK, Outgoing
    <3>9. QED
      BY <3>4, <3>6, <3>7, <3>8 DEF ProcessEvent, HandleEvent, TypeOK, Outgoing
  <2>6. CASE ReturnFromRun
    BY <2>6 DEF ReturnFromRun, TypeOK, RunRecord, QueueOK, Larger
  <2>7. CASE UNCHANGED vars
    BY <2>7 DEF vars, TypeOK
  <2>8. QED
    BY <2>1, <2>2, <2>3, <2>4, <2>5, <2>6, <2>7 DEF Next
<1>3. QED
  BY <1>1, <1>2, PTL DEF Spec

-------------------------------------------------------------------------------
IInv == TypeOK /\ RunInvariant /\ NothingOverdue

\* One iteration of the loop of run_until keeps the invariant of the run.
LEMMA ProcessKeepsRunInvariant ==
  ASSUME ExecutorAssumption, TypeOK, RunInvariant, TypeOK', NEW e \in queue.entries,
         NEW locals \in EventSeqs([time : {e.event.time + d : d \in Delays},
                                   dst : LocalNodes], MaxFanout),
         NEW outgoing \in EventSeqs([time : {e.event.time + d : d \in Delays},
                                     dst : RemoteNodes \cup {Custom}], MaxFanout),
         ProcessEvent(e, locals, outgoing)
  PROVE  RunInvariant'
<1> DEFINE rest == Without(queue, {e})
<1>1. /\ locals \in Seq(Event) /\ outgoing \in Seq(Outgoing)
      /\ \A i \in 1..Len(locals) : locals[i].time >= e.event.time
      /\ \A i \in 1..Len(outgoing) : outgoing[i].time >= e.event.time
  BY ResponseTypes
<1>2. e \in EntrySet(Event) /\ e.event.time \in Nat /\ e.seq \in Nat /\ e.seq < queue.counter
  BY DEF TypeOK, QueueOK, EntrySet, Event
<1>3. /\ QueueOK(rest, Event) /\ rest.entries = queue.entries \ {e}
      /\ rest.counter = queue.counter
  <2>1. QueueOK(queue, Event)
    BY DEF TypeOK
  <2>2. QueueOK(rest, Event)
    BY <2>1, WithoutOK, Zenon
  <2>3. QED
    BY <2>2 DEF Without
<1>4. /\ queue' = PushAll(rest, locals)
      /\ queue'.counter = queue.counter + Len(locals)
  BY <1>3 DEF ProcessEvent, HandleEvent, PushAll
<1>5. \A f \in queue'.entries :
        \/ f \in queue.entries \ {e}
        \/ f.seq >= queue.counter /\ f.event.time >= e.event.time
  <2>1. \A f \in PushAll(rest, locals).entries :
          \/ f \in rest.entries
          \/ f.seq >= rest.counter /\ \E i \in 1..Len(locals) : f.event = locals[i]
    BY <1>1, <1>3, PushAllOK
  <2>2. QED
    BY <2>1, <1>1, <1>3, <1>4
<1>6. \A f \in queue'.entries : f.event.time \in Nat /\ f.seq \in Nat
  BY DEF TypeOK, QueueOK, EntrySet, Event
<1>7. \A f \in queue'.entries : Earlier(e, f)
  <2>1. TAKE f \in queue'.entries
  <2>2. CASE f \in queue.entries \ {e}
    BY <2>2 DEF ProcessEvent, HandleEvent, IsFirst
  <2>3. CASE f.seq >= queue.counter /\ f.event.time >= e.event.time
    <3>1. queue.counter \in Nat
      BY DEF TypeOK, QueueOK
    <3>2. QED
      BY <2>3, <3>1, <1>2, <1>6 DEF Earlier
  <2>4. QED
    BY <2>2, <2>3, <1>5
<1>8. current_time' = Larger(e.event.time, current_time) /\ run'.last = {e}
  BY DEF ProcessEvent, HandleEvent, TypeOK, RunRecord
<1>9. run'.served = run.served /\ run'.start = run.start /\ run'.late = run.late
  BY DEF ProcessEvent, HandleEvent, TypeOK, RunRecord
<1>10. e.event.time <= target /\ target' = target /\ phase = "running"
  BY DEF ProcessEvent, HandleEvent
<1>11. /\ current_time \in Nat /\ target \in Nat /\ run.start \in Nat
       /\ run.served \in Nat /\ queue.counter \in Nat /\ run.late \in BOOLEAN
  BY DEF TypeOK, RunRecord, QueueOK
<1>12. ~run.late => /\ e.event.time >= run.start
                    /\ e.event.time >= current_time
  <2> SUFFICES ASSUME ~run.late
               PROVE  e.event.time >= run.start /\ e.event.time >= current_time
    OBVIOUS
  <2>1. e.event.time >= run.start
    BY <1>10 DEF RunInvariant
  <2>2. CASE run.last = {}
    BY <2>1, <2>2, <1>10 DEF RunInvariant
  <2>3. CASE run.last # {}
    <3>1. PICK l \in run.last : TRUE
      BY <2>3
    <3>2. Earlier(l, e) /\ l.event.time = current_time
      BY <3>1, <1>10 DEF RunInvariant
    <3>3. l.event.time \in Nat
      BY <3>1 DEF TypeOK, RunRecord, EntrySet, Event
    <3>4. QED
      BY <2>1, <3>2, <3>3, <1>2 DEF Earlier
  <2>4. QED
    BY <2>2, <2>3
<1>13. run'.served <= queue'.counter
  BY <1>1, <1>4, <1>9, <1>11 DEF RunInvariant
<1>14. ~run'.late => \A i \in DOMAIN all_outgoing' : all_outgoing'[i].time >= run'.start
  <2> SUFFICES ASSUME ~run.late, NEW i \in DOMAIN (all_outgoing \o outgoing)
               PROVE  (all_outgoing \o outgoing)[i].time >= run.start
    BY <1>9 DEF ProcessEvent, HandleEvent
  <2>1. all_outgoing \in Seq(Outgoing)
    BY DEF TypeOK, Outgoing
  <2>2. CASE i <= Len(all_outgoing)
    <3>1. i \in DOMAIN all_outgoing /\ (all_outgoing \o outgoing)[i] = all_outgoing[i]
      BY <2>1, <2>2, <1>1
    <3>2. QED
      BY <3>1 DEF RunInvariant
  <2>3. CASE i > Len(all_outgoing)
    <3>1. PICK j \in 1..Len(outgoing) : (all_outgoing \o outgoing)[i] = outgoing[j]
      <4>1. i - Len(all_outgoing) \in 1..Len(outgoing)
        BY <2>1, <2>3, <1>1
      <4>2. (all_outgoing \o outgoing)[i] = outgoing[i - Len(all_outgoing)]
        BY <2>1, <2>3, <1>1
      <4>3. QED
        BY <4>1, <4>2
    <3>2. outgoing[j] \in Outgoing
      BY <1>1
    <3>3. outgoing[j].time \in Nat /\ outgoing[j].time >= e.event.time
      BY <3>2, <1>1 DEF Outgoing
    <3>4. QED
      BY <3>1, <3>3, <1>2, <1>11, <1>12, SMTT(30)
  <2>4. QED
    BY <2>1, <2>2, <2>3, <1>1
<1>15. run'.start <= current_time' /\ current_time' <= Larger(target', run'.start)
  BY <1>2, <1>8, <1>9, <1>10, <1>11 DEF RunInvariant, Larger
<1>16. ~run'.late => /\ \A f \in queue'.entries : f.event.time >= run'.start
                     /\ \A l \in run'.last : l.event.time = current_time'
  <2> SUFFICES ASSUME ~run.late
               PROVE  /\ \A f \in queue'.entries : f.event.time >= run.start
                      /\ e.event.time = current_time'
    BY <1>8, <1>9
  <2>1. \A f \in queue.entries : f.event.time >= run.start
    BY <1>10 DEF RunInvariant
  <2>2. QED
    BY <2>1, <1>2, <1>5, <1>6, <1>8, <1>11, <1>12 DEF Larger
<1>17. QED
  BY <1>7, <1>8, <1>10, <1>13, <1>14, <1>15, <1>16 DEF RunInvariant

\* Queueing events keeps what was pending and stamps the new ones beyond served.
LEMMA SchedulingKeepsInvariant ==
  ASSUME TypeOK, RunInvariant, NothingOverdue, NEW evs \in Seq(Event),
         phase = "idle", queue' = PushAll(queue, evs),
         UNCHANGED <<current_time, phase, target, all_outgoing, run>>
  PROVE  RunInvariant' /\ NothingOverdue'
<1>1. queue'.counter = queue.counter + Len(evs) /\ Len(evs) \in Nat
  BY DEF PushAll
<1>2. \A f \in queue'.entries : f \in queue.entries \/ f.seq >= queue.counter
  BY PushAllOK DEF TypeOK
<1>3. queue.counter \in Nat /\ run.served \in Nat /\ run.served <= queue.counter
  BY DEF TypeOK, QueueOK, RunRecord, RunInvariant
<1>4. QueueOK(queue', Event)
  BY PushAllOK DEF TypeOK
<1>5. \A f \in queue'.entries : f.seq \in Nat
  BY <1>4 DEF QueueOK, EntrySet
<1>6. RunInvariant'
  BY <1>1, <1>3 DEF RunInvariant
<1>7. NothingOverdue'
  BY <1>2, <1>3, <1>5 DEF NothingOverdue
<1>8. QED
  BY <1>6, <1>7

\* IInv is inductive.
LEMMA StepKeepsInvariant == ExecutorAssumption /\ IInv /\ TypeOK' /\ [Next]_vars => IInv'
<1> SUFFICES ASSUME ExecutorAssumption, TypeOK, RunInvariant, NothingOverdue,
                    TypeOK', [Next]_vars
             PROVE  RunInvariant' /\ NothingOverdue'
  BY DEF IInv
<1>1. CASE InitExecutor
  BY <1>1 DEF InitExecutor, RunInvariant, NothingOverdue, NoRun, EmptyQueue
<1>2. ASSUME NEW ev \in InputEvent, ScheduleEvent(ev)
      PROVE  RunInvariant' /\ NothingOverdue'
  <2>1. <<ev>> \in Seq(Event)
    BY DEF InputEvent, Event, ExecutorAssumption
  <2>2. queue' = PushAll(queue, <<ev>>)
    BY <1>2, PushIsPushAll DEF ScheduleEvent, TypeOK
  <2>3. QED
    BY <1>2, <2>1, <2>2, SchedulingKeepsInvariant DEF ScheduleEvent
<1>3. ASSUME NEW evs \in EventSeqs(InputEvent, MaxScheduled), HandleIncoming(evs)
      PROVE  RunInvariant' /\ NothingOverdue'
  <2>1. evs \in Seq(InputEvent)
    BY EventSeqsAreSeqs DEF ExecutorAssumption
  <2>2. InputEvent \subseteq Event
    BY DEF InputEvent, Event, ExecutorAssumption
  <2>3. evs \in Seq(Event)
    BY <2>1, <2>2
  <2>4. QED
    BY <1>3, <2>3, SchedulingKeepsInvariant DEF HandleIncoming
<1>4. ASSUME NEW t \in 0..MaxTime, BeginRun(t)
      PROVE  RunInvariant' /\ NothingOverdue'
  <2>1. /\ run'.last = {} /\ run'.start = current_time /\ run'.served = queue.counter
        /\ run'.late = \E e \in queue.entries : e.event.time < current_time
        /\ all_outgoing' = <<>> /\ target' = t
        /\ phase' = "running" /\ UNCHANGED <<current_time, queue>>
    BY <1>4 DEF BeginRun
  <2>2. current_time \in Nat /\ t \in Nat /\ queue.counter \in Nat
    BY DEF TypeOK, QueueOK, ExecutorAssumption
  <2>3. \A f \in queue.entries : f.event.time \in Nat
    BY DEF TypeOK, QueueOK, EntrySet, Event
  <2>4. QED
    BY <2>1, <2>2, <2>3 DEF RunInvariant, NothingOverdue, Larger
<1>5. CASE ProcessSomeEvent
  <2> SUFFICES ASSUME NEW e \in queue.entries,
                      NEW locals \in EventSeqs([time : {e.event.time + d : d \in Delays},
                                                dst : LocalNodes], MaxFanout),
                      NEW outgoing \in EventSeqs([time : {e.event.time + d : d \in Delays},
                                                  dst : RemoteNodes \cup {Custom}], MaxFanout),
                      ProcessEvent(e, locals, outgoing)
               PROVE  RunInvariant' /\ NothingOverdue'
    BY <1>5 DEF ProcessSomeEvent
  <2>1. RunInvariant'
    BY ProcessKeepsRunInvariant
  <2>2. NothingOverdue'
    BY DEF ProcessEvent, HandleEvent, NothingOverdue
  <2>3. QED
    BY <2>1, <2>2
<1>6. CASE ReturnFromRun
  <2>1. /\ phase' = "idle" /\ run'.served = queue.counter /\ run'.late = run.late
        /\ run'.start = run.start /\ run'.last = run.last
        /\ UNCHANGED <<queue, target, all_outgoing>>
    BY <1>6 DEF ReturnFromRun, TypeOK, RunRecord
  <2>2. \A e \in queue.entries : ~(e.event.time <= target)
    BY <1>6 DEF ReturnFromRun, DueBy
  <2>3. queue.counter \in Nat
    BY DEF TypeOK, QueueOK
  <2>4. QED
    BY <2>1, <2>2, <2>3 DEF RunInvariant, NothingOverdue
<1>7. CASE UNCHANGED vars
  BY <1>7 DEF vars, RunInvariant, NothingOverdue
<1>8. QED
  BY <1>1, <1>2, <1>3, <1>4, <1>5, <1>6, <1>7 DEF Next

\* The inductive invariant of the event executor.
LEMMA InvariantHolds == Spec => []IInv
<1> USE ExecutorAssumption
<1>1. Init => RunInvariant /\ NothingOverdue
  BY DEF Init, RunInvariant, NothingOverdue, NoRun, EmptyQueue
<1>2. IInv /\ TypeOK' /\ [Next]_vars => IInv'
  BY StepKeepsInvariant
<1>3. QED
  BY <1>1, <1>2, TypeCorrect, PTL DEF Spec, IInv

\* After a run_until only what arrived later may be due, whatever the nodes sent.
THEOREM NothingLeftBehind == Spec => []NothingOverdue
<1>1. IInv => NothingOverdue
  BY DEF IInv
<1>2. QED
  BY <1>1, InvariantHolds, PTL

\* Without late arrivals the executor never works on, nor writes to, its past.
THEOREM PastIsClosed == Spec => []NoTimeTravel
<1>1. IInv => NoTimeTravel
  BY DEF IInv, RunInvariant, NoTimeTravel
<1>2. QED
  BY <1>1, InvariantHolds, PTL

\* The chronological, FIFO order of one run, whatever the nodes insert meanwhile.
THEOREM Chronological == Spec => ProcessedInOrder
<1>1. IInv /\ [Next]_vars => [\A e \in run.last, f \in run'.last : e = f \/ Earlier(e, f)]_vars
  <2> SUFFICES ASSUME IInv, Next, NEW e \in run.last, NEW f \in run'.last
               PROVE  e = f \/ Earlier(e, f)
    OBVIOUS
  <2>1. CASE ProcessSomeEvent
    <3>1. PICK g \in queue.entries : run' = [run EXCEPT !.last = {g}] /\ phase = "running"
      BY <2>1 DEF ProcessSomeEvent, ProcessEvent, HandleEvent
    <3>2. f = g
      BY <3>1 DEF IInv, TypeOK, RunRecord
    <3>3. QED
      BY <3>1, <3>2 DEF IInv, RunInvariant
  <2>2. CASE run'.last = {} \/ run'.last = run.last
    BY <2>2 DEF IInv, RunInvariant
  <2>3. CASE InitExecutor \/ \E t \in 0..MaxTime : BeginRun(t)
    BY <2>2, <2>3 DEF InitExecutor, BeginRun, NoRun
  <2>4. CASE ReturnFromRun
    BY <2>2, <2>4 DEF ReturnFromRun, IInv, TypeOK, RunRecord
  <2>5. CASE UNCHANGED run
    BY <2>2, <2>5
  <2>6. QED
    BY <2>1, <2>3, <2>4, <2>5 DEF Next, ScheduleEvent, HandleIncoming
<1>2. QED
  BY <1>1, InvariantHolds, PTL DEF Spec, ProcessedInOrder

\* The clock after a run is its target, or where it stood beyond it.
THEOREM ClockFollowsTargets == Spec => ClockReachesTarget
<1> DEFINE Step == /\ current_time' < current_time => queue' = EmptyQueue /\ phase = "idle"
                   /\ phase = "running" /\ phase' = "idle" =>
                        current_time' = Larger(target, run.start)
<1>1. IInv /\ [Next]_vars => [Step]_vars
  <2> SUFFICES ASSUME IInv, Next  PROVE Step
    OBVIOUS
  <2>1. /\ current_time \in Nat /\ target \in Nat /\ run.start \in Nat
        /\ \A e \in queue.entries : e.event.time \in Nat
    BY DEF IInv, TypeOK, RunRecord, QueueOK, EntrySet, Event
  <2>2. CASE ProcessSomeEvent
    <3>1. PICK e \in queue.entries : /\ current_time' = Larger(e.event.time, current_time)
                                     /\ phase' = "running"
      BY <2>2 DEF ProcessSomeEvent, ProcessEvent, HandleEvent
    <3>2. QED
      BY <2>1, <3>1 DEF Larger
  <2>3. CASE ReturnFromRun
    BY <2>1, <2>3 DEF ReturnFromRun, IInv, RunInvariant, Larger
  <2>4. CASE UNCHANGED current_time /\ phase = "idle"
    BY <2>1, <2>4
  <2>5. CASE InitExecutor
    BY <2>5 DEF InitExecutor
  <2>6. QED
    BY <2>2, <2>3, <2>4, <2>5 DEF Next, ScheduleEvent, HandleIncoming, BeginRun
<1> HIDE DEF Step
<1>2. Spec => [][Step]_vars
  BY <1>1, InvariantHolds, PTL DEF Spec
<1>3. QED
  BY <1>2 DEF Step, ClockReachesTarget

-------------------------------------------------------------------------------
\* Pushing a batch moves the counter, the size and the peak together.
LEMMA PushCounts ==
  ASSUME stats \in StatsType, NEW q, QueueOK(q, Event), NEW evs \in Seq(Event),
         Cardinality(q.entries) <= stats.peak, stats.peak <= q.counter + Len(evs)
  PROVE  LET r == PushAll(q, evs)
             peak == PeakAfter(q, evs)
         IN  /\ r.counter = q.counter + Len(evs)
             /\ Cardinality(r.entries) = Cardinality(q.entries) + Len(evs)
             /\ Cardinality(q.entries) \in Nat
             /\ Cardinality(q.entries) <= q.counter =>
                  Cardinality(r.entries) <= peak /\ peak <= r.counter
<1> DEFINE r == PushAll(q, evs)
<1>1. Cardinality(q.entries) \in Nat
  BY FS_CardinalityType DEF QueueOK
<1>2. Cardinality(r.entries) = Cardinality(q.entries) + Len(evs)
  BY PushAllOK
<1>3. r.counter = q.counter + Len(evs)
  BY DEF PushAll
<1>4. q.counter \in Nat /\ Len(evs) \in Nat /\ stats.peak \in Nat
  BY DEF QueueOK, StatsType
<1>5. evs = <<>> => Len(evs) = 0
  OBVIOUS
<1>6. PeakAfter(q, evs) = IF evs = <<>> THEN stats.peak
                          ELSE Larger(stats.peak, Cardinality(r.entries))
  BY DEF PeakAfter
<1> HIDE DEF r
<1>7. Cardinality(q.entries) <= q.counter =>
        Cardinality(r.entries) <= PeakAfter(q, evs) /\ PeakAfter(q, evs) <= r.counter
  BY <1>1, <1>2, <1>3, <1>4, <1>5, <1>6 DEF Larger
<1>8. QED
  BY <1>1, <1>2, <1>3, <1>7 DEF r

\* Nothing is lost, duplicated or miscounted: every event pushed since init is
\* processed or pending, and every counter names its source.
THEOREM EveryEventAccounted == Spec => []Accounted
<1> USE ExecutorAssumption
<1>1. Init => Accounted
  BY FS_EmptySet DEF Init, Accounted, EmptyQueue, NoStats
<1>2. TypeOK /\ Accounted /\ [Next]_vars => Accounted'
  <2> SUFFICES ASSUME TypeOK, Accounted, [Next]_vars  PROVE Accounted'
    OBVIOUS
  <2> DEFINE pending == Cardinality(queue.entries)
  <2>1. /\ queue.counter = stats.processed + pending
        /\ queue.counter + stats.outgoing = scheduled + stats.incoming + stats.generated
        /\ pending <= stats.peak /\ stats.peak <= queue.counter
    BY DEF Accounted
  <2>2. /\ QueueOK(queue, Event) /\ stats \in StatsType /\ scheduled \in Nat
        /\ queue.counter \in Nat
    BY DEF TypeOK, QueueOK
  <2>3. pending \in Nat
    BY <2>2, FS_CardinalityType DEF QueueOK
  <2>4. /\ stats.processed \in Nat /\ stats.generated \in Nat /\ stats.incoming \in Nat
        /\ stats.outgoing \in Nat /\ stats.peak \in Nat
    BY <2>2 DEF StatsType
  <2>5. CASE InitExecutor
    BY <2>5, FS_EmptySet DEF InitExecutor, Accounted, EmptyQueue, NoStats
  <2>6. ASSUME NEW ev \in InputEvent, ScheduleEvent(ev)  PROVE Accounted'
    <3>1. <<ev>> \in Seq(Event) /\ Len(<<ev>>) = 1
      BY DEF InputEvent, Event
    <3>2. queue' = PushAll(queue, <<ev>>)
      BY <2>2, <2>6, PushIsPushAll DEF ScheduleEvent
    <3>3. /\ stats'.processed = stats.processed /\ stats'.generated = stats.generated
          /\ stats'.incoming = stats.incoming /\ stats'.outgoing = stats.outgoing
          /\ stats'.peak = PeakAfter(queue, <<ev>>) /\ scheduled' = scheduled + 1
      BY <2>4, <2>6 DEF ScheduleEvent, Count
    <3>4. stats.peak <= queue.counter + 1 /\ pending <= queue.counter
      BY <2>1, <2>2, <2>3, <2>4
    <3>5. /\ queue'.counter = queue.counter + 1
          /\ Cardinality(queue'.entries) = pending + 1
          /\ Cardinality(queue'.entries) <= stats'.peak /\ stats'.peak <= queue'.counter
      BY <2>1, <2>2, <3>1, <3>2, <3>3, <3>4, PushCounts
    <3>6. QED
      BY <2>1, <2>2, <2>3, <2>4, <3>3, <3>5 DEF Accounted
  <2>7. ASSUME NEW evs \in EventSeqs(InputEvent, MaxScheduled), HandleIncoming(evs)
        PROVE  Accounted'
    <3>1. evs \in Seq(Event) /\ Len(evs) \in Nat
      <4>1. evs \in Seq(InputEvent)
        BY EventSeqsAreSeqs DEF ExecutorAssumption
      <4>2. InputEvent \subseteq Event
        BY DEF InputEvent, Event, ExecutorAssumption
      <4>3. QED
        BY <4>1, <4>2
    <3>2. queue' = PushAll(queue, evs)
      BY <2>7 DEF HandleIncoming
    <3>3. /\ stats'.processed = stats.processed /\ stats'.generated = stats.generated
          /\ stats'.incoming = stats.incoming + Len(evs) /\ stats'.outgoing = stats.outgoing
          /\ stats'.peak = PeakAfter(queue, evs) /\ scheduled' = scheduled
      BY <2>4, <2>7 DEF HandleIncoming, Count
    <3>4. stats.peak <= queue.counter + Len(evs) /\ pending <= queue.counter
      <4> DEFINE n == Len(evs)
      <4>1. n \in Nat
        BY <3>1
      <4> HIDE DEF n, pending
      <4>2. stats.peak <= queue.counter + n /\ pending <= queue.counter
        BY <2>1, <2>2, <2>3, <2>4, <4>1
      <4>3. QED
        BY <4>2 DEF n
    <3>5. /\ queue'.counter = queue.counter + Len(evs)
          /\ Cardinality(queue'.entries) = pending + Len(evs)
          /\ Cardinality(queue'.entries) <= stats'.peak /\ stats'.peak <= queue'.counter
      BY <2>1, <2>2, <3>1, <3>2, <3>3, <3>4, PushCounts
    <3>6. /\ queue'.counter = stats'.processed + Cardinality(queue'.entries)
          /\ queue'.counter + stats'.outgoing
               = scheduled' + stats'.incoming + stats'.generated
      <4> DEFINE n == Len(evs)
      <4>1. n \in Nat
        BY <3>1
      <4>2. /\ queue'.counter = queue.counter + n
            /\ Cardinality(queue'.entries) = pending + n
            /\ stats'.incoming = stats.incoming + n
            /\ stats'.processed = stats.processed /\ stats'.generated = stats.generated
            /\ stats'.outgoing = stats.outgoing /\ scheduled' = scheduled
        BY <3>3, <3>5
      <4> HIDE DEF n, pending
      <4>3. QED
        BY <2>1, <2>2, <2>3, <2>4, <4>1, <4>2
    <3>7. QED
      BY <3>5, <3>6 DEF Accounted
  <2>8. CASE ProcessSomeEvent
    <3> SUFFICES ASSUME NEW e \in queue.entries,
                        NEW locals \in EventSeqs([time : {e.event.time + d : d \in Delays},
                                                  dst : LocalNodes], MaxFanout),
                        NEW outgoing \in EventSeqs([time : {e.event.time + d : d \in Delays},
                                                    dst : RemoteNodes \cup {Custom}], MaxFanout),
                        ProcessEvent(e, locals, outgoing)
                 PROVE  Accounted'
      BY <2>8 DEF ProcessSomeEvent
    <3> DEFINE rest == Without(queue, {e})
    <3>1. /\ locals \in Seq(Event) /\ outgoing \in Seq(Outgoing)
          /\ Len(locals) \in Nat /\ Len(outgoing) \in Nat
      BY ResponseTypes
    <3>2. /\ QueueOK(rest, Event) /\ rest.counter = queue.counter
          /\ Cardinality(rest.entries) = pending - 1
      BY <2>2, WithoutOK, Zenon
    <3>3. queue' = PushAll(rest, locals)
      BY DEF ProcessEvent, HandleEvent
    <3>4. /\ stats'.processed = stats.processed + 1
          /\ stats'.generated = stats.generated + (Len(locals) + Len(outgoing))
          /\ stats'.incoming = stats.incoming
          /\ stats'.outgoing = stats.outgoing + Len(outgoing)
          /\ stats'.peak = PeakAfter(rest, locals) /\ scheduled' = scheduled
      BY <2>4 DEF ProcessEvent, HandleEvent, Count
    <3>5. Cardinality(rest.entries) \in Nat
      BY <3>2, FS_CardinalityType DEF QueueOK
    <3> HIDE DEF rest
    <3>6. /\ Cardinality(rest.entries) <= stats.peak
          /\ stats.peak <= rest.counter + Len(locals)
          /\ Cardinality(rest.entries) <= rest.counter
      <4> DEFINE c == Cardinality(rest.entries)
                 l == Len(locals)
                 count == queue.counter
      <4>1. /\ c \in Nat /\ l \in Nat /\ c = pending - 1 /\ rest.counter = count
        BY <3>1, <3>2, <3>5
      <4>2. /\ count \in Nat /\ stats.peak \in Nat /\ pending \in Nat
            /\ pending <= stats.peak /\ stats.peak <= count
        BY <2>1, <2>2, <2>3, <2>4
      <4> HIDE DEF c, l, count, pending
      <4>3. c <= stats.peak /\ stats.peak <= count + l /\ c <= count
        BY <4>1, <4>2
      <4>4. QED
        BY <4>1, <4>3 DEF c, l
    <3>7. /\ queue'.counter = queue.counter + Len(locals)
          /\ Cardinality(queue'.entries) = pending - 1 + Len(locals)
          /\ Cardinality(queue'.entries) <= stats'.peak /\ stats'.peak <= queue'.counter
      BY <2>2, <3>1, <3>2, <3>3, <3>4, <3>6, PushCounts
    <3>8. /\ queue'.counter = stats'.processed + Cardinality(queue'.entries)
          /\ queue'.counter + stats'.outgoing
               = scheduled' + stats'.incoming + stats'.generated
      <4> DEFINE l == Len(locals)
                 o == Len(outgoing)
      <4>1. l \in Nat /\ o \in Nat
        BY <3>1
      <4>2. /\ queue'.counter = queue.counter + l
            /\ Cardinality(queue'.entries) = pending - 1 + l
            /\ stats'.generated = stats.generated + (l + o)
            /\ stats'.outgoing = stats.outgoing + o
            /\ stats'.processed = stats.processed + 1
            /\ stats'.incoming = stats.incoming /\ scheduled' = scheduled
        BY <3>4, <3>7
      <4> HIDE DEF l, o, pending
      <4>3. QED
        BY <2>1, <2>2, <2>3, <2>4, <4>1, <4>2
    <3>9. QED
      BY <3>7, <3>8 DEF Accounted
  <2>9. CASE UNCHANGED <<queue, stats, scheduled>>
    BY <2>9 DEF Accounted
  <2>10. QED
    BY <2>5, <2>6, <2>7, <2>8, <2>9 DEF Next, BeginRun, ReturnFromRun, vars
<1>3. QED
  BY <1>1, <1>2, TypeCorrect, PTL DEF Spec

-------------------------------------------------------------------------------
\* Networks of built-in nodes.
Ids == LocalNodes \cup RemoteNodes
Nodes == Node(Ids, Delays)
Kinds == {"delay", "probabilistic", "enhanced", "simple", "passthrough", "counter", "echo", "source"}

\* What is in the queue, and what may be sent.
Msg == [time : Nat, src : LocalNodes \cup {Source}, dst : LocalNodes, data : Data(Ids)]
Sent == [time : Nat, src : LocalNodes \cup {Source}, dst : Ids, data : Data(Ids)]

\* A node's kind tells its type.
LEMMA NodeKinds ==
  ASSUME NEW n \in Nodes
  PROVE  /\ n.kind \in Kinds
         /\ n.kind = "delay" => n \in DelayNode(Ids, Delays)
         /\ n.kind = "probabilistic" => n \in ProbabilisticDelayNode(Ids, Delays)
         /\ n.kind = "enhanced" => n \in EnhancedPassThroughNode(Ids)
         /\ n.kind = "simple" => n \in SimplePassThrough(Ids)
         /\ n.kind = "passthrough" => n \in PassThroughNode(Ids)
         /\ n.kind = "counter" => n \in CounterNode
         /\ n.kind = "echo" => n \in EchoNode(Delays)
         /\ n.kind = "source" => n \in SourceNode(Ids)
<1>1. /\ \A x \in DelayNode(Ids, Delays) : x.kind = "delay"
      /\ \A x \in ProbabilisticDelayNode(Ids, Delays) : x.kind = "probabilistic"
      /\ \A x \in EnhancedPassThroughNode(Ids) : x.kind = "enhanced"
      /\ \A x \in SimplePassThrough(Ids) : x.kind = "simple"
      /\ \A x \in PassThroughNode(Ids) : x.kind = "passthrough"
      /\ \A x \in CounterNode : x.kind = "counter"
      /\ \A x \in EchoNode(Delays) : x.kind = "echo"
      /\ \A x \in SourceNode(Ids) : x.kind = "source"
  BY DEF DelayNode, ProbabilisticDelayNode, EnhancedPassThroughNode, SimplePassThrough,
         PassThroughNode, CounterNode, EchoNode, SourceNode
<1>2. \/ n \in DelayNode(Ids, Delays) \/ n \in ProbabilisticDelayNode(Ids, Delays)
      \/ n \in EnhancedPassThroughNode(Ids) \/ n \in SimplePassThrough(Ids)
      \/ n \in PassThroughNode(Ids) \/ n \in CounterNode \/ n \in EchoNode(Delays)
      \/ n \in SourceNode(Ids)
  BY DEF Nodes, Node
<1>3. QED
  BY <1>1, <1>2 DEF Kinds

\* What the eight kinds of nodes have in common, handling an event: the answer
\* is empty, or one event of the same item after one of the delays; the
\* configuration stays; the node counts what it is handed, and what it answers.
Answer(id, n, ev, r) ==
  /\ r.node \in Nodes /\ Reset(r.node) = Reset(n)
  /\ \/ r.out = <<>> /\ Answered(r.node) = Answered(n)
     \/ /\ Answered(r.node) = Answered(n) + 1
        /\ \E d \in Delays, to \in Ids, data \in Data(Ids) :
             /\ r.out = <<Message(ev.time + d, id, to, data)>>
             /\ data.item = ev.data.item /\ data.sent = ev.data.sent
  /\ CountsAll(n) => Handled(r.node) = Handled(n) + 1

\* A delay node answers so.
LEMMA DelayAnswers ==
  ASSUME NEW n \in DelayNode(Ids, Delays), NEW id, NEW ev \in Msg, NEW r \in DelayOnEvent(id, n, ev)
  PROVE  Answer(id, n, ev, r)
<1> DEFINE seen == [n EXCEPT !.processed = @ + 1]
           sent == [seen EXCEPT !.forwarded = @ + 1]
<1>1. /\ n.kind = "delay" /\ n.forward_to \in Ids \cup {Nobody} /\ n.delay \in Delays
      /\ n.processed \in Nat /\ n.forwarded \in Nat
  BY DEF DelayNode
<1>2. /\ seen \in DelayNode(Ids, Delays) /\ seen.processed = n.processed + 1
      /\ seen.forwarded = n.forwarded /\ seen.kind = "delay"
      /\ seen.delay = n.delay /\ seen.forward_to = n.forward_to
  BY DEF DelayNode
<1> HIDE DEF seen
<1>3. /\ sent \in DelayNode(Ids, Delays) /\ sent.processed = n.processed + 1
      /\ sent.forwarded = n.forwarded + 1 /\ sent.kind = "delay"
      /\ sent.delay = n.delay /\ sent.forward_to = n.forward_to
  BY <1>1, <1>2 DEF DelayNode
<1>4. /\ n.forward_to = Nobody => r = Result(seen, <<>>)
      /\ n.forward_to # Nobody =>
           r = Result(sent, <<Message(ev.time + n.delay, id, n.forward_to, ev.data)>>)
  BY DEF DelayOnEvent, seen
<1>5. ev.data \in Data(Ids)
  BY DEF Msg
<1> HIDE DEF sent
<1>6. /\ r.node \in DelayNode(Ids, Delays) /\ r.node.kind = "delay"
      /\ r.node.processed = n.processed + 1
      /\ r.node.delay = n.delay /\ r.node.forward_to = n.forward_to
      /\ \/ r.out = <<>> /\ r.node.forwarded = n.forwarded
         \/ /\ r.node.forwarded = n.forwarded + 1 /\ n.forward_to \in Ids
            /\ r.out = <<Message(ev.time + n.delay, id, n.forward_to, ev.data)>>
  BY <1>1, <1>2, <1>3, <1>4 DEF Result
<1>7. Reset(r.node) = Reset(n)
  BY <1>1, <1>6 DEF Reset
<1>8. Handled(r.node) = Handled(n) + 1 /\ Handled(n) = n.processed
  BY <1>1, <1>6 DEF Handled
<1>9. Answered(r.node) = r.node.forwarded /\ Answered(n) = n.forwarded
  BY <1>1, <1>6 DEF Answered
<1>10. r.node \in Nodes
  BY <1>6 DEF Nodes, Node
<1>11. QED
  BY <1>1, <1>5, <1>6, <1>7, <1>8, <1>9, <1>10 DEF Answer

\* A record of the type stays one when a field gets a value of its type.
LEMMA ProbabilisticUpdate ==
  ASSUME NEW S, NEW T, NEW D,
         NEW n \in [kind : {"probabilistic"}, forward_to : T, distribution : D, processed : Nat,
                    total_delay : Nat, min_delay : S, max_delay : S],
         NEW p \in Nat, NEW t \in Nat, NEW a \in S, NEW b \in S
  PROVE  /\ [n EXCEPT !.processed = p]
              \in [kind : {"probabilistic"}, forward_to : T, distribution : D, processed : Nat,
                   total_delay : Nat, min_delay : S, max_delay : S]
         /\ [n EXCEPT !.total_delay = t, !.min_delay = a, !.max_delay = b]
              \in [kind : {"probabilistic"}, forward_to : T, distribution : D, processed : Nat,
                   total_delay : Nat, min_delay : S, max_delay : S]
  OBVIOUS

\* A probabilistic node does, whatever delay is drawn.
LEMMA ProbabilisticAnswers ==
  ASSUME NEW n \in ProbabilisticDelayNode(Ids, Delays), NEW id, NEW ev \in Msg,
         NEW r \in ProbabilisticOnEvent(id, n, ev)
  PROVE  Answer(id, n, ev, r)
<1> DEFINE seen == [n EXCEPT !.processed = @ + 1]
<1>1. /\ n.kind = "probabilistic" /\ n.forward_to \in Ids \cup {Nobody}
      /\ n.distribution \in Distribution(Delays)
      /\ n.processed \in Nat /\ n.total_delay \in Nat
      /\ n.min_delay \in Seq(Nat) /\ n.max_delay \in Seq(Nat)
  BY DEF ProbabilisticDelayNode
<1>2. /\ seen \in ProbabilisticDelayNode(Ids, Delays)
      /\ seen.processed = n.processed + 1 /\ seen.kind = "probabilistic"
      /\ seen.distribution = n.distribution /\ seen.forward_to = n.forward_to
      /\ seen.total_delay = n.total_delay
      /\ seen.min_delay = n.min_delay /\ seen.max_delay = n.max_delay
  <2>1. seen \in ProbabilisticDelayNode(Ids, Delays)
    <3>1. n.processed + 1 \in Nat /\ n.total_delay \in Nat /\ n.min_delay \in Seq(Nat)
      BY <1>1
    <3>2. seen = [n EXCEPT !.processed = n.processed + 1]
      OBVIOUS
    <3> HIDE DEF seen
    <3>3. QED
      BY <3>1, <3>2, ProbabilisticUpdate, Zenon DEF ProbabilisticDelayNode
  <2>2. seen.processed = n.processed + 1 /\ seen.kind = n.kind
    BY DEF ProbabilisticDelayNode
  <2>3. seen.distribution = n.distribution /\ seen.forward_to = n.forward_to
    BY DEF ProbabilisticDelayNode
  <2>4. seen.total_delay = n.total_delay
    BY DEF ProbabilisticDelayNode
  <2>5. seen.min_delay = n.min_delay /\ seen.max_delay = n.max_delay
    BY DEF ProbabilisticDelayNode
  <2>6. QED
    BY <1>1, <2>1, <2>2, <2>3, <2>4, <2>5
<1>3. ev.data \in Data(Ids)
  BY DEF Msg
<1>4. CASE n.forward_to = Nobody
  <2>1. r.node = seen /\ r.out = <<>>
    BY <1>4 DEF ProbabilisticOnEvent, Result
  <2> HIDE DEF seen
  <2>2. Reset(r.node) = Reset(n)
    BY <1>1, <1>2, <2>1 DEF Reset
  <2>3. Handled(r.node) = n.processed + 1 /\ Handled(n) = n.processed
    BY <1>1, <1>2, <2>1 DEF Handled
  <2>4. Answered(r.node) = 0 /\ Answered(n) = 0
    BY <1>1, <1>2, <1>4, <2>1 DEF Answered
  <2>5. r.node \in Nodes
    BY <1>2, <2>1 DEF Nodes, Node
  <2>6. QED
    BY <2>1, <2>2, <2>3, <2>4, <2>5 DEF Answer
<1>5. CASE n.forward_to # Nobody
  <2>1. PICK delay \in Support(n.distribution) :
          /\ r.node = UpdateStats(seen, delay)
          /\ r.out = <<Message(ev.time + delay, id, n.forward_to, ev.data)>>
    BY <1>5 DEF ProbabilisticOnEvent, Result
  <2>2. delay \in Delays /\ delay \in Nat
    BY <1>1, <2>1, ExecutorAssumption DEF Distribution
  <2>3. OptMin(n.min_delay, delay) \in Seq(Nat) /\ OptMax(n.max_delay, delay) \in Seq(Nat)
    BY <1>1, <2>2 DEF OptMin, OptMax
  <2> DEFINE least == OptMin(n.min_delay, delay)
             most == OptMax(n.max_delay, delay)
             total == n.total_delay + delay
  <2> HIDE DEF seen, least, most, total
  <2>4. /\ r.node = [seen EXCEPT !.total_delay = total, !.min_delay = least, !.max_delay = most]
        /\ least \in Seq(Nat) /\ most \in Seq(Nat) /\ total \in Nat
    <3>1. UpdateStats(seen, delay) =
            [seen EXCEPT !.total_delay = seen.total_delay + delay,
                         !.min_delay = OptMin(seen.min_delay, delay),
                         !.max_delay = OptMax(seen.max_delay, delay)]
      BY DEF UpdateStats
    <3>2. QED
      BY <1>1, <1>2, <2>1, <2>2, <2>3, <3>1 DEF least, most, total
  <2>5. /\ r.node \in ProbabilisticDelayNode(Ids, Delays) /\ r.node.kind = "probabilistic"
        /\ r.node.processed = n.processed + 1 /\ r.node.distribution = n.distribution
        /\ r.node.forward_to = n.forward_to
    <3> DEFINE S == Seq(Nat)
    <3> HIDE DEF S
    <3>1. least \in S /\ most \in S
      BY <2>4 DEF S
    <3>2. ProbabilisticDelayNode(Ids, Delays) =
            [kind : {"probabilistic"}, forward_to : Ids \cup {Nobody},
             distribution : Distribution(Delays), processed : Nat,
             total_delay : Nat, min_delay : S, max_delay : S]
      BY DEF ProbabilisticDelayNode, S
    <3>3. r.node \in ProbabilisticDelayNode(Ids, Delays)
      <4>1. /\ seen \in ProbabilisticDelayNode(Ids, Delays) /\ 0 \in Nat
            /\ least \in Seq(Nat) /\ most \in Seq(Nat) /\ total \in Nat
        BY <1>2, <2>4
      <4>2. [seen EXCEPT !.total_delay = total, !.min_delay = least, !.max_delay = most]
              \in ProbabilisticDelayNode(Ids, Delays)
        BY <4>1, ProbabilisticUpdate, Zenon DEF ProbabilisticDelayNode
      <4>3. QED
        BY <2>4, <4>2, Zenon
    <3>4. r.node.kind = seen.kind /\ r.node.processed = seen.processed
      BY <1>2, <2>4, <3>2
    <3>5. r.node.distribution = seen.distribution /\ r.node.forward_to = seen.forward_to
      BY <1>2, <2>4, <3>2
    <3>6. QED
      BY <1>2, <3>3, <3>4, <3>5
  <2>6. Reset(r.node) = Reset(n)
    BY <1>1, <2>5 DEF Reset
  <2>7. Handled(r.node) = n.processed + 1 /\ Handled(n) = n.processed
    BY <1>1, <2>5 DEF Handled
  <2>8. Answered(r.node) = n.processed + 1 /\ Answered(n) = n.processed
    BY <1>1, <1>5, <2>5 DEF Answered
  <2>9. r.node \in Nodes
    BY <2>5 DEF Nodes, Node
  <2>10. n.forward_to \in Ids
    BY <1>1, <1>5
  <2>11. QED
    BY <1>3, <2>1, <2>2, <2>6, <2>7, <2>8, <2>9, <2>10 DEF Answer
<1>6. QED
  BY <1>4, <1>5

\* The number and what else transform_data writes leave the item as it is.
LEMMA TransformedData ==
  ASSUME NEW n \in EnhancedPassThroughNode(Ids), NEW id \in Ids, NEW data \in Data(Ids)
  PROVE  /\ Transformed(id, n, data) \in Data(Ids)
         /\ Transformed(id, n, data).item = data.item
         /\ Transformed(id, n, data).sent = data.sent
         /\ Numbers(n) => Transformed(id, n, data).number = <<[by |-> id, seq |-> n.sequence]>>
         /\ ~Numbers(n) /\ n.transform # "Wrap" => Transformed(id, n, data) = data
<1> DEFINE number == <<[by |-> id, seq |-> n.sequence]>>
<1>1. number \in Seq([by : Ids, seq : Nat])
  BY DEF EnhancedPassThroughNode
<1> HIDE DEF number
<1>2. /\ [data EXCEPT !.number = number] \in Data(Ids)
      /\ [data EXCEPT !.number = number].item = data.item
      /\ [data EXCEPT !.number = number].sent = data.sent
      /\ [data EXCEPT !.number = number].number = number
  BY <1>1 DEF Data
<1>3. /\ [data EXCEPT !.number = number, !.matches = FALSE] \in Data(Ids)
      /\ [data EXCEPT !.number = number, !.matches = FALSE].item = data.item
      /\ [data EXCEPT !.number = number, !.matches = FALSE].sent = data.sent
  BY <1>1 DEF Data
<1>4. /\ Numbers(n) => Transformed(id, n, data) = [data EXCEPT !.number = number]
      /\ ~Numbers(n) /\ n.transform = "Wrap" =>
           Transformed(id, n, data) = [data EXCEPT !.number = number, !.matches = FALSE]
      /\ ~Numbers(n) /\ n.transform # "Wrap" => Transformed(id, n, data) = data
  BY DEF Transformed, number, Numbers
<1>5. QED
  BY <1>2, <1>3, <1>4 DEF number

\* What an enhanced pass-through node does, verdict by verdict.
EnhancedCase(id, n, ev, r, seen, passes) ==
  /\ seen = [n EXCEPT !.received = n.received + 1, !.event_counter = n.event_counter + 1]
  /\ passes \in Verdicts(seen, ev)
  /\ ~passes => /\ r.node = [seen EXCEPT !.filtered = n.filtered + 1]
                /\ r.out = <<>>
  /\ passes /\ n.forward_to = Nobody => r.node = seen /\ r.out = <<>>
  /\ passes /\ n.forward_to # Nobody =>
       /\ r.node = [seen EXCEPT !.passed = n.passed + 1,
                                !.sequence = n.sequence + (IF Numbers(n) THEN 1 ELSE 0)]
       /\ r.out = <<Message(ev.time, id, n.forward_to, Transformed(id, n, ev.data))>>

\* Every result of an enhanced pass-through node is one of its cases.
LEMMA EnhancedCases ==
  ASSUME NEW n \in EnhancedPassThroughNode(Ids), NEW id, NEW ev, NEW r \in EnhancedOnEvent(id, n, ev)
  PROVE  \E seen, passes : EnhancedCase(id, n, ev, r, seen, passes)
<1> DEFINE seen == [n EXCEPT !.received = @ + 1, !.event_counter = @ + 1]
<1>1. /\ seen = [n EXCEPT !.received = n.received + 1, !.event_counter = n.event_counter + 1]
      /\ seen.filtered = n.filtered /\ seen.passed = n.passed /\ seen.sequence = n.sequence
  BY DEF EnhancedPassThroughNode
<1> DEFINE filtered == [seen EXCEPT !.filtered = @ + 1]
           passed == [seen EXCEPT !.passed = @ + 1,
                                  !.sequence = @ + (IF Numbers(n) THEN 1 ELSE 0)]
           message == Message(ev.time, id, n.forward_to, Transformed(id, n, ev.data))
<1>2. PICK passes \in Verdicts(seen, ev) :
        r = IF ~passes THEN Result(filtered, <<>>)
            ELSE IF n.forward_to = Nobody THEN Result(seen, <<>>)
            ELSE Result(passed, <<message>>)
  BY DEF EnhancedOnEvent
<1>3. /\ filtered = [seen EXCEPT !.filtered = n.filtered + 1]
      /\ passed = [seen EXCEPT !.passed = n.passed + 1,
                               !.sequence = n.sequence + (IF Numbers(n) THEN 1 ELSE 0)]
  <2> HIDE DEF seen
  <2>1. QED
    BY <1>1
<1> HIDE DEF filtered, passed, seen, message
<1>4. /\ ~passes => r.node = filtered /\ r.out = <<>>
      /\ passes /\ n.forward_to = Nobody => r.node = seen /\ r.out = <<>>
      /\ passes /\ n.forward_to # Nobody => r.node = passed /\ r.out = <<message>>
  BY <1>2 DEF Result
<1>5. EnhancedCase(id, n, ev, r, seen, passes)
  BY <1>1, <1>2, <1>3, <1>4 DEF EnhancedCase, message
<1>6. QED
  BY <1>5

\* The node afterwards: what it was handed, passed on and filtered.
LEMMA EnhancedNode ==
  ASSUME NEW n \in EnhancedPassThroughNode(Ids), NEW id, NEW ev, NEW r \in EnhancedOnEvent(id, n, ev)
  PROVE  /\ r.node \in EnhancedPassThroughNode(Ids)
         /\ r.node.kind = "enhanced" /\ r.node.forward_to = n.forward_to
         /\ r.node.filter = n.filter /\ r.node.transform = n.transform
         /\ r.node.received = n.received + 1 /\ r.node.event_counter = n.event_counter + 1
         /\ \E passes \in Verdicts(r.node, ev) :
              /\ ~passes => /\ r.node.filtered = n.filtered + 1 /\ r.node.passed = n.passed
                            /\ r.node.sequence = n.sequence /\ r.out = <<>>
              /\ passes => r.node.filtered = n.filtered
              /\ passes /\ n.forward_to = Nobody =>
                   /\ r.node.passed = n.passed /\ r.node.sequence = n.sequence /\ r.out = <<>>
              /\ passes /\ n.forward_to # Nobody =>
                   /\ r.node.passed = n.passed + 1
                   /\ r.node.sequence = n.sequence + (IF Numbers(n) THEN 1 ELSE 0)
                   /\ r.out = <<Message(ev.time, id, n.forward_to, Transformed(id, n, ev.data))>>
<1>0. PICK seen, passes : EnhancedCase(id, n, ev, r, seen, passes)
  BY EnhancedCases
<1>1.   /\ seen = [n EXCEPT !.received = n.received + 1, !.event_counter = n.event_counter + 1]
        /\ passes \in Verdicts(seen, ev)
        /\ ~passes => /\ r.node = [seen EXCEPT !.filtered = n.filtered + 1]
                      /\ r.out = <<>>
        /\ passes /\ n.forward_to = Nobody => r.node = seen /\ r.out = <<>>
        /\ passes /\ n.forward_to # Nobody =>
             /\ r.node = [seen EXCEPT !.passed = n.passed + 1,
                                      !.sequence = n.sequence + (IF Numbers(n) THEN 1 ELSE 0)]
             /\ r.out = <<Message(ev.time, id, n.forward_to, Transformed(id, n, ev.data))>>
  BY <1>0 DEF EnhancedCase
<1> DEFINE step == IF Numbers(n) THEN 1 ELSE 0
           received == n.received + 1
           counter == n.event_counter + 1
           filtered == n.filtered + 1
           passed == n.passed + 1
           sequence == n.sequence + step
           S == Ids \cup {Nobody}
           E == [kind : {"enhanced"}, forward_to : S, filter : FilterMode,
                 transform : Transforms, event_counter : Nat, sequence : Nat,
                 received : Nat, passed : Nat, filtered : Nat]
<1>2. n \in E
  BY DEF EnhancedPassThroughNode
<1>3. /\ n.kind = "enhanced" /\ received \in Nat /\ counter \in Nat /\ filtered \in Nat
      /\ passed \in Nat /\ sequence \in Nat
      /\ n.sequence \in Nat /\ n.passed \in Nat /\ n.filtered \in Nat
  BY <1>2
<1> HIDE DEF received, counter, filtered, passed, sequence, S
<1>4. seen \in E
  BY <1>1, <1>2, <1>3 DEF received, counter
<1>5. seen.kind = n.kind /\ seen.forward_to = n.forward_to /\ seen.filter = n.filter
  BY <1>1, <1>2 DEF received, counter
<1>6. seen.transform = n.transform /\ seen.received = received /\ seen.event_counter = counter
  BY <1>1, <1>2 DEF received, counter
<1>7. seen.sequence = n.sequence /\ seen.passed = n.passed /\ seen.filtered = n.filtered
  BY <1>1, <1>2 DEF received, counter
<1>8. CASE ~passes
  <2>1. r.node = [seen EXCEPT !.filtered = filtered] /\ r.out = <<>>
    BY <1>1, <1>8 DEF filtered
  <2>2. r.node \in E
    BY <1>3, <1>4, <2>1
  <2>3. /\ r.node.kind = seen.kind /\ r.node.forward_to = seen.forward_to
        /\ r.node.filter = seen.filter
    BY <1>4, <2>1
  <2>4. /\ r.node.transform = seen.transform /\ r.node.received = seen.received
        /\ r.node.event_counter = seen.event_counter
    BY <1>4, <2>1
  <2>5. /\ r.node.sequence = seen.sequence /\ r.node.passed = seen.passed
        /\ r.node.filtered = filtered
    BY <1>4, <2>1
  <2>6. Verdicts(r.node, ev) = Verdicts(seen, ev)
    BY <2>3, <2>4 DEF Verdicts
  <2> HIDE DEF E
  <2>7. QED
    BY <1>1, <1>3, <1>5, <1>6, <1>7, <1>8, <2>1, <2>2, <2>3, <2>4, <2>5, <2>6
       DEF E, S, EnhancedPassThroughNode, received, counter, filtered
<1>9. CASE passes /\ n.forward_to = Nobody
  <2>1. r.node = seen /\ r.out = <<>>
    BY <1>1, <1>9
  <2> HIDE DEF E
  <2>2. QED
    BY <1>1, <1>3, <1>4, <1>5, <1>6, <1>7, <1>9, <2>1
       DEF E, S, EnhancedPassThroughNode, received, counter
<1>10. CASE passes /\ n.forward_to # Nobody
  <2>1. /\ r.node = [seen EXCEPT !.passed = passed, !.sequence = sequence]
        /\ r.out = <<Message(ev.time, id, n.forward_to, Transformed(id, n, ev.data))>>
    BY <1>1, <1>10 DEF passed, sequence
  <2>2. r.node \in E
    BY <1>3, <1>4, <2>1
  <2>3. /\ r.node.kind = seen.kind /\ r.node.forward_to = seen.forward_to
        /\ r.node.filter = seen.filter
    BY <1>4, <2>1
  <2>4. /\ r.node.transform = seen.transform /\ r.node.received = seen.received
        /\ r.node.event_counter = seen.event_counter
    BY <1>4, <2>1
  <2>5. /\ r.node.sequence = sequence /\ r.node.passed = passed
        /\ r.node.filtered = seen.filtered
    BY <1>4, <2>1
  <2>6. Verdicts(r.node, ev) = Verdicts(seen, ev)
    BY <2>3, <2>4 DEF Verdicts
  <2> HIDE DEF E
  <2>7. QED
    BY <1>1, <1>3, <1>5, <1>6, <1>7, <1>10, <2>1, <2>2, <2>3, <2>4, <2>5, <2>6
       DEF E, S, EnhancedPassThroughNode, received, counter, passed, sequence
<1>11. QED
  BY <1>8, <1>9, <1>10

\* An enhanced pass-through node answers so, whatever its filter says.
LEMMA EnhancedAnswers ==
  ASSUME NEW n \in EnhancedPassThroughNode(Ids), NEW id \in Ids, NEW ev \in Msg,
         NEW r \in EnhancedOnEvent(id, n, ev)
  PROVE  Answer(id, n, ev, r)
<1>1. /\ r.node \in EnhancedPassThroughNode(Ids)
      /\ r.node.kind = "enhanced" /\ r.node.forward_to = n.forward_to
      /\ r.node.filter = n.filter /\ r.node.transform = n.transform
      /\ r.node.received = n.received + 1
      /\ \/ r.node.passed = n.passed /\ r.out = <<>>
         \/ /\ r.node.passed = n.passed + 1 /\ n.forward_to # Nobody
            /\ r.out = <<Message(ev.time, id, n.forward_to, Transformed(id, n, ev.data))>>
  BY EnhancedNode
<1>2. n.kind = "enhanced" /\ n.forward_to \in Ids \cup {Nobody}
  BY DEF EnhancedPassThroughNode
<1>3. Reset(r.node) = Reset(n)
  BY <1>1, <1>2 DEF Reset
<1>4. Handled(r.node) = n.received + 1 /\ Handled(n) = n.received
  BY <1>1, <1>2 DEF Handled
<1>5. Answered(r.node) = r.node.passed /\ Answered(n) = n.passed
  BY <1>1, <1>2 DEF Answered
<1>6. r.node \in Nodes
  BY <1>1 DEF Nodes, Node
<1>7. ev.data \in Data(Ids) /\ ev.time \in Nat /\ 0 \in Delays /\ ev.time + 0 = ev.time
  BY NetworkAssumption DEF Msg
<1> DEFINE data == Transformed(id, n, ev.data)
<1>8. data \in Data(Ids) /\ data.item = ev.data.item /\ data.sent = ev.data.sent
  BY <1>7, TransformedData
<1> HIDE DEF data
<1>9. QED
  BY <1>1, <1>2, <1>3, <1>4, <1>5, <1>6, <1>7, <1>8 DEF Answer, data

\* The two nodes that pass everything answer so; a simple one without a target
\* counts nothing.
LEMMA SimpleAnswers ==
  ASSUME NEW n \in SimplePassThrough(Ids) \cup PassThroughNode(Ids), NEW id, NEW ev \in Msg, NEW r,
         \/ n.kind = "simple" /\ r \in SimpleOnEvent(id, n, ev)
         \/ n.kind = "passthrough" /\ r \in PassThroughOnEvent(id, n, ev)
  PROVE  Answer(id, n, ev, r)
<1> DEFINE more == [n EXCEPT !.count = @ + 1]
<1>1. /\ n.kind \in {"simple", "passthrough"} /\ n.forward_to \in Ids \cup {Nobody}
      /\ n.kind = "passthrough" => n.forward_to \in Ids
      /\ n.count \in Nat
  BY DEF SimplePassThrough, PassThroughNode
<1>2. /\ more \in SimplePassThrough(Ids) \cup PassThroughNode(Ids)
      /\ more.kind = n.kind /\ more.forward_to = n.forward_to /\ more.count = n.count + 1
  BY DEF SimplePassThrough, PassThroughNode
<1> HIDE DEF more
<1>3. \/ /\ r = Result(more, <<Message(ev.time, id, n.forward_to, ev.data)>>)
         /\ n.kind = "passthrough" \/ n.forward_to # Nobody
      \/ r = Result(n, <<>>) /\ n.kind = "simple" /\ n.forward_to = Nobody
  BY DEF SimpleOnEvent, PassThroughOnEvent, more
<1>4. ev.data \in Data(Ids) /\ ev.time \in Nat /\ 0 \in Delays /\ ev.time + 0 = ev.time
  BY NetworkAssumption DEF Msg
<1>5. /\ \A m \in SimplePassThrough(Ids) \cup PassThroughNode(Ids) : m \in Nodes
      /\ Handled(n) = n.count /\ Answered(n) = n.count
      /\ Handled(more) = more.count /\ Answered(more) = more.count
  BY <1>1, <1>2 DEF Nodes, Node, Handled, Answered
<1>6. Reset(more) = Reset(n)
  BY <1>1, <1>2 DEF Reset
<1>7. CASE r = Result(n, <<>>) /\ n.kind = "simple" /\ n.forward_to = Nobody
  <2>1. r.node = n /\ r.out = <<>> /\ ~CountsAll(n)
    BY <1>7 DEF Result, CountsAll
  <2>2. QED
    BY <1>5, <2>1 DEF Answer
<1>8. CASE /\ r = Result(more, <<Message(ev.time, id, n.forward_to, ev.data)>>)
           /\ n.kind = "passthrough" \/ n.forward_to # Nobody
  <2>1. /\ r.node = more /\ n.forward_to \in Ids
        /\ r.out = <<Message(ev.time + 0, id, n.forward_to, ev.data)>>
    BY <1>1, <1>4, <1>8 DEF Result
  <2>2. Answered(r.node) = Answered(n) + 1 /\ Handled(r.node) = Handled(n) + 1
    BY <1>2, <1>5, <2>1
  <2>3. QED
    BY <1>2, <1>4, <1>5, <1>6, <2>1, <2>2 DEF Answer
<1>9. QED
  BY <1>3, <1>7, <1>8

\* A counter answers nothing.
LEMMA CounterAnswers ==
  ASSUME NEW n \in CounterNode, NEW id, NEW ev, NEW r \in CounterOnEvent(n)
  PROVE  Answer(id, n, ev, r) /\ r.out = <<>>
<1> DEFINE more == [n EXCEPT !.events = @ + 1]
<1>1. /\ n.kind = "counter" /\ n.events \in Nat
      /\ more \in CounterNode /\ more.kind = "counter" /\ more.events = n.events + 1
  BY DEF CounterNode
<1> HIDE DEF more
<1>2. r.node = more /\ r.out = <<>>
  BY DEF CounterOnEvent, Result, more
<1>3. Handled(n) = n.events /\ Handled(more) = more.events
  BY <1>1 DEF Handled
<1>4. Answered(n) = 0 /\ Answered(more) = 0
  BY <1>1 DEF Answered
<1>5. Reset(more) = Reset(n) /\ more \in Nodes
  BY <1>1 DEF Reset, Nodes, Node
<1>6. QED
  BY <1>1, <1>2, <1>3, <1>4, <1>5 DEF Answer

\* An echo node answers so, to whoever sent the event.
LEMMA EchoAnswers ==
  ASSUME NEW n \in EchoNode(Delays), NEW id, NEW ev \in Msg, NEW r \in EchoOnEvent(id, n, ev)
  PROVE  Answer(id, n, ev, r)
<1> DEFINE more == [n EXCEPT !.echoed = @ + 1]
<1>1. /\ n.kind = "echo" /\ n.echoed \in Nat /\ n.delay \in Delays
      /\ more \in EchoNode(Delays) /\ more.kind = "echo" /\ more.echoed = n.echoed + 1
      /\ more.delay = n.delay
  BY DEF EchoNode
<1> HIDE DEF more
<1>2. r.node = more /\ r.out = <<Message(ev.time + n.delay, id, ev.src, ev.data)>>
  BY DEF EchoOnEvent, Result, more
<1>3. Handled(n) = n.echoed /\ Handled(more) = more.echoed
  BY <1>1 DEF Handled
<1>4. Answered(n) = n.echoed /\ Answered(more) = more.echoed
  BY <1>1 DEF Answered
<1>5. Reset(more) = Reset(n) /\ more \in Nodes
  BY <1>1 DEF Reset, Nodes, Node
<1>6. ev.src \in Ids /\ ev.data \in Data(Ids)
  BY NetworkAssumption DEF Msg, Ids
<1>7. QED
  BY <1>1, <1>2, <1>3, <1>4, <1>5, <1>6 DEF Answer

\* Whatever node of src/nodes handles it.
LEMMA NodeAnswers ==
  ASSUME NEW n \in Nodes, NEW id \in LocalNodes, NEW ev \in Msg, NEW r \in OnEvent(id, n, ev)
  PROVE  Answer(id, n, ev, r) /\ (n.kind = "counter" => r.out = <<>>)
<1>0. id \in Ids
  BY DEF Ids
<1>1. CASE n.kind = "delay"
  <2>1. n \in DelayNode(Ids, Delays) /\ r \in DelayOnEvent(id, n, ev)
    BY <1>1, NodeKinds DEF OnEvent
  <2>2. QED
    BY <1>1, <2>1, DelayAnswers
<1>2. CASE n.kind = "probabilistic"
  <2>1. n \in ProbabilisticDelayNode(Ids, Delays) /\ r \in ProbabilisticOnEvent(id, n, ev)
    BY <1>2, NodeKinds DEF OnEvent
  <2>2. QED
    BY <1>2, <2>1, ProbabilisticAnswers
<1>3. CASE n.kind = "enhanced"
  <2>1. n \in EnhancedPassThroughNode(Ids) /\ r \in EnhancedOnEvent(id, n, ev)
    BY <1>3, NodeKinds DEF OnEvent
  <2>2. QED
    BY <1>0, <1>3, <2>1, EnhancedAnswers
<1>4. CASE n.kind = "simple"
  <2>1. n \in SimplePassThrough(Ids) /\ r \in SimpleOnEvent(id, n, ev)
    BY <1>4, NodeKinds DEF OnEvent
  <2>2. QED
    BY <1>4, <2>1, SimpleAnswers
<1>5. CASE n.kind = "passthrough"
  <2>1. n \in PassThroughNode(Ids) /\ r \in PassThroughOnEvent(id, n, ev)
    BY <1>5, NodeKinds DEF OnEvent
  <2>2. QED
    BY <1>5, <2>1, SimpleAnswers
<1>6. CASE n.kind = "counter"
  <2>1. n \in CounterNode /\ r \in CounterOnEvent(n)
    BY <1>6, NodeKinds DEF OnEvent
  <2>2. QED
    BY <2>1, CounterAnswers
<1>7. CASE n.kind = "echo"
  <2>1. n \in EchoNode(Delays) /\ r \in EchoOnEvent(id, n, ev)
    BY <1>7, NodeKinds DEF OnEvent
  <2>2. QED
    BY <1>7, <2>1, EchoAnswers
<1>8. CASE n.kind = "source"
  <2>1. r.node = n /\ r.out = <<>> /\ ~CountsAll(n)
    BY <1>8 DEF OnEvent, Result, CountsAll
  <2>2. QED
    BY <1>8, <2>1 DEF Answer
<1>9. QED
  BY <1>1, <1>2, <1>3, <1>4, <1>5, <1>6, <1>7, <1>8, NodeKinds DEF Kinds

\* Resetting a node forgets its counters and nothing else.
LEMMA ResetKeeps ==
  ASSUME NEW n \in Nodes
  PROVE  /\ Reset(n).kind = n.kind
         /\ n.kind \in {"delay", "probabilistic", "enhanced", "simple", "passthrough"} =>
              Reset(n).forward_to = n.forward_to
         /\ n.kind = "delay" => Reset(n).delay = n.delay
         /\ n.kind = "probabilistic" => Reset(n).distribution = n.distribution
         /\ n.kind = "enhanced" => Reset(n).filter = n.filter /\ Reset(n).transform = n.transform
         /\ n.kind = "echo" => Reset(n).delay = n.delay
         /\ n.kind = "source" => Reset(n).target = n.target
         /\ Reset(n) \in Nodes
         /\ Reset(Reset(n)) = Reset(n)
         /\ Handled(Reset(n)) = 0 /\ Answered(Reset(n)) = 0
<1>1. CASE n.kind = "delay"
  <2>1. n \in DelayNode(Ids, Delays) /\ Reset(n) = NewDelay(n.delay, n.forward_to)
    BY <1>1, NodeKinds DEF Reset
  <2>2. Reset(n) \in DelayNode(Ids, Delays)
    BY <2>1 DEF NewDelay, DelayNode
  <2>3. QED
    BY <1>1, <2>1, <2>2 DEF NewDelay, Reset, Handled, Answered, Nodes, Node
<1>2. CASE n.kind = "probabilistic"
  <2>1. /\ n \in ProbabilisticDelayNode(Ids, Delays)
        /\ Reset(n) = NewProbabilistic(n.distribution, n.forward_to)
    BY <1>2, NodeKinds DEF Reset
  <2>2. Reset(n) \in ProbabilisticDelayNode(Ids, Delays)
    BY <2>1 DEF NewProbabilistic, ProbabilisticDelayNode
  <2>3. /\ Reset(n).kind = "probabilistic" /\ Reset(n).distribution = n.distribution
        /\ Reset(n).forward_to = n.forward_to /\ Reset(n).processed = 0
    BY <2>1 DEF NewProbabilistic
  <2>4. QED
    BY <1>2, <2>1, <2>2, <2>3 DEF Reset, Handled, Answered, Nodes, Node
<1>3. CASE n.kind = "enhanced"
  <2>1. n \in EnhancedPassThroughNode(Ids) /\ Reset(n) = NewEnhanced(n.filter, n.transform, n.forward_to)
    BY <1>3, NodeKinds DEF Reset
  <2>2. Reset(n) \in EnhancedPassThroughNode(Ids)
    BY <2>1 DEF NewEnhanced, EnhancedPassThroughNode
  <2>3. /\ Reset(n).kind = "enhanced" /\ Reset(n).filter = n.filter
        /\ Reset(n).transform = n.transform /\ Reset(n).forward_to = n.forward_to
        /\ Reset(n).received = 0 /\ Reset(n).passed = 0
    BY <2>1 DEF NewEnhanced
  <2>4. QED
    BY <1>3, <2>1, <2>2, <2>3 DEF Reset, Handled, Answered, Nodes, Node
<1>4. CASE n.kind = "simple"
  <2>1. n \in SimplePassThrough(Ids) /\ Reset(n) = NewSimple(n.forward_to)
    BY <1>4, NodeKinds DEF Reset
  <2>2. Reset(n) \in SimplePassThrough(Ids)
    BY <2>1 DEF NewSimple, SimplePassThrough
  <2>3. QED
    BY <1>4, <2>1, <2>2 DEF NewSimple, Reset, Handled, Answered, Nodes, Node
<1>5. CASE n.kind = "passthrough"
  <2>1. n \in PassThroughNode(Ids) /\ Reset(n) = NewPassThrough(n.forward_to)
    BY <1>5, NodeKinds DEF Reset
  <2>2. Reset(n) \in PassThroughNode(Ids)
    BY <2>1 DEF NewPassThrough, PassThroughNode
  <2>3. QED
    BY <1>5, <2>1, <2>2 DEF NewPassThrough, Reset, Handled, Answered, Nodes, Node
<1>6. CASE n.kind = "counter"
  <2>1. Reset(n) = NewCounter /\ Reset(n) \in CounterNode
    BY <1>6 DEF Reset, NewCounter, CounterNode
  <2>2. QED
    BY <1>6, <2>1 DEF NewCounter, Reset, Handled, Answered, Nodes, Node
<1>7. CASE n.kind = "echo"
  <2>1. n \in EchoNode(Delays) /\ Reset(n) = NewEcho(n.delay)
    BY <1>7, NodeKinds DEF Reset
  <2>2. Reset(n) \in EchoNode(Delays)
    BY <2>1 DEF NewEcho, EchoNode
  <2>3. QED
    BY <1>7, <2>1, <2>2 DEF NewEcho, Reset, Handled, Answered, Nodes, Node
<1>8. CASE n.kind = "source"
  <2>1. n \in SourceNode(Ids) /\ Reset(n) = NewSource(n.target)
    BY <1>8, NodeKinds DEF Reset
  <2>2. Reset(n) \in SourceNode(Ids)
    BY <2>1 DEF NewSource, SourceNode
  <2>3. QED
    BY <1>8, <2>1, <2>2 DEF NewSource, Reset, Handled, Answered, Nodes, Node
<1>9. QED
  BY <1>1, <1>2, <1>3, <1>4, <1>5, <1>6, <1>7, <1>8, NodeKinds DEF Kinds

\* So nodes that differ in their counters only are of one kind, and forward alike.
LEMMA SameConfiguration ==
  ASSUME NEW n \in Nodes, NEW m \in Nodes, Reset(n) = Reset(m)
  PROVE  /\ n.kind = m.kind
         /\ n.kind \in {"delay", "probabilistic", "enhanced", "simple", "passthrough"} =>
              n.forward_to = m.forward_to
         /\ n.kind = "delay" => n.delay = m.delay
         /\ n.kind = "probabilistic" => n.distribution = m.distribution
         /\ n.kind = "enhanced" => n.filter = m.filter /\ n.transform = m.transform
         /\ n.kind = "echo" => n.delay = m.delay
         /\ n.kind = "source" => n.target = m.target
  BY ResetKeeps

-------------------------------------------------------------------------------
\* The types of a network's state, and that it is one of the networks considered,
\* with its counters advanced.
NetTypes ==
  /\ current_time \in Nat /\ target \in Nat /\ scheduled \in Nat /\ ticked \in Nat
  /\ phase \in {"idle", "running"} /\ stats \in StatsType
  /\ QueueOK(queue, Msg)
  /\ all_outgoing \in Seq(Sent)
  /\ run \in [start : Nat, last : SUBSET EntrySet(Msg), served : Nat, late : BOOLEAN]
  /\ node \in [LocalNodes \cup {Source} -> Nodes]
  /\ [n \in DOMAIN node |-> Reset(node[n])] \in Networks
  /\ arrived \in Seq(Msg)

\* The source is one, and its target is a node of the executor.
LEMMA TheSource ==
  ASSUME NetTypes
  PROVE  /\ node[Source] \in SourceNode(Ids) /\ node[Source].kind = "source"
         /\ node[Source].target \in LocalNodes
         /\ Source \in Ids /\ Source \notin LocalNodes /\ LocalNodes \subseteq Ids
<1> DEFINE net == [n \in DOMAIN node |-> Reset(node[n])]
<1>1. net \in Networks /\ net[Source] = Reset(node[Source]) /\ node[Source] \in Nodes
  BY DEF NetTypes
<1> HIDE DEF net
<1>2. net[Source].kind = "source" /\ net[Source].target \in LocalNodes
  BY <1>1, NetworkAssumption
<1>3. node[Source].kind = "source" /\ node[Source].target \in LocalNodes
  BY <1>1, <1>2, ResetKeeps
<1>4. node[Source] \in SourceNode(Ids)
  BY <1>1, <1>3, NodeKinds
<1>5. Source \in Ids /\ Source \notin LocalNodes /\ LocalNodes \subseteq Ids
  BY NetworkAssumption, ExecutorAssumption DEF Ids
<1>6. QED
  BY <1>3, <1>4, <1>5

\* What a tick of the source hands over: a new item, sent now.
LEMMA SourceSends ==
  ASSUME NetTypes, NEW t \in Nat, NEW matches \in BOOLEAN,
         NEW made, made = SourceOnTick(Source, node[Source], t, matches)
  PROVE  /\ made.node \in Nodes /\ Reset(made.node) = Reset(node[Source])
         /\ node[Source].generated \in Nat
         /\ made.node.generated = node[Source].generated + 1
         /\ \E m \in Msg : /\ made.out = <<m>>
                           /\ m.time = t /\ m.src = Source /\ m.dst = node[Source].target
                           /\ m.data.item = node[Source].generated + 1 /\ m.data.sent = t
                           /\ m.data.number = <<>>
<1> DEFINE n == node[Source]
           more == [n EXCEPT !.generated = @ + 1]
           data == [item |-> more.generated, sent |-> t, matches |-> matches, number |-> <<>>]
           m == Message(t, Source, n.target, data)
<1>1. n \in SourceNode(Ids) /\ n.kind = "source" /\ n.target \in LocalNodes
  BY TheSource
<1> HIDE DEF n
<1>2. /\ more \in SourceNode(Ids) /\ more.kind = "source" /\ more.target = n.target
      /\ n.generated \in Nat /\ more.generated = n.generated + 1
  BY <1>1 DEF SourceNode
<1>3. made.node = more /\ made.out = <<m>>
  BY DEF SourceOnTick, Result, n
<1> HIDE DEF more
<1>4. data \in Data(Ids)
  BY <1>2 DEF Data
<1>5. data.item = n.generated + 1 /\ data.sent = t /\ data.number = <<>>
  BY <1>2
<1> HIDE DEF data
<1>6. /\ m \in Msg /\ m.time = t /\ m.src = Source /\ m.dst = n.target /\ m.data = data
  BY <1>1, <1>4 DEF Msg, Message
<1> HIDE DEF m
<1>7. Reset(more) = Reset(n) /\ more \in Nodes
  BY <1>1, <1>2 DEF Reset, Nodes, Node
<1>8. QED
  BY <1>2, <1>3, <1>5, <1>6, <1>7 DEF n

\* What a node returns, no or one event, in its two parts.
Split(out, locals, outgoing) ==
  \/ out = <<>> /\ locals = <<>> /\ outgoing = <<>>
  \/ \E m \in Sent : /\ out = <<m>>
                     /\ m.dst \in LocalNodes => m \in Msg /\ locals = <<m>> /\ outgoing = <<>>
                     /\ m.dst \notin LocalNodes => locals = <<>> /\ outgoing = <<m>>

\* One iteration of the executor's loop, taken apart.
Iteration(e, r, locals, outgoing) ==
  LET id == e.event.dst
  IN  /\ e \in queue.entries /\ e.event \in Msg /\ id \in LocalNodes
      /\ node[id] \in Nodes
      /\ r \in OnEvent(id, node[id], e.event)
      /\ Answer(id, node[id], e.event, r)
      /\ node[id].kind = "counter" => r.out = <<>>
      /\ HandleEvent(e, locals, outgoing)
      /\ node' = [node EXCEPT ![id] = r.node]
      /\ arrived' = IF node[id].kind = "counter" THEN Append(arrived, e.event) ELSE arrived
      /\ ticked' = ticked
      /\ Split(r.out, locals, outgoing)

\* HandleFirst is such an iteration: the node answers as NodeAnswers says, and the
\* executor keeps the answer or hands it on.
LEMMA HandledStep ==
  ASSUME NetTypes, HandleFirst
  PROVE  \E e, r, locals, outgoing : Iteration(e, r, locals, outgoing)
<1>1. PICK e \in queue.entries : \E r \in OnEvent(e.event.dst, node[e.event.dst], e.event) :
          /\ HandleEvent(e, Kept(r.out, LocalOf(r.out)), Kept(r.out, RemoteOf(r.out)))
          /\ node' = [node EXCEPT ![e.event.dst] = r.node]
          /\ arrived' = IF node[e.event.dst].kind = "counter" THEN Append(arrived, e.event)
                        ELSE arrived
          /\ UNCHANGED ticked
  BY DEF HandleFirst
<1> DEFINE id == e.event.dst
<1>2. PICK r \in OnEvent(id, node[id], e.event) :
          /\ HandleEvent(e, Kept(r.out, LocalOf(r.out)), Kept(r.out, RemoteOf(r.out)))
          /\ node' = [node EXCEPT ![id] = r.node]
          /\ arrived' = IF node[id].kind = "counter" THEN Append(arrived, e.event) ELSE arrived
          /\ UNCHANGED ticked
  BY <1>1
<1>3. e.event \in Msg /\ id \in LocalNodes
  BY DEF NetTypes, QueueOK, EntrySet, Msg
<1>4. node[id] \in Nodes
  BY <1>3 DEF NetTypes
<1>5. Answer(id, node[id], e.event, r) /\ (node[id].kind = "counter" => r.out = <<>>)
  BY <1>2, <1>3, <1>4, NodeAnswers
<1> HIDE DEF id
<1> DEFINE locals == Kept(r.out, LocalOf(r.out))
           outgoing == Kept(r.out, RemoteOf(r.out))
<1>6. Split(r.out, locals, outgoing)
  <2>1. CASE r.out = <<>>
    BY <2>1, KeptOfOne DEF Split
  <2>2. ASSUME NEW d \in Delays, NEW to \in Ids, NEW data \in Data(Ids),
               r.out = <<Message(e.event.time + d, id, to, data)>>
        PROVE  Split(r.out, locals, outgoing)
    <3> DEFINE m == Message(e.event.time + d, id, to, data)
    <3>1. e.event.time + d \in Nat
      BY <1>3, ExecutorAssumption DEF Msg
    <3>2. m \in Sent /\ m.dst = to /\ (to \in LocalNodes => m \in Msg)
      BY <1>3, <3>1 DEF Message, Sent, Msg, id
    <3>3. r.out = <<m>>
      BY <2>2
    <3> HIDE DEF m
    <3>4. DOMAIN r.out = {1} /\ r.out[1] = m
      BY <3>3
    <3>5. /\ to \in LocalNodes => 1 \in LocalOf(r.out) /\ 1 \notin RemoteOf(r.out)
          /\ to \notin LocalNodes => 1 \notin LocalOf(r.out) /\ 1 \in RemoteOf(r.out)
      BY <3>2, <3>4 DEF LocalOf, RemoteOf
    <3> DEFINE L == LocalOf(r.out)
               R == RemoteOf(r.out)
    <3> HIDE DEF L, R
    <3>6. /\ to \in LocalNodes => Kept(<<m>>, L) = <<m>> /\ Kept(<<m>>, R) = <<>>
          /\ to \notin LocalNodes => Kept(<<m>>, L) = <<>> /\ Kept(<<m>>, R) = <<m>>
      BY <3>5, KeptOfOne DEF L, R
    <3>7. locals = Kept(<<m>>, L) /\ outgoing = Kept(<<m>>, R)
      BY <3>3 DEF L, R
    <3> HIDE DEF locals, outgoing
    <3>8. QED
      BY <3>2, <3>3, <3>6, <3>7 DEF Split
  <2>3. \/ r.out = <<>>
        \/ \E d \in Delays, to \in Ids, data \in Data(Ids) :
             r.out = <<Message(e.event.time + d, id, to, data)>>
    BY <1>5, Zenon DEF Answer
  <2> HIDE DEF locals, outgoing
  <2>4. QED
    BY <2>1, <2>2, <2>3, Zenon
<1> HIDE DEF locals, outgoing
<1>7. HandleEvent(e, locals, outgoing)
  BY <1>2 DEF locals, outgoing
<1>8. Iteration(e, r, locals, outgoing)
  BY <1>1, <1>2, <1>3, <1>4, <1>5, <1>6, <1>7 DEF Iteration, id
<1>9. QED
  BY <1>8

\* One node changes to another of its configuration: the network is the same.
LEMMA SameNetwork ==
  ASSUME NEW f \in [LocalNodes \cup {Source} -> Nodes], NEW id \in LocalNodes \cup {Source},
         NEW m \in Nodes, Reset(m) = Reset(f[id]), NEW g, g = [f EXCEPT ![id] = m]
  PROVE  /\ g \in [LocalNodes \cup {Source} -> Nodes]
         /\ [n \in DOMAIN g |-> Reset(g[n])] = [n \in DOMAIN f |-> Reset(f[n])]
         /\ g[id] = m /\ \A n \in (LocalNodes \cup {Source}) \ {id} : g[n] = f[n]
<1> DEFINE D == LocalNodes \cup {Source}
<1> HIDE DEF D
<1>1. g \in [D -> Nodes] /\ g[id] = m /\ \A n \in D \ {id} : g[n] = f[n]
  BY DEF D
<1>2. \A n \in D : Reset(g[n]) = Reset(f[n])
  BY <1>1
<1>3. DOMAIN g = D /\ DOMAIN f = D
  BY <1>1 DEF D
<1>4. QED
  BY <1>1, <1>2, <1>3, Zenon DEF D

\* The types of what the executor does with the answer.
LEMMA IterationTypes ==
  ASSUME NetTypes, NEW e, NEW r, NEW locals, NEW outgoing, Iteration(e, r, locals, outgoing)
  PROVE  /\ locals \in Seq(Msg) /\ outgoing \in Seq(Sent)
         /\ \A i \in DOMAIN outgoing : outgoing[i].dst \notin LocalNodes
         /\ Len(locals) \in Nat /\ Len(outgoing) \in Nat
         /\ QueueOK(Without(queue, {e}), Msg) /\ QueueOK(queue', Msg)
         /\ e \in EntrySet(Msg) /\ e.event.time \in Nat /\ e.seq \in Nat
         /\ node' \in [LocalNodes \cup {Source} -> Nodes]
         /\ [n \in DOMAIN node' |-> Reset(node'[n])] = [n \in DOMAIN node |-> Reset(node[n])]
         /\ node'[e.event.dst] = r.node
         /\ \A n \in (LocalNodes \cup {Source}) \ {e.event.dst} : node'[n] = node[n]
<1> DEFINE id == e.event.dst
<1>1. /\ e \in queue.entries /\ e.event \in Msg /\ id \in LocalNodes
      /\ r.node \in Nodes /\ Reset(r.node) = Reset(node[id])
      /\ HandleEvent(e, locals, outgoing) /\ Split(r.out, locals, outgoing)
      /\ node' = [node EXCEPT ![id] = r.node]
  BY DEF Iteration, Answer
<1>2. /\ locals \in Seq(Msg) /\ outgoing \in Seq(Sent)
      /\ \A i \in DOMAIN outgoing : outgoing[i].dst \notin LocalNodes
  <2>1. CASE locals = <<>> /\ outgoing = <<>>
    BY <2>1
  <2>2. CASE \E m \in Msg : locals = <<m>> /\ outgoing = <<>>
    BY <2>2
  <2>3. CASE \E m \in Sent : locals = <<>> /\ outgoing = <<m>> /\ m.dst \notin LocalNodes
    BY <2>3
  <2>4. QED
    BY <1>1, <2>1, <2>2, <2>3, Zenon DEF Split
<1>3. QueueOK(Without(queue, {e}), Msg)
  BY <1>1, WithoutOK DEF NetTypes
<1>4. QueueOK(queue', Msg)
  BY <1>1, <1>2, <1>3, PushAllOK DEF HandleEvent
<1>5. e \in EntrySet(Msg) /\ e.event.time \in Nat /\ e.seq \in Nat
  BY <1>1 DEF NetTypes, QueueOK, EntrySet, Msg
<1>6. node \in [LocalNodes \cup {Source} -> Nodes]
  BY DEF NetTypes
<1> HIDE DEF id
<1>7. /\ node' \in [LocalNodes \cup {Source} -> Nodes]
      /\ [n \in DOMAIN node' |-> Reset(node'[n])] = [n \in DOMAIN node |-> Reset(node[n])]
      /\ node'[id] = r.node
      /\ \A n \in (LocalNodes \cup {Source}) \ {id} : node'[n] = node[n]
  <2>1. id \in LocalNodes \cup {Source}
    BY <1>1
  <2>2. QED
    BY <1>1, <1>6, <2>1, SameNetwork
<1>8. Len(locals) \in Nat /\ Len(outgoing) \in Nat
  BY <1>2
<1>9. QED
  BY <1>2, <1>3, <1>4, <1>5, <1>7, <1>8 DEF id

\* What Init sets up is typed, whatever the network.
LEMMA NetInitTypes == NetInit => NetTypes
<1> SUFFICES ASSUME NetInit  PROVE NetTypes
  OBVIOUS
<1>1. QueueOK(EmptyQueue, Msg)
  BY FS_EmptySet DEF QueueOK, EmptyQueue, EntrySet
<1>2. /\ node \in [LocalNodes \cup {Source} -> Nodes]
      /\ \A n \in DOMAIN node : node[n] = Reset(node[n])
      /\ node \in Networks
  BY NetworkAssumption DEF NetInit, Nodes, Ids
<1>3. [n \in DOMAIN node |-> Reset(node[n])] = node
  BY <1>2
<1>4. NoRun \in [start : Nat, last : SUBSET EntrySet(Msg), served : Nat, late : BOOLEAN]
  BY DEF NoRun
<1>5. NoStats \in StatsType
  BY DEF NoStats, StatsType
<1>6. QED
  BY <1>1, <1>2, <1>3, <1>4, <1>5 DEF NetInit, Init, NetTypes

\* Every step keeps the types, and the network.
LEMMA NetStepTypes == NetTypes /\ [NetNext]_netVars => NetTypes'
<1> SUFFICES ASSUME NetTypes, [NetNext]_netVars  PROVE NetTypes'
  OBVIOUS
<1> DEFINE RunType == [start : Nat, last : SUBSET EntrySet(Msg), served : Nat, late : BOOLEAN]
<1>0. /\ node \in [LocalNodes \cup {Source} -> Nodes]
      /\ [n \in DOMAIN node |-> Reset(node[n])] \in Networks
      /\ QueueOK(queue, Msg) /\ stats \in StatsType /\ run \in RunType
      /\ queue.counter \in Nat /\ current_time \in Nat
  BY DEF NetTypes, QueueOK
<1>1. CASE InitNetwork
  <2>1. QueueOK(EmptyQueue, Msg)
    BY FS_EmptySet DEF QueueOK, EmptyQueue, EntrySet
  <2>2. node' = [n \in DOMAIN node |-> Reset(node[n])]
    BY <1>1 DEF InitNetwork
  <2>3. /\ node' \in [LocalNodes \cup {Source} -> Nodes]
        /\ [n \in DOMAIN node' |-> Reset(node'[n])] = node'
    <3>1. \A n \in LocalNodes \cup {Source} :
             Reset(node[n]) \in Nodes /\ Reset(Reset(node[n])) = Reset(node[n])
      BY <1>0, ResetKeeps
    <3>2. QED
      BY <1>0, <2>2, <3>1
  <2>4. NoRun \in RunType
    BY DEF NoRun
  <2>5. NoStats \in StatsType
    BY DEF NoStats, StatsType
  <2>6. [n \in DOMAIN node' |-> Reset(node'[n])] \in Networks
    BY <1>0, <2>2, <2>3
  <2>7. phase' \in {"idle", "running"}
    BY <1>1 DEF InitNetwork, InitExecutor, NetTypes
  <2> HIDE DEF RunType
  <2>8. /\ current_time' = 0 /\ target' = 0 /\ scheduled' = 0 /\ ticked' = 0
        /\ stats' = NoStats /\ queue' = EmptyQueue /\ all_outgoing' = <<>>
        /\ run' = NoRun /\ arrived' = <<>>
    BY <1>1 DEF InitNetwork, InitExecutor
  <2>9. QED
    BY <2>1, <2>3, <2>4, <2>5, <2>6, <2>7, <2>8 DEF NetTypes, RunType
<1>2. ASSUME NEW t \in 0..MaxTime, NEW matches \in Contents, SourceTick(t, matches)
      PROVE  NetTypes'
  <2> DEFINE made == SourceOnTick(Source, node[Source], t, matches)
  <2>1. t \in Nat /\ matches \in BOOLEAN
    <3>1. Contents = BOOLEAN \/ Contents = {FALSE}
      BY DEF Contents
    <3>2. matches \in BOOLEAN
      BY <3>1
    <3>3. QED
      BY <3>2, ExecutorAssumption
  <2>2. /\ made.node \in Nodes /\ Reset(made.node) = Reset(node[Source])
        /\ \E m \in Msg : made.out = <<m>>
    BY <2>1, SourceSends
  <2>3. /\ HandleIncoming(made.out)
        /\ node' = [node EXCEPT ![Source] = made.node]
        /\ ticked' = t /\ arrived' = arrived
    BY <1>2 DEF SourceTick
  <2> HIDE DEF made
  <2>4. made.out \in Seq(Msg) /\ Len(made.out) \in Nat
    BY <2>2
  <2>5. QueueOK(queue', Msg)
    BY <1>0, <2>3, <2>4, PushAllOK DEF HandleIncoming
  <2>6. stats' \in StatsType
    BY <1>0, <2>3, <2>4, PeakIsNat, CountOK DEF HandleIncoming
  <2>7. /\ node' \in [LocalNodes \cup {Source} -> Nodes]
        /\ [n \in DOMAIN node' |-> Reset(node'[n])] = [n \in DOMAIN node |-> Reset(node[n])]
    BY <1>0, <2>2, <2>3, SameNetwork
  <2>8. UNCHANGED <<current_time, phase, target, all_outgoing, scheduled, run>>
    BY <2>3 DEF HandleIncoming
  <2>9. QED
    BY <1>0, <2>1, <2>3, <2>5, <2>6, <2>7, <2>8 DEF NetTypes
<1>3. ASSUME NEW t \in 0..MaxTime, StartRun(t)  PROVE NetTypes'
  <2>1. /\ phase' = "running" /\ target' = t /\ all_outgoing' = <<>> /\ t \in Nat
        /\ UNCHANGED <<current_time, queue, stats, scheduled, node, ticked, arrived>>
    BY <1>3, ExecutorAssumption DEF StartRun, BeginRun
  <2>2. run' \in RunType
    BY <1>0, <1>3 DEF StartRun, BeginRun
  <2>3. QED
    BY <2>1, <2>2 DEF NetTypes
<1>4. CASE HandleFirst
  <2>1. PICK e, r, locals, outgoing : Iteration(e, r, locals, outgoing)
    BY <1>4, HandledStep
  <2>2. /\ locals \in Seq(Msg) /\ outgoing \in Seq(Sent)
        /\ Len(locals) \in Nat /\ Len(outgoing) \in Nat
        /\ QueueOK(Without(queue, {e}), Msg) /\ QueueOK(queue', Msg)
        /\ e \in EntrySet(Msg) /\ e.event.time \in Nat
        /\ node' \in [LocalNodes \cup {Source} -> Nodes]
        /\ [n \in DOMAIN node' |-> Reset(node'[n])] = [n \in DOMAIN node |-> Reset(node[n])]
    BY <2>1, IterationTypes
  <2>3. HandleEvent(e, locals, outgoing)
    BY <2>1 DEF Iteration
  <2>4. stats' \in StatsType
    <3>1. PeakAfter(Without(queue, {e}), locals) \in Nat
      BY <1>0, <2>2, PeakIsNat
    <3>2. Len(locals) + Len(outgoing) \in Nat
      BY <2>2
    <3>3. QED
      BY <1>0, <2>2, <2>3, <3>1, <3>2, CountOK DEF HandleEvent
  <2>5. current_time' \in Nat /\ run' \in RunType
    BY <1>0, <2>2, <2>3 DEF HandleEvent, Larger
  <2>6. all_outgoing' \in Seq(Sent)
    BY <2>2, <2>3 DEF HandleEvent, NetTypes
  <2>7. arrived' \in Seq(Msg) /\ ticked' = ticked
    <3>1. e.event \in Msg
      BY <2>1 DEF Iteration
    <3>2. arrived' = Append(arrived, e.event) \/ arrived' = arrived
      BY <2>1 DEF Iteration
    <3>3. ticked' = ticked
      BY <2>1 DEF Iteration
    <3>4. arrived \in Seq(Msg)
      BY DEF NetTypes
    <3>5. Append(arrived, e.event) \in Seq(Msg)
      BY <3>1, <3>4
    <3>6. QED
      BY <3>2, <3>3, <3>4, <3>5
  <2>8. UNCHANGED <<phase, target, scheduled>>
    BY <2>3 DEF HandleEvent
  <2>9. QED
    BY <1>0, <2>2, <2>4, <2>5, <2>6, <2>7, <2>8 DEF NetTypes
<1>5. CASE Return
  <2>1. /\ current_time' \in Nat /\ phase' = "idle"
        /\ UNCHANGED <<queue, stats, target, all_outgoing, scheduled, node, ticked, arrived>>
    BY <1>0, <1>5 DEF Return, ReturnFromRun, Larger, NetTypes
  <2>2. run' \in RunType
    BY <1>0, <1>5 DEF Return, ReturnFromRun
  <2>3. QED
    BY <2>1, <2>2 DEF NetTypes
<1>6. CASE UNCHANGED netVars
  BY <1>6 DEF netVars, vars, NetTypes
<1>7. QED
  BY <1>1, <1>2, <1>3, <1>4, <1>5, <1>6 DEF NetNext

\* Type correctness of NodeNetwork.
LEMMA NetTyped == NetSpec => []NetTypes
  BY NetInitTypes, NetStepTypes, PTL DEF NetSpec

-------------------------------------------------------------------------------
\* CountersAgree: what the statistics add up to.

\* What a node's statistics say are counts.
LEMMA CountsAreNat ==
  ASSUME NEW n \in Nodes
  PROVE  Handled(n) \in Nat /\ Answered(n) \in Nat
<1>1. CASE n.kind = "delay"
  BY <1>1, NodeKinds DEF DelayNode, Handled, Answered
<1>2. CASE n.kind = "probabilistic"
  <2>1. n.processed \in Nat
    BY <1>2, NodeKinds DEF ProbabilisticDelayNode
  <2>2. QED
    BY <1>2, <2>1 DEF Handled, Answered
<1>3. CASE n.kind = "enhanced"
  <2>1. n.received \in Nat /\ n.passed \in Nat
    BY <1>3, NodeKinds DEF EnhancedPassThroughNode
  <2>2. QED
    BY <1>3, <2>1 DEF Handled, Answered
<1>4. CASE n.kind = "simple"
  BY <1>4, NodeKinds DEF SimplePassThrough, Handled, Answered
<1>5. CASE n.kind = "passthrough"
  BY <1>5, NodeKinds DEF PassThroughNode, Handled, Answered
<1>6. CASE n.kind = "counter"
  BY <1>6, NodeKinds DEF CounterNode, Handled, Answered
<1>7. CASE n.kind = "echo"
  BY <1>7, NodeKinds DEF EchoNode, Handled, Answered
<1>8. CASE n.kind = "source"
  BY <1>8 DEF Handled, Answered
<1>9. QED
  BY <1>1, <1>2, <1>3, <1>4, <1>5, <1>6, <1>7, <1>8, NodeKinds DEF Kinds

\* What one iteration adds to the counters of the executor and of the node.
LEMMA IterationCounts ==
  ASSUME NetTypes, NEW e, NEW r, NEW locals, NEW outgoing, Iteration(e, r, locals, outgoing)
  PROVE  LET id == e.event.dst
         IN  /\ Len(locals) + Len(outgoing) \in {0, 1}
             /\ r.out = <<>> => Len(locals) + Len(outgoing) = 0
             /\ Answered(r.node) = Answered(node[id]) + (Len(locals) + Len(outgoing))
             /\ CountsAll(node[id]) => Handled(r.node) = Handled(node[id]) + 1
             /\ stats'.processed = stats.processed + 1
             /\ stats'.generated = stats.generated + (Len(locals) + Len(outgoing))
             /\ stats'.incoming = stats.incoming
<1> DEFINE id == e.event.dst
           k == Len(locals) + Len(outgoing)
<1>1. /\ Answer(id, node[id], e.event, r) /\ Split(r.out, locals, outgoing)
      /\ HandleEvent(e, locals, outgoing) /\ node[id] \in Nodes
  BY DEF Iteration
<1>2. (r.out = <<>> /\ k = 0) \/ (r.out # <<>> /\ k = 1)
  <2>1. CASE r.out = <<>> /\ locals = <<>> /\ outgoing = <<>>
    BY <2>1
  <2>2. CASE \E m \in Msg : r.out = <<m>> /\ locals = <<m>> /\ outgoing = <<>>
    BY <2>2
  <2>3. CASE \E m \in Sent : r.out = <<m>> /\ locals = <<>> /\ outgoing = <<m>>
    BY <2>3
  <2> HIDE DEF k
  <2>4. QED
    BY <1>1, <2>1, <2>2, <2>3, Zenon DEF Split
<1> HIDE DEF id, k
<1>3. Answered(node[id]) \in Nat
  BY <1>1, CountsAreNat
<1>4. /\ r.out = <<>> => Answered(r.node) = Answered(node[id])
      /\ r.out # <<>> => Answered(r.node) = Answered(node[id]) + 1
      /\ CountsAll(node[id]) => Handled(r.node) = Handled(node[id]) + 1
  <2>1. /\ CountsAll(node[id]) => Handled(r.node) = Handled(node[id]) + 1
        /\ \/ r.out = <<>> /\ Answered(r.node) = Answered(node[id])
           \/ /\ Answered(r.node) = Answered(node[id]) + 1
              /\ \E m : r.out = <<m>>
    BY <1>1, Zenon DEF Answer
  <2>2. \A m : <<m>> # <<>>
    OBVIOUS
  <2>3. QED
    BY <2>1, <2>2
<1>5. /\ stats'.processed = stats.processed + 1
      /\ stats'.generated = stats.generated + k
      /\ stats'.incoming = stats.incoming
  <2>1. stats \in StatsType
    BY DEF NetTypes
  <2>2. stats.incoming \in Nat
    BY <2>1 DEF StatsType
  <2>3. QED
    BY <1>1, <2>2 DEF HandleEvent, Count, k
<1>6. QED
  BY <1>2, <1>3, <1>4, <1>5 DEF id, k

\* Whatever counts all it is handed keeps doing so.
LEMMA SameCountsAll ==
  ASSUME NEW n \in Nodes, NEW m \in Nodes, Reset(n) = Reset(m)
  PROVE  CountsAll(n) = CountsAll(m)
  BY SameConfiguration DEF CountsAll

\* The sum over the nodes, when one of them changes.
LEMMA SumOverNodes ==
  ASSUME NEW f \in [LocalNodes -> Nat], NEW g \in [LocalNodes -> Nat], NEW id \in LocalNodes,
         NEW k \in Nat, g[id] = f[id] + k, \A n \in LocalNodes \ {id} : g[n] = f[n]
  PROVE  SumFunction(f) \in Nat /\ SumFunction(g) = SumFunction(f) + k
<1>1. SumFunction(f) = SumFunctionOnSet(f, LocalNodes) /\ SumFunction(g) = SumFunctionOnSet(g, LocalNodes)
  BY DEF SumFunction
<1>2. IsFiniteSet(LocalNodes)
  BY NetworkAssumption
<1>3. SumFunctionOnSet(f, LocalNodes) \in Nat /\ SumFunctionOnSet(g, LocalNodes) \in Nat
  BY <1>2, SumType
<1>4. SumFunctionOnSet(g, LocalNodes) + f[id] = SumFunctionOnSet(f, LocalNodes) + g[id]
  <2>1. \A x \in LocalNodes : f[x] \in Nat /\ g[x] \in Nat
    OBVIOUS
  <2>2. QED
    BY <1>2, <2>1, SumUpdate
<1>5. f[id] \in Nat
  OBVIOUS
<1>6. QED
  BY <1>1, <1>3, <1>4, <1>5

\* The sum over nodes that have counted nothing.
LEMMA SumOverReset ==
  ASSUME NEW f \in [LocalNodes -> Nat], \A n \in LocalNodes : f[n] = 0
  PROVE  SumFunction(f) = 0
<1>1. SumFunction(f) = SumFunctionOnSet(f, LocalNodes)
  BY DEF SumFunction
<1>2. QED
  BY <1>1, SumZero, NetworkAssumption

\* Every step counts in the executor what it counts in a node.
LEMMA CountersStep == NetTypes /\ NetTypes' /\ CountersAgree /\ [NetNext]_netVars => CountersAgree'
<1> SUFFICES ASSUME NetTypes, NetTypes', CountersAgree, [NetNext]_netVars  PROVE CountersAgree'
  OBVIOUS
<1> DEFINE f == [n \in LocalNodes |-> Handled(node[n])]
           g == [n \in LocalNodes |-> Answered(node[n])]
           All == \A n \in LocalNodes : CountsAll(node[n])
           Passed(n) == n.kind = "enhanced" /\ n.forward_to # Nobody =>
                          n.received = n.passed + n.filtered
<1>1. /\ All => stats.processed = SumFunction(f)
      /\ stats.generated = SumFunction(g)
      /\ stats.incoming = node[Source].generated
      /\ \A n \in LocalNodes : Passed(node[n])
  BY DEF CountersAgree
<1>2. /\ \A n \in LocalNodes : node[n] \in Nodes /\ node'[n] \in Nodes
      /\ node \in [LocalNodes \cup {Source} -> Nodes]
      /\ Source \notin LocalNodes
  BY TheSource DEF NetTypes
<1>3. f \in [LocalNodes -> Nat] /\ g \in [LocalNodes -> Nat]
  BY <1>2, CountsAreNat
<1>4. f' \in [LocalNodes -> Nat] /\ g' \in [LocalNodes -> Nat]
  BY <1>2, CountsAreNat
<1>5. ASSUME /\ All' => stats'.processed = SumFunction(f')
             /\ stats'.generated = SumFunction(g')
             /\ stats'.incoming = node'[Source].generated
             /\ \A n \in LocalNodes : Passed(node'[n])
      PROVE  CountersAgree'
  BY <1>5 DEF CountersAgree
<1>6. CASE InitNetwork
  <2>1. stats' = NoStats /\ node' = [n \in DOMAIN node |-> Reset(node[n])]
    BY <1>6 DEF InitNetwork, InitExecutor
  <2>2. \A n \in LocalNodes : node'[n] = Reset(node[n])
    BY <1>2, <2>1
  <2>3. \A n \in LocalNodes : f'[n] = 0 /\ g'[n] = 0
    BY <1>2, <2>2, ResetKeeps
  <2> HIDE DEF f, g, All
  <2>4. SumFunction(f') = 0 /\ SumFunction(g') = 0
    BY <1>4, <2>3, SumOverReset
  <2>5. node'[Source].generated = 0
    <3>1. node'[Source] = Reset(node[Source]) /\ node[Source].kind = "source"
      BY <1>2, <2>1, TheSource
    <3>2. Reset(node[Source]) = NewSource(node[Source].target)
      BY <3>1 DEF Reset
    <3>3. QED
      BY <3>1, <3>2 DEF NewSource
  <2>6. ASSUME NEW n \in LocalNodes  PROVE Passed(node'[n])
    <3>1. SUFFICES ASSUME node'[n].kind = "enhanced"  PROVE Passed(node'[n])
      OBVIOUS
    <3>2. node[n].kind = "enhanced"
      BY <1>2, <2>2, <3>1, ResetKeeps
    <3>3. node'[n] = NewEnhanced(node[n].filter, node[n].transform, node[n].forward_to)
      BY <2>2, <3>2 DEF Reset
    <3>4. node'[n].received = 0 /\ node'[n].passed = 0 /\ node'[n].filtered = 0
      BY <3>3 DEF NewEnhanced
    <3>5. QED
      BY <3>4
  <2>7. stats'.processed = 0 /\ stats'.generated = 0 /\ stats'.incoming = 0
    BY <2>1 DEF NoStats
  <2>8. QED
    BY <1>5, <2>4, <2>5, <2>6, <2>7
<1>7. ASSUME NEW t \in 0..MaxTime, NEW matches \in Contents, SourceTick(t, matches)
      PROVE  CountersAgree'
  <2> DEFINE made == SourceOnTick(Source, node[Source], t, matches)
  <2>1. t \in Nat /\ matches \in BOOLEAN
    <3>1. Contents = BOOLEAN \/ Contents = {FALSE}
      BY DEF Contents
    <3>2. matches \in BOOLEAN
      BY <3>1
    <3>3. QED
      BY <3>2, ExecutorAssumption
  <2>2. /\ made.node.generated = node[Source].generated + 1
        /\ node[Source].generated \in Nat
        /\ \E m \in Msg : made.out = <<m>>
    BY <2>1, SourceSends
  <2>3. /\ HandleIncoming(made.out)
        /\ node' = [node EXCEPT ![Source] = made.node]
    BY <1>7 DEF SourceTick
  <2> HIDE DEF made
  <2>4. Len(made.out) = 1
    BY <2>2
  <2>5. /\ stats'.processed = stats.processed /\ stats'.generated = stats.generated
        /\ stats'.incoming = stats.incoming + 1
    <3>1. stats.processed \in Nat /\ stats.generated \in Nat /\ stats.incoming \in Nat
      BY DEF NetTypes, StatsType
    <3>2. QED
      BY <2>3, <2>4, <3>1 DEF HandleIncoming, Count
  <2>6. /\ node'[Source] = made.node
        /\ \A n \in LocalNodes : node'[n] = node[n]
    BY <1>2, <2>3
  <2>7. f' = f /\ g' = g /\ All' = All /\ \A n \in LocalNodes : Passed(node'[n])
    BY <1>1, <2>6
  <2> HIDE DEF f, g, All
  <2>8. QED
    BY <1>1, <1>5, <2>2, <2>5, <2>6, <2>7
<1>8. CASE HandleFirst
  <2>1. PICK e, r, locals, outgoing : Iteration(e, r, locals, outgoing)
    BY <1>8, HandledStep
  <2> DEFINE id == e.event.dst
             k == Len(locals) + Len(outgoing)
  <2>2. /\ k \in {0, 1} /\ k \in Nat
        /\ Answered(r.node) = Answered(node[id]) + k
        /\ CountsAll(node[id]) => Handled(r.node) = Handled(node[id]) + 1
        /\ stats'.processed = stats.processed + 1
        /\ stats'.generated = stats.generated + k
        /\ stats'.incoming = stats.incoming
    BY <2>1, IterationCounts
  <2>3. /\ node'[id] = r.node /\ id \in LocalNodes
        /\ \A n \in (LocalNodes \cup {Source}) \ {id} : node'[n] = node[n]
        /\ Reset(r.node) = Reset(node[id]) /\ r.node \in Nodes
    BY <2>1, IterationTypes DEF Iteration, Answer
  <2>4. r \in OnEvent(id, node[id], e.event)
    BY <2>1 DEF Iteration
  <2> HIDE DEF id, k
  <2>5. g'[id] = g[id] + k /\ \A n \in LocalNodes \ {id} : g'[n] = g[n] /\ f'[n] = f[n]
    BY <2>2, <2>3
  <2>6. All' => All
    BY <1>2, <2>3, SameCountsAll
  <2>7. All => f'[id] = f[id] + 1
    BY <2>2, <2>3
  <2>8. node'[Source] = node[Source]
    BY <1>2, <2>3
  <2>9. ASSUME NEW n \in LocalNodes  PROVE Passed(node'[n])
    <3>1. CASE n # id
      BY <1>1, <2>3, <3>1
    <3>2. CASE n = id /\ node'[id].kind = "enhanced" /\ node'[id].forward_to # Nobody
      <4>1. node[id].kind = "enhanced" /\ node[id].forward_to # Nobody /\ node[id] \in Nodes
        BY <1>2, <2>3, <3>2, SameConfiguration
      <4>2. /\ node[id] \in EnhancedPassThroughNode(Ids)
            /\ r \in EnhancedOnEvent(id, node[id], e.event)
        BY <2>4, <4>1, NodeKinds DEF OnEvent
      <4>3. /\ r.node.received = node[id].received + 1
            /\ \/ r.node.passed = node[id].passed + 1 /\ r.node.filtered = node[id].filtered
               \/ r.node.passed = node[id].passed /\ r.node.filtered = node[id].filtered + 1
        BY <4>1, <4>2, EnhancedNode
      <4>4. /\ node[id].passed \in Nat /\ node[id].filtered \in Nat
            /\ node[id].received = node[id].passed + node[id].filtered
        BY <1>1, <2>3, <4>1, <4>2 DEF EnhancedPassThroughNode
      <4>5. QED
        BY <2>3, <3>2, <4>3, <4>4
    <3>3. QED
      BY <3>1, <3>2
  <2> HIDE DEF f, g, All
  <2>10. SumFunction(g') = SumFunction(g) + k
    BY <1>3, <1>4, <2>2, <2>3, <2>5, SumOverNodes
  <2>11. All => SumFunction(f') = SumFunction(f) + 1
    BY <1>3, <1>4, <2>3, <2>5, <2>7, SumOverNodes
  <2>12. QED
    BY <1>1, <1>5, <2>2, <2>6, <2>8, <2>9, <2>10, <2>11
<1>9. CASE UNCHANGED <<stats, node>>
  BY <1>9 DEF CountersAgree
<1>10. QED
  BY <1>6, <1>7, <1>8, <1>9
     DEF NetNext, StartRun, BeginRun, Return, ReturnFromRun, netVars, vars

\* The statistics of the nodes add up to those of their executor.
THEOREM CountersAddUp == NetSpec => []CountersAgree
<1>1. NetInit => CountersAgree
  <2> SUFFICES ASSUME NetInit  PROVE CountersAgree
    OBVIOUS
  <2> DEFINE f == [n \in LocalNodes |-> Handled(node[n])]
             g == [n \in LocalNodes |-> Answered(node[n])]
  <2>1. NetTypes
    BY NetInitTypes
  <2>2. /\ \A n \in LocalNodes \cup {Source} : node[n] \in Nodes /\ node[n] = Reset(node[n])
        /\ stats = NoStats
    BY <2>1, NetworkAssumption DEF NetTypes, NetInit, Init
  <2>3. \A n \in LocalNodes : f[n] = 0 /\ g[n] = 0
    BY <2>2, ResetKeeps
  <2>4. f \in [LocalNodes -> Nat] /\ g \in [LocalNodes -> Nat]
    BY <2>3
  <2> HIDE DEF f, g
  <2>5. SumFunction(f) = 0 /\ SumFunction(g) = 0
    BY <2>3, <2>4, SumOverReset
  <2>6. node[Source].generated = 0
    <3>1. node[Source].kind = "source" /\ node[Source] = Reset(node[Source])
      BY <2>1, <2>2, TheSource
    <3>2. Reset(node[Source]) = NewSource(node[Source].target)
      BY <3>1 DEF Reset
    <3>3. NewSource(node[Source].target).generated = 0
      BY DEF NewSource
    <3>4. QED
      BY <3>1, <3>2, <3>3
  <2>7. ASSUME NEW n \in LocalNodes, node[n].kind = "enhanced"
        PROVE  node[n].received = node[n].passed + node[n].filtered
    <3>1. node[n] = Reset(node[n])
      BY <2>2
    <3>2. Reset(node[n]) = NewEnhanced(node[n].filter, node[n].transform, node[n].forward_to)
      BY <2>7 DEF Reset
    <3> DEFINE new == NewEnhanced(node[n].filter, node[n].transform, node[n].forward_to)
    <3>3. new.received = 0 /\ new.passed = 0 /\ new.filtered = 0
      BY DEF NewEnhanced
    <3> HIDE DEF new
    <3>4. node[n] = new
      BY <3>1, <3>2 DEF new
    <3>5. QED
      BY <3>3, <3>4
  <2>8. stats.processed = 0 /\ stats.generated = 0 /\ stats.incoming = 0
    BY <2>2 DEF NoStats
  <2>9. QED
    BY <2>5, <2>6, <2>7, <2>8 DEF CountersAgree, f, g
<1>2. QED
  BY <1>1, CountersStep, NetTyped, PTL DEF NetSpec

-------------------------------------------------------------------------------
\* An event, an entry, a sequence of events, a queue as EventExecutor keeps them.
PlainEntry(e) == [event |-> Plain(e.event), seq |-> e.seq]
PlainSeq(s) == [i \in DOMAIN s |-> Plain(s[i])]
PlainQueue(q) == [entries |-> PlainEntries(q.entries), counter |-> q.counter]

\* A part of the queue has as many entries as its image, one for each.
LEMMA PlainCount ==
  ASSUME NEW S, IsFiniteSet(S), \A e, f \in S : e.seq = f.seq => e = f
  PROVE  /\ IsFiniteSet(PlainEntries(S))
         /\ Cardinality(PlainEntries(S)) = Cardinality(S)
         /\ \A e \in S : PlainEntries(S \ {e}) = PlainEntries(S) \ {PlainEntry(e)}
<1> DEFINE f == [e \in S |-> PlainEntry(e)]
           T == PlainEntries(S)
<1>1. \A e \in S : PlainEntry(e).seq = e.seq
  BY DEF PlainEntry
<1>2. \A x : x \in T <=> \E e \in S : x = PlainEntry(e)
  BY DEF PlainEntries, PlainEntry
<1> HIDE DEF T
<1>3. f \in [S -> T] /\ \A e \in S : f[e] = PlainEntry(e)
  BY <1>2
<1> HIDE DEF f
<1>4. f \in Bijection(S, T)
  <2>1. \A a, b \in S : f[a] = f[b] => a = b
    BY <1>1, <1>3
  <2>2. \A x \in T : \E a \in S : f[a] = x
    BY <1>2, <1>3
  <2>3. QED
    BY <1>3, <2>1, <2>2 DEF Bijection, Injection, Surjection, IsInjective
<1>5. ExistsBijection(S, T)
  BY <1>4 DEF ExistsBijection
<1>6. IsFiniteSet(T) /\ Cardinality(T) = Cardinality(S)
  BY <1>5, FS_Bijection
<1>7. ASSUME NEW e \in S  PROVE PlainEntries(S \ {e}) = T \ {PlainEntry(e)}
  <2>1. \A x : x \in PlainEntries(S \ {e}) <=> \E g \in S \ {e} : x = PlainEntry(g)
    BY DEF PlainEntries, PlainEntry
  <2>2. \A g \in S : PlainEntry(g) = PlainEntry(e) => g = e
    BY <1>1
  <2>3. QED
    BY <1>2, <2>1, <2>2
<1>8. QED
  BY <1>6, <1>7 DEF T

\* Events pushed are pushed in the image of the queue.
LEMMA PlainPush ==
  ASSUME NEW q, NEW evs \in Seq(Sent), QueueOK(q, Msg)
  PROVE  /\ PlainQueue(PushAll(q, evs)) = PushAll(PlainQueue(q), PlainSeq(evs))
         /\ Len(PlainSeq(evs)) = Len(evs) /\ (PlainSeq(evs) = <<>> <=> evs = <<>>)
<1>1. /\ PlainSeq(evs) = [i \in 1..Len(evs) |-> Plain(evs[i])]
      /\ Len(PlainSeq(evs)) = Len(evs)
      /\ PlainSeq(evs) = <<>> <=> evs = <<>>
  BY DEF PlainSeq
<1> DEFINE new == {Entry(evs[i], q.counter + i - 1) : i \in 1..Len(evs)}
           pnew == {Entry(PlainSeq(evs)[i], q.counter + i - 1) : i \in 1..Len(evs)}
<1>2. PlainEntries(new) = pnew
  <2>1. \A i \in 1..Len(evs) : PlainEntry(Entry(evs[i], q.counter + i - 1))
                                 = Entry(PlainSeq(evs)[i], q.counter + i - 1)
    BY <1>1 DEF PlainEntry, Entry
  <2>2. \A x : x \in PlainEntries(new) <=> \E g \in new : x = PlainEntry(g)
    BY DEF PlainEntries, PlainEntry
  <2>3. \A x : x \in PlainEntries(new) <=>
          \E i \in 1..Len(evs) : x = PlainEntry(Entry(evs[i], q.counter + i - 1))
    BY <2>2
  <2>4. QED
    BY <2>1, <2>3
<1>3. PushAll(q, evs) = [entries |-> q.entries \cup new, counter |-> q.counter + Len(evs)]
  BY DEF PushAll
<1>4. PushAll(PlainQueue(q), PlainSeq(evs))
        = [entries |-> PlainEntries(q.entries) \cup pnew, counter |-> q.counter + Len(evs)]
  BY <1>1 DEF PushAll, PlainQueue
<1> HIDE DEF new, pnew
<1>5. PlainEntries(q.entries \cup new) = PlainEntries(q.entries) \cup PlainEntries(new)
  BY DEF PlainEntries
<1>6. PlainQueue(PushAll(q, evs))
        = [entries |-> PlainEntries(q.entries \cup new), counter |-> q.counter + Len(evs)]
  BY <1>3 DEF PlainQueue
<1>7. QED
  BY <1>1, <1>2, <1>4, <1>5, <1>6

\* The first entry's image is first in the image, which is left without it.
LEMMA PlainFirst ==
  ASSUME NEW q, QueueOK(q, Msg), NEW e, IsFirst(e, q)
  PROVE  /\ IsFirst(PlainEntry(e), PlainQueue(q))
         /\ PlainQueue(Without(q, {e})) = Without(PlainQueue(q), {PlainEntry(e)})
         /\ PlainEntry(e) \in PlainEntries(q.entries)
<1> DEFINE S == q.entries
<1>1. IsFiniteSet(S) /\ \A a, b \in S : a.seq = b.seq => a = b
  BY DEF QueueOK
<1>2. e \in S /\ \A f \in S \ {e} : Earlier(e, f)
  BY DEF IsFirst
<1>3. PlainEntries(S \ {e}) = PlainEntries(S) \ {PlainEntry(e)}
  BY <1>1, <1>2, PlainCount
<1>4. \A f, g : Earlier(f, g) => Earlier(PlainEntry(f), PlainEntry(g))
  BY DEF Earlier, PlainEntry, Plain
<1>5. \A x \in PlainEntries(S \ {e}) : \E f \in S \ {e} : x = PlainEntry(f)
  BY DEF PlainEntries, PlainEntry
<1>6. PlainEntry(e) \in PlainEntries(S)
  BY <1>2 DEF PlainEntries, PlainEntry
<1> HIDE DEF S
<1>7. PlainQueue(q).entries = PlainEntries(S) /\ PlainQueue(q).counter = q.counter
  BY DEF PlainQueue, S
<1>8. IsFirst(PlainEntry(e), PlainQueue(q))
  <2>1. \A x \in PlainEntries(S) \ {PlainEntry(e)} : Earlier(PlainEntry(e), x)
    BY <1>2, <1>3, <1>4, <1>5
  <2>2. QED
    BY <1>6, <1>7, <2>1 DEF IsFirst
<1>9. PlainQueue(Without(q, {e})) = [entries |-> PlainEntries(S \ {e}), counter |-> q.counter]
  BY DEF PlainQueue, Without, S
<1>10. QED
  BY <1>3, <1>6, <1>7, <1>8, <1>9 DEF Without, S

\* The peak counts the same.
LEMMA PlainPeak ==
  ASSUME NEW q, QueueOK(q, Msg), NEW evs \in Seq(Msg)
  PROVE  PeakAfter(PlainQueue(q), PlainSeq(evs)) = PeakAfter(q, evs)
<1>1. evs \in Seq(Sent)
  <2>1. Msg \subseteq Sent
    BY DEF Msg, Sent, Ids
  <2>2. QED
    BY <2>1
<1>2. PlainQueue(PushAll(q, evs)) = PushAll(PlainQueue(q), PlainSeq(evs))
  BY <1>1, PlainPush
<1>3. QueueOK(PushAll(q, evs), Msg)
  BY PushAllOK
<1> DEFINE r == PushAll(q, evs)
           p == PushAll(PlainQueue(q), PlainSeq(evs))
<1> HIDE DEF r, p
<1>4. Cardinality(PlainEntries(r.entries)) = Cardinality(r.entries)
  <2>1. IsFiniteSet(r.entries) /\ \A e, f \in r.entries : e.seq = f.seq => e = f
    BY <1>3 DEF QueueOK, r
  <2>2. QED
    BY <2>1, PlainCount
<1>5. p.entries = PlainEntries(r.entries)
  BY <1>2 DEF r, p, PlainQueue
<1>6. PlainSeq(evs) = <<>> <=> evs = <<>>
  BY <1>1, PlainPush
<1>7. QED
  BY <1>4, <1>5, <1>6 DEF PeakAfter, r, p

\* What is collected, in the image.
LEMMA PlainJoin ==
  ASSUME NEW a \in Seq(Sent), NEW b \in Seq(Sent)
  PROVE  PlainSeq(a \o b) = PlainSeq(a) \o PlainSeq(b)
<1> DEFINE T == [time : Nat, dst : Ids]
           c == a \o b
           x == PlainSeq(a)
           y == PlainSeq(b)
           z == PlainSeq(c)
<1>1. c \in Seq(Sent) /\ Len(c) = Len(a) + Len(b)
  OBVIOUS
<1>2. \A i \in 1..Len(c) : c[i] = IF i <= Len(a) THEN a[i] ELSE b[i - Len(a)]
  OBVIOUS
<1>3. \A s \in Seq(Sent) : /\ PlainSeq(s) \in Seq(T) /\ Len(PlainSeq(s)) = Len(s)
                           /\ \A i \in 1..Len(s) : PlainSeq(s)[i] = Plain(s[i])
  <2>1. \A ev \in Sent : Plain(ev) \in T
    BY DEF Sent, Plain
  <2> HIDE DEF T
  <2>2. QED
    BY <2>1 DEF PlainSeq
<1> HIDE DEF T, c
<1>4. /\ x \in Seq(T) /\ y \in Seq(T) /\ z \in Seq(T)
      /\ Len(x) = Len(a) /\ Len(y) = Len(b) /\ Len(z) = Len(a) + Len(b)
      /\ \A i \in 1..Len(a) : x[i] = Plain(a[i])
      /\ \A i \in 1..Len(b) : y[i] = Plain(b[i])
      /\ \A i \in 1..Len(c) : z[i] = Plain(c[i])
  BY <1>1, <1>3
<1> HIDE DEF x, y, z
<1>5. Len(a) \in Nat /\ Len(b) \in Nat
  OBVIOUS
<1>6. \A i \in 1..(Len(a) + Len(b)) : z[i] = IF i <= Len(a) THEN x[i] ELSE y[i - Len(a)]
  <2> TAKE i \in 1..(Len(a) + Len(b))
  <2>1. CASE i <= Len(a)
    <3>1. c[i] = a[i] /\ i \in 1..Len(a)
      BY <1>1, <1>2, <2>1
    <3>2. QED
      BY <1>1, <1>4, <2>1, <3>1
  <2>2. CASE ~(i <= Len(a))
    <3>1. c[i] = b[i - Len(a)] /\ i - Len(a) \in 1..Len(b)
      BY <1>1, <1>2, <1>5, <2>2
    <3>2. QED
      BY <1>1, <1>4, <2>2, <3>1
  <2>3. QED
    BY <2>1, <2>2
<1>7. z = x \o y
  <2>1. /\ x = [i \in 1..Len(a) |-> x[i]] /\ y = [i \in 1..Len(b) |-> y[i]]
        /\ z = [i \in 1..(Len(a) + Len(b)) |-> z[i]]
    BY <1>4
  <2>2. x \o y = [i \in 1..(Len(a) + Len(b)) |-> IF i <= Len(a) THEN x[i] ELSE y[i - Len(a)]]
    BY <1>5, <2>1, JoinOfTwo
  <2>3. QED
    BY <1>6, <2>1, <2>2
<1>8. QED
  BY <1>7 DEF x, y, z, c

\* Short sequences are among those the model's executor enumerates.
LEMMA InEventSeqs ==
  ASSUME NEW S, NEW n \in Nat, NEW s \in Seq(S), Len(s) <= n
  PROVE  s \in EventSeqs(S, n)
<1>1. s \in [1..Len(s) -> S] /\ Len(s) \in 0..n
  OBVIOUS
<1>2. QED
  BY <1>1 DEF EventSeqs

\* The operators of the executor that is implemented are those of this module.
LEMMA SameOperators ==
  /\ \A q, evs : Executor!PushAll(q, evs) = PushAll(q, evs)
  /\ \A q, s : Executor!Without(q, s) = Without(q, s)
  /\ \A e, q : Executor!IsFirst(e, q) = IsFirst(e, q)
  /\ \A q, t : Executor!DueBy(q, t) = DueBy(q, t)
  /\ \A q, evs : Executor!PeakAfter(q, evs) = PeakAfter(q, evs)
  /\ \A a, b : Executor!Larger(a, b) = Larger(a, b)
  /\ \A S, n : Executor!EventSeqs(S, n) = EventSeqs(S, n)
  /\ Executor!EmptyQueue = EmptyQueue /\ Executor!NoStats = NoStats /\ Executor!NoRun = NoRun
<1>1. \A a, b : Executor!Earlier(a, b) = Earlier(a, b)
  BY DEF Executor!Earlier, Earlier
<1>2. \A q, evs : Executor!PushAll(q, evs) = PushAll(q, evs)
  BY DEF Executor!PushAll, PushAll, Executor!Entry, Entry
<1>3. \A a, b : Executor!Larger(a, b) = Larger(a, b)
  BY DEF Executor!Larger, Larger
<1>4. \A q, s : Executor!Without(q, s) = Without(q, s)
  BY DEF Executor!Without, Without
<1>5. \A e, q : Executor!IsFirst(e, q) = IsFirst(e, q)
  BY <1>1 DEF Executor!IsFirst, IsFirst
<1>6. \A q, t : Executor!DueBy(q, t) = DueBy(q, t)
  BY DEF Executor!DueBy, DueBy
<1>7. ASSUME NEW q, NEW evs  PROVE Executor!PeakAfter(q, evs) = PeakAfter(q, evs)
  <2>1. Executor!PeakAfter(q, evs) = IF evs = <<>> THEN stats.peak
          ELSE Executor!Larger(stats.peak, Executor!Cardinality(Executor!PushAll(q, evs).entries))
    BY DEF Executor!PeakAfter
  <2>2. Executor!PushAll(q, evs) = PushAll(q, evs)
    BY <1>2
  <2>3. \A S : Executor!Cardinality(S) = Cardinality(S)
    BY DEF Executor!Cardinality, Cardinality
  <2>4. QED
    BY <1>3, <2>1, <2>2, <2>3 DEF PeakAfter
<1>8. \A S, n : Executor!EventSeqs(S, n) = EventSeqs(S, n)
  BY DEF Executor!EventSeqs, EventSeqs
<1>9. Executor!EmptyQueue = EmptyQueue /\ Executor!NoStats = NoStats /\ Executor!NoRun = NoRun
  BY DEF Executor!EmptyQueue, EmptyQueue, Executor!NoStats, NoStats, Executor!NoRun, NoRun
<1>10. QED
  BY <1>2, <1>3, <1>4, <1>5, <1>6, <1>7, <1>8, <1>9

\* The state of the executor that is implemented, and its mapped variables.
plainQueue == PlainQueue(queue)
plainOutgoing == PlainSeq(all_outgoing)
plainRun == [run EXCEPT !.last = PlainEntries(@)]

\* The executor's vars, mapped, are the images named here.
LEMMA MappedVars ==
  Executor!vars = <<current_time, plainQueue, stats, phase, target, plainOutgoing, scheduled, plainRun>>
  BY DEF Executor!vars, plainQueue, plainOutgoing, plainRun, PlainQueue, PlainSeq

\* A run's history, field by field.
LEMMA PlainRunFields ==
  ASSUME NEW r \in [start : Nat, last : SUBSET EntrySet(Msg), served : Nat, late : BOOLEAN]
  PROVE  [r EXCEPT !.last = PlainEntries(@)]
           = [start |-> r.start, last |-> PlainEntries(r.last), served |-> r.served, late |-> r.late]
<1> DEFINE S == SUBSET EntrySet(Msg)
           P == PlainEntries(r.last)
<1> HIDE DEF S, P
<1>1. r \in [start : Nat, last : S, served : Nat, late : BOOLEAN]
  BY DEF S
<1>2. [r EXCEPT !.last = P] = [start |-> r.start, last |-> P, served |-> r.served, late |-> r.late]
  BY <1>1
<1>3. QED
  BY <1>2 DEF P

\* The initial states map to initial states.
LEMMA InitMaps == NetInit => Executor!Init
<1> SUFFICES ASSUME NetInit  PROVE Executor!Init
  OBVIOUS
<1>1. PlainEntries({}) = {}
  BY DEF PlainEntries
<1>2. PlainQueue(EmptyQueue) = EmptyQueue
  BY <1>1 DEF PlainQueue, EmptyQueue
<1>3. PlainSeq(<<>>) = <<>>
  BY DEF PlainSeq
<1>4. [NoRun EXCEPT !.last = PlainEntries(@)] = NoRun
  BY <1>1 DEF NoRun
<1>5. /\ plainQueue = EmptyQueue /\ plainOutgoing = <<>> /\ plainRun = NoRun
      /\ current_time = 0 /\ stats = NoStats /\ phase = "idle" /\ target = 0 /\ scheduled = 0
  BY <1>2, <1>3, <1>4 DEF NetInit, Init, plainQueue, plainOutgoing, plainRun
<1>6. QED
  BY <1>5, SameOperators
     DEF Executor!Init, plainQueue, plainOutgoing, plainRun, PlainQueue, PlainSeq

\* init of the nodes is the executor's init.
LEMMA InitNetworkMaps == InitNetwork => Executor!InitExecutor
<1> SUFFICES ASSUME InitNetwork  PROVE Executor!InitExecutor
  OBVIOUS
<1>1. PlainEntries({}) = {}
  BY DEF PlainEntries
<1>2. PlainQueue(EmptyQueue) = EmptyQueue
  BY <1>1 DEF PlainQueue, EmptyQueue
<1>3. PlainSeq(<<>>) = <<>>
  BY DEF PlainSeq
<1>4. [NoRun EXCEPT !.last = PlainEntries(@)] = NoRun
  BY <1>1 DEF NoRun
<1>5. /\ plainQueue' = EmptyQueue /\ plainOutgoing' = <<>> /\ plainRun' = NoRun
      /\ current_time' = 0 /\ stats' = NoStats /\ phase = "idle" /\ phase' = phase
      /\ target' = 0 /\ scheduled' = 0
  BY <1>2, <1>3, <1>4 DEF InitNetwork, InitExecutor, plainQueue, plainOutgoing, plainRun
<1>6. QED
  BY <1>5, SameOperators
     DEF Executor!InitExecutor, plainQueue, plainOutgoing, plainRun, PlainQueue, PlainSeq

\* A tick of the source hands the executor one event of another subgraph.
LEMMA SourceTickMaps ==
  ASSUME NetTypes, NEW t \in 0..MaxTime, NEW matches \in Contents, SourceTick(t, matches)
  PROVE  \E evs \in Executor!EventSeqs(Executor!InputEvent, MaxScheduled) :
           Executor!HandleIncoming(evs)
<1> DEFINE made == SourceOnTick(Source, node[Source], t, matches)
<1>1. t \in Nat /\ matches \in BOOLEAN
  <2>1. Contents = BOOLEAN \/ Contents = {FALSE}
    BY DEF Contents
  <2>2. matches \in BOOLEAN
    BY <2>1
  <2>3. QED
    BY <2>2, ExecutorAssumption
<1>2. PICK m \in Msg : made.out = <<m>> /\ m.time = t
  BY <1>1, SourceSends
<1>3. HandleIncoming(<<m>>)
  BY <1>2 DEF SourceTick
<1> HIDE DEF made
<1>4. Plain(m) \in Executor!InputEvent
  BY <1>2 DEF Executor!InputEvent, Executor!Destinations, Plain, Msg
<1>5. PlainSeq(<<m>>) = <<Plain(m)>>
  BY DEF PlainSeq
<1>6. /\ phase = "idle" /\ scheduled + stats.incoming + Len(<<m>>) <= MaxScheduled
      /\ queue' = PushAll(queue, <<m>>)
      /\ Count(0, 0, Len(<<m>>), 0, PeakAfter(queue, <<m>>))
      /\ UNCHANGED <<current_time, phase, target, all_outgoing, scheduled, run>>
  BY <1>3 DEF HandleIncoming
<1>7. Len(<<m>>) = 1 /\ Len(<<Plain(m)>>) = 1
  OBVIOUS
<1>8. <<Plain(m)>> \in Executor!EventSeqs(Executor!InputEvent, MaxScheduled)
  <2>1. scheduled \in Nat /\ stats.incoming \in Nat /\ MaxScheduled \in Nat
    BY ExecutorAssumption DEF NetTypes, StatsType
  <2>2. 1 <= MaxScheduled
    BY <1>6, <1>7, <2>1
  <2>3. <<Plain(m)>> \in Seq(Executor!InputEvent)
    BY <1>4
  <2>4. <<Plain(m)>> \in EventSeqs(Executor!InputEvent, MaxScheduled)
    BY <1>7, <2>1, <2>2, <2>3, InEventSeqs
  <2>5. QED
    BY <2>4, SameOperators
<1>9. <<m>> \in Seq(Msg) /\ <<m>> \in Seq(Sent) /\ QueueOK(queue, Msg)
  BY DEF NetTypes, Msg, Sent, Ids
<1>10. plainQueue' = PushAll(plainQueue, <<Plain(m)>>)
  BY <1>5, <1>6, <1>9, PlainPush DEF plainQueue
<1>11. PeakAfter(plainQueue, <<Plain(m)>>) = PeakAfter(queue, <<m>>)
  BY <1>5, <1>9, PlainPeak DEF plainQueue
<1>12. UNCHANGED <<plainOutgoing, plainRun>>
  BY <1>6 DEF plainOutgoing, plainRun
<1>13. Executor!Count(0, 0, Len(<<Plain(m)>>), 0, Executor!PeakAfter(plainQueue, <<Plain(m)>>))
  BY <1>6, <1>7, <1>11, SameOperators DEF Executor!Count, Count
<1>14. Executor!HandleIncoming(<<Plain(m)>>)
  BY <1>6, <1>7, <1>10, <1>12, <1>13, SameOperators
     DEF Executor!HandleIncoming, plainQueue, plainOutgoing, plainRun, PlainQueue, PlainSeq
<1>15. QED
  BY <1>8, <1>14

\* A run starts as the executor's does, with the same snapshot.
LEMMA StartRunMaps ==
  ASSUME NetTypes, NEW t \in 0..MaxTime, StartRun(t)
  PROVE  Executor!BeginRun(t)
<1>1. /\ phase = "idle" /\ phase' = "running" /\ target' = t /\ all_outgoing' = <<>>
      /\ run' = [start |-> current_time, last |-> {}, served |-> queue.counter,
                 late |-> \E e \in queue.entries : e.event.time < current_time]
      /\ UNCHANGED <<current_time, queue, stats, scheduled>>
  BY DEF StartRun, BeginRun
<1>2. PlainEntries({}) = {} /\ PlainSeq(<<>>) = <<>>
  BY DEF PlainEntries, PlainSeq
<1>3. (\E e \in plainQueue.entries : e.event.time < current_time)
        = (\E e \in queue.entries : e.event.time < current_time)
  <2>1. \A x : x \in plainQueue.entries <=> \E e \in queue.entries : x = PlainEntry(e)
    BY DEF plainQueue, PlainQueue, PlainEntries, PlainEntry
  <2>2. \A e : PlainEntry(e).event.time = e.event.time
    BY DEF PlainEntry, Plain
  <2>3. QED
    BY <2>1, <2>2
<1>4. plainRun' = [start |-> current_time, last |-> {}, served |-> plainQueue.counter,
                   late |-> \E e \in plainQueue.entries : e.event.time < current_time]
  <2> DEFINE past == \E e \in queue.entries : e.event.time < current_time
  <2>1. run' = [start |-> current_time, last |-> {}, served |-> queue.counter, late |-> past]
    BY <1>1
  <2>2. plainQueue.counter = queue.counter
    BY DEF plainQueue, PlainQueue
  <2> HIDE DEF past
  <2>3. plainRun' = [start |-> current_time, last |-> {}, served |-> queue.counter, late |-> past]
    <3>1. plainRun' = [run' EXCEPT !.last = PlainEntries(run'.last)]
      BY DEF plainRun
    <3>2. PlainEntries(run'.last) = {}
      BY <1>2, <2>1
    <3>3. plainRun' = [run' EXCEPT !.last = {}]
      BY <3>1, <3>2
    <3>4. QED
      BY <2>1, <3>3
  <2>4. QED
    BY <1>3, <2>2, <2>3 DEF past
<1>5. plainOutgoing' = <<>> /\ UNCHANGED plainQueue
  BY <1>1, <1>2 DEF plainOutgoing, plainQueue
<1>6. QED
  BY <1>1, <1>4, <1>5
     DEF Executor!BeginRun, plainQueue, plainOutgoing, plainRun, PlainQueue, PlainSeq

\* A run returns when the executor's does.
LEMMA ReturnMaps ==
  ASSUME NetTypes, Return
  PROVE  Executor!ReturnFromRun
<1>1. /\ phase = "running" /\ DueBy(queue, target) = {}
      /\ current_time' = Larger(target, current_time) /\ phase' = "idle"
      /\ run' = [run EXCEPT !.served = queue.counter]
      /\ UNCHANGED <<queue, stats, target, all_outgoing, scheduled>>
  BY DEF Return, ReturnFromRun
<1>2. DueBy(plainQueue, target) = {}
  <2>1. \A x \in plainQueue.entries : \E e \in queue.entries : x = PlainEntry(e)
    BY DEF plainQueue, PlainQueue, PlainEntries, PlainEntry
  <2>2. \A e : PlainEntry(e).event.time = e.event.time
    BY DEF PlainEntry, Plain
  <2>3. \A e \in queue.entries : ~(e.event.time <= target)
    BY <1>1 DEF DueBy
  <2>4. QED
    BY <2>1, <2>2, <2>3 DEF DueBy
<1>3. plainRun' = [plainRun EXCEPT !.served = plainQueue.counter]
  <2>1. run \in [start : Nat, last : SUBSET EntrySet(Msg), served : Nat, late : BOOLEAN]
    BY DEF NetTypes
  <2>2. plainRun = [start |-> run.start, last |-> PlainEntries(run.last),
                    served |-> run.served, late |-> run.late]
    BY <2>1, PlainRunFields DEF plainRun
  <2>3. /\ run' \in [start : Nat, last : SUBSET EntrySet(Msg), served : Nat, late : BOOLEAN]
        /\ run'.start = run.start /\ run'.last = run.last /\ run'.late = run.late
        /\ run'.served = queue.counter
    <3>1. queue.counter \in Nat
      BY DEF NetTypes, QueueOK
    <3>2. QED
      BY <1>1, <2>1, <3>1
  <2>4. plainRun' = [start |-> run.start, last |-> PlainEntries(run.last),
                     served |-> queue.counter, late |-> run.late]
    BY <2>3, PlainRunFields DEF plainRun
  <2>5. plainQueue.counter = queue.counter
    BY DEF plainQueue, PlainQueue
  <2>6. QED
    BY <2>2, <2>4, <2>5
<1>4. UNCHANGED <<plainQueue, plainOutgoing>>
  BY <1>1 DEF plainQueue, plainOutgoing
<1>5. QED
  BY <1>1, <1>2, <1>3, <1>4, SameOperators
     DEF Executor!ReturnFromRun, plainQueue, plainOutgoing, plainRun, PlainQueue, PlainSeq

\* What a node returns is among what the executor's nodes may return.
LEMMA AnswerMaps ==
  ASSUME NetTypes, NetTypes', stats'.generated <= MaxGenerated,
         NEW e, NEW r, NEW locals, NEW outgoing, Iteration(e, r, locals, outgoing)
  PROVE  LET stamped(D) == [time : {e.event.time + d : d \in Delays}, dst : D]
         IN  /\ PlainSeq(locals) \in EventSeqs(stamped(LocalNodes), MaxFanout)
             /\ PlainSeq(outgoing) \in EventSeqs(stamped(RemoteNodes \cup {Custom}), MaxFanout)
             /\ Executor!Respond(PlainEntry(e).event, PlainSeq(locals), PlainSeq(outgoing))
<1> DEFINE T == {e.event.time + d : d \in Delays}
           L == [time : T, dst : LocalNodes]
           R == [time : T, dst : RemoteNodes \cup {Custom}]
           l == PlainSeq(locals)
           o == PlainSeq(outgoing)
<1>1. /\ Answer(e.event.dst, node[e.event.dst], e.event, r) /\ Split(r.out, locals, outgoing)
      /\ e.event.dst \in LocalNodes
  BY DEF Iteration
<1>2. PlainSeq(<<>>) = <<>> /\ \A m : PlainSeq(<<m>>) = <<Plain(m)>>
  BY DEF PlainSeq
<1>3. ASSUME NEW m, r.out = <<m>>  PROVE m.time \in T
  <2>1. \/ r.out = <<>>
        \/ \E d \in Delays, to \in Ids, data \in Data(Ids) :
             r.out = <<Message(e.event.time + d, e.event.dst, to, data)>>
    BY <1>1, Zenon DEF Answer
  <2>2. r.out # <<>>
    BY <1>3
  <2>3. PICK d \in Delays, to \in Ids, data \in Data(Ids) :
          r.out = <<Message(e.event.time + d, e.event.dst, to, data)>>
    BY <2>1, <2>2
  <2>4. m = Message(e.event.time + d, e.event.dst, to, data)
    BY <1>3, <2>3
  <2>5. QED
    BY <2>4 DEF Message
<1> HIDE DEF T
<1>4. l \in Seq(L) /\ o \in Seq(R) /\ Len(l) + Len(o) <= 1
  <2>1. CASE locals = <<>> /\ outgoing = <<>>
    <3>1. l = <<>> /\ o = <<>>
      BY <1>2, <2>1
    <3> HIDE DEF L, R, l, o
    <3>2. QED
      BY <3>1
  <2>2. ASSUME NEW m \in Sent, r.out = <<m>>, m.dst \in LocalNodes, locals = <<m>>, outgoing = <<>>
        PROVE  l \in Seq(L) /\ o \in Seq(R) /\ Len(l) + Len(o) <= 1
    <3>1. Plain(m) \in L
      BY <1>3, <2>2 DEF Plain
    <3>2. l = <<Plain(m)>> /\ o = <<>>
      BY <1>2, <2>2
    <3> HIDE DEF L, R, l, o
    <3>3. QED
      BY <3>1, <3>2
  <2>3. ASSUME NEW m \in Sent, r.out = <<m>>, m.dst \notin LocalNodes, locals = <<>>, outgoing = <<m>>
        PROVE  l \in Seq(L) /\ o \in Seq(R) /\ Len(l) + Len(o) <= 1
    <3>1. Plain(m) \in R
      BY <1>3, <2>3 DEF Plain, Sent, Ids
    <3>2. o = <<Plain(m)>> /\ l = <<>>
      BY <1>2, <2>3
    <3> HIDE DEF L, R, l, o
    <3>3. QED
      BY <3>1, <3>2
  <2> HIDE DEF l, o, L, R
  <2>4. QED
    BY <1>1, <2>1, <2>2, <2>3, Zenon DEF Split
<1> DEFINE ll == Len(l)
           lo == Len(o)
<1> HIDE DEF l, o, L, R
<1>5. ll \in Nat /\ lo \in Nat /\ ll + lo <= 1 /\ MaxFanout \in Nat /\ MaxFanout >= 1
  BY <1>4, ExecutorAssumption, NetworkAssumption
<1> HIDE DEF ll, lo
<1>6. ll <= MaxFanout /\ lo <= MaxFanout /\ ll + lo <= MaxFanout
  BY <1>5
<1>7. l \in EventSeqs(L, MaxFanout) /\ o \in EventSeqs(R, MaxFanout)
  BY <1>4, <1>5, <1>6, InEventSeqs DEF ll, lo
<1>8. stats.generated + ll + lo <= MaxGenerated
  <2>1. stats'.generated = stats.generated + (Len(locals) + Len(outgoing))
    BY IterationCounts
  <2>2. Len(locals) = ll /\ Len(outgoing) = lo
    <3>1. locals \in Seq(Sent) /\ outgoing \in Seq(Sent)
      <4>1. Msg \subseteq Sent
        BY DEF Msg, Sent, Ids
      <4>2. locals \in Seq(Msg) /\ outgoing \in Seq(Sent)
        BY IterationTypes
      <4>3. QED
        BY <4>1, <4>2
    <3>2. \A s \in Seq(Sent) : Len(PlainSeq(s)) = Len(s)
      BY DEF PlainSeq
    <3>3. QED
      BY <3>1, <3>2 DEF ll, lo, l, o
  <2>3. stats.generated \in Nat
    BY DEF NetTypes, StatsType
  <2>4. QED
    BY <1>5, <2>1, <2>2, <2>3
<1>9. /\ \A i \in DOMAIN l : \E d \in Delays : l[i].time = e.event.time + d
      /\ \A i \in DOMAIN o : \E d \in Delays : o[i].time = e.event.time + d
  <2>1. /\ \A x \in L : \E d \in Delays : x.time = e.event.time + d
        /\ \A x \in R : \E d \in Delays : x.time = e.event.time + d
    BY DEF L, R, T
  <2>2. QED
    BY <1>4, <2>1
<1>10. Executor!Respond(PlainEntry(e).event, l, o)
  <2>1. PlainEntry(e).event.time = e.event.time /\ PlainEntry(e).event.dst = e.event.dst
    BY DEF PlainEntry, Plain
  <2>2. Executor!MayReturn(PlainEntry(e).event, l, o)
    BY <1>6, <1>8, <1>9, <2>1 DEF Executor!MayReturn, ll, lo
  <2>3. QED
    BY <1>1, <2>1, <2>2 DEF Executor!Respond
<1>11. QED
  BY <1>7, <1>10 DEF l, o, L, R, T

\* What a built-in node does with its event is one of the answers the executor is
\* open to, as long as the model's bound on generated events is kept.
LEMMA HandleFirstMaps ==
  ASSUME NetTypes, NetTypes', stats'.generated <= MaxGenerated, HandleFirst
  PROVE  Executor!ProcessSomeEvent
<1>1. PICK e, r, locals, outgoing : Iteration(e, r, locals, outgoing)
  BY HandledStep
<1> DEFINE p == PlainEntry(e)
           l == PlainSeq(locals)
           o == PlainSeq(outgoing)
           rest == Without(queue, {e})
<1>2. HandleEvent(e, locals, outgoing) /\ e \in queue.entries
  BY <1>1 DEF Iteration
<1>3. /\ locals \in Seq(Msg) /\ locals \in Seq(Sent) /\ outgoing \in Seq(Sent)
      /\ QueueOK(rest, Msg) /\ QueueOK(queue, Msg)
      /\ all_outgoing \in Seq(Sent)
      /\ run \in [start : Nat, last : SUBSET EntrySet(Msg), served : Nat, late : BOOLEAN]
      /\ e \in EntrySet(Msg)
  <2>1. Msg \subseteq Sent
    BY DEF Msg, Sent, Ids
  <2>2. locals \in Seq(Msg) /\ outgoing \in Seq(Sent) /\ QueueOK(rest, Msg) /\ e \in EntrySet(Msg)
    BY <1>1, IterationTypes
  <2>3. QED
    BY <2>1, <2>2 DEF NetTypes
<1>4. /\ phase = "running" /\ IsFirst(e, queue) /\ e.event.time <= target
      /\ current_time' = Larger(e.event.time, current_time)
      /\ queue' = PushAll(rest, locals)
      /\ Count(1, Len(locals) + Len(outgoing), 0, Len(outgoing), PeakAfter(rest, locals))
      /\ all_outgoing' = all_outgoing \o outgoing
      /\ run' = [run EXCEPT !.last = {e}]
      /\ UNCHANGED <<phase, target, scheduled>>
  BY <1>2 DEF HandleEvent
<1> HIDE DEF rest
<1>5. /\ IsFirst(p, plainQueue) /\ p \in plainQueue.entries
      /\ PlainQueue(rest) = Without(plainQueue, {p})
  BY <1>3, <1>4, PlainFirst DEF plainQueue, PlainQueue, rest
<1>6. p.event.time = e.event.time
  BY DEF PlainEntry, Plain
<1>7. /\ plainQueue' = PushAll(Without(plainQueue, {p}), l)
      /\ Len(l) = Len(locals) /\ Len(o) = Len(outgoing)
  <2>1. PlainQueue(PushAll(rest, locals)) = PushAll(PlainQueue(rest), l) /\ Len(l) = Len(locals)
    BY <1>3, PlainPush
  <2>2. plainQueue' = PlainQueue(PushAll(rest, locals))
    BY <1>4 DEF plainQueue
  <2>3. Len(o) = Len(outgoing)
    BY <1>3, PlainPush
  <2>4. QED
    BY <1>5, <2>1, <2>2, <2>3
<1>8. PeakAfter(Without(plainQueue, {p}), l) = PeakAfter(rest, locals)
  BY <1>3, <1>5, PlainPeak
<1>9. plainOutgoing' = plainOutgoing \o o
  BY <1>3, <1>4, PlainJoin DEF plainOutgoing
<1>10. plainRun' = [plainRun EXCEPT !.last = {p}]
  <2>1. plainRun = [start |-> run.start, last |-> PlainEntries(run.last),
                    served |-> run.served, late |-> run.late]
    BY <1>3, PlainRunFields DEF plainRun
  <2>2. /\ run' \in [start : Nat, last : SUBSET EntrySet(Msg), served : Nat, late : BOOLEAN]
        /\ run'.start = run.start /\ run'.last = {e} /\ run'.late = run.late
        /\ run'.served = run.served
    BY <1>3, <1>4
  <2>3. plainRun' = [start |-> run.start, last |-> PlainEntries({e}),
                     served |-> run.served, late |-> run.late]
    BY <2>2, PlainRunFields DEF plainRun
  <2>4. PlainEntries({e}) = {p}
    BY DEF PlainEntries, PlainEntry
  <2> HIDE DEF p
  <2>5. QED
    BY <2>1, <2>3, <2>4
<1>11. /\ l \in EventSeqs([time : {p.event.time + d : d \in Delays}, dst : LocalNodes], MaxFanout)
       /\ o \in EventSeqs([time : {p.event.time + d : d \in Delays},
                           dst : RemoteNodes \cup {Custom}], MaxFanout)
       /\ Executor!Respond(p.event, l, o)
  <2>1. {p.event.time + d : d \in Delays} = {e.event.time + d : d \in Delays}
    BY <1>6
  <2>2. /\ l \in EventSeqs([time : {e.event.time + d : d \in Delays}, dst : LocalNodes], MaxFanout)
        /\ o \in EventSeqs([time : {e.event.time + d : d \in Delays},
                            dst : RemoteNodes \cup {Custom}], MaxFanout)
        /\ Executor!Respond(p.event, l, o)
    BY <1>1, AnswerMaps, Zenon
  <2> HIDE DEF p, l, o
  <2>3. QED
    BY <2>1, <2>2
<1> HIDE DEF p, l, o
<1>12. Executor!Count(1, Len(l) + Len(o), 0, Len(o),
                      Executor!PeakAfter(Executor!Without(plainQueue, {p}), l))
  BY <1>4, <1>7, <1>8, SameOperators DEF Executor!Count, Count
<1>13. Executor!HandleEvent(p, l, o)
  BY <1>4, <1>5, <1>6, <1>7, <1>9, <1>10, <1>12, SameOperators
     DEF Executor!HandleEvent, plainQueue, plainOutgoing, plainRun, PlainQueue, PlainSeq
<1>14. Executor!ProcessEvent(p, l, o)
  BY <1>11, <1>13 DEF Executor!ProcessEvent
<1>15. /\ l \in Executor!EventSeqs([time : {p.event.time + d : d \in Delays}, dst : LocalNodes], MaxFanout)
       /\ o \in Executor!EventSeqs([time : {p.event.time + d : d \in Delays},
                                    dst : RemoteNodes \cup {Custom}], MaxFanout)
  BY <1>11, SameOperators
<1>16. p \in PlainEntries(queue.entries)
  BY <1>5 DEF plainQueue, PlainQueue
<1>17. QED
  BY <1>14, <1>15, <1>16 DEF Executor!ProcessSomeEvent

\* A network of the nodes of src/nodes is an executor as EventExecutor describes
\* it, with its nodes' answers left open: all that holds there holds here.  The
\* model's bound on what nodes generate is the only thing left to ask for, since
\* the nodes of a loop that takes no time have none.
THEOREM NetworksAreExecutors ==
  NetSpec /\ [](stats.generated <= MaxGenerated) => ImplementsExecutor
<1> DEFINE Bounded == stats.generated <= MaxGenerated
<1>1. NetTypes /\ NetTypes' /\ Bounded' /\ [NetNext]_netVars => [Executor!Next]_(Executor!vars)
  <2> SUFFICES ASSUME NetTypes, NetTypes', Bounded', [NetNext]_netVars
               PROVE  [Executor!Next]_(Executor!vars)
    OBVIOUS
  <2>1. CASE InitNetwork
    BY <2>1, InitNetworkMaps DEF Executor!Next
  <2>2. ASSUME NEW t \in 0..MaxTime, NEW matches \in Contents, SourceTick(t, matches)
        PROVE  Executor!Next
    BY <2>2, SourceTickMaps DEF Executor!Next
  <2>3. ASSUME NEW t \in 0..MaxTime, StartRun(t)  PROVE Executor!Next
    BY <2>3, StartRunMaps DEF Executor!Next
  <2>4. CASE HandleFirst
    BY <2>4, HandleFirstMaps DEF Executor!Next
  <2>5. CASE Return
    BY <2>5, ReturnMaps DEF Executor!Next
  <2>6. CASE UNCHANGED netVars
    BY <2>6 DEF netVars, vars, Executor!vars
  <2>7. QED
    BY <2>1, <2>2, <2>3, <2>4, <2>5, <2>6 DEF NetNext
<1> HIDE DEF Bounded
<1>2. NetSpec /\ []Bounded => Executor!Spec
  BY <1>1, InitMaps, NetTyped, PTL DEF NetSpec, Executor!Spec
<1>3. QED
  BY <1>2 DEF Bounded, ImplementsExecutor

-------------------------------------------------------------------------------
\* No step changes what network it is: kinds, targets and settings stay.
LEMMA ConfigurationStays ==
  ASSUME NetTypes, NetTypes', [NetNext]_netVars
  PROVE  \A n \in LocalNodes \cup {Source} :
           /\ node[n] \in Nodes /\ node'[n] \in Nodes
           /\ Reset(node'[n]) = Reset(node[n])
<1> SUFFICES ASSUME NEW n \in LocalNodes \cup {Source}
             PROVE  Reset(node'[n]) = Reset(node[n])
  BY DEF NetTypes
<1>1. node \in [LocalNodes \cup {Source} -> Nodes] /\ node[n] \in Nodes
  BY DEF NetTypes
<1>2. CASE InitNetwork
  <2>1. node'[n] = Reset(node[n])
    BY <1>1, <1>2 DEF InitNetwork
  <2>2. QED
    BY <1>1, <2>1, ResetKeeps
<1>3. ASSUME NEW t \in 0..MaxTime, NEW matches \in Contents, SourceTick(t, matches)
      PROVE  Reset(node'[n]) = Reset(node[n])
  <2> DEFINE made == SourceOnTick(Source, node[Source], t, matches)
  <2>1. t \in Nat /\ matches \in BOOLEAN
    <3>1. Contents = BOOLEAN \/ Contents = {FALSE}
      BY DEF Contents
    <3>2. matches \in BOOLEAN
      BY <3>1
    <3>3. QED
      BY <3>2, ExecutorAssumption
  <2>2. Reset(made.node) = Reset(node[Source])
    BY <2>1, SourceSends
  <2>3. node' = [node EXCEPT ![Source] = made.node]
    BY <1>3 DEF SourceTick
  <2> HIDE DEF made
  <2>4. QED
    BY <1>1, <2>2, <2>3
<1>4. CASE HandleFirst
  <2>1. PICK e, r, locals, outgoing : Iteration(e, r, locals, outgoing)
    BY <1>4, HandledStep
  <2>2. /\ node'[e.event.dst] = r.node
        /\ \A m \in (LocalNodes \cup {Source}) \ {e.event.dst} : node'[m] = node[m]
    BY <2>1, IterationTypes
  <2>3. Reset(r.node) = Reset(node[e.event.dst])
    BY <2>1 DEF Iteration, Answer
  <2>4. QED
    BY <2>2, <2>3
<1>5. CASE UNCHANGED node
  BY <1>5
<1>6. QED
  BY <1>2, <1>3, <1>4, <1>5 DEF NetNext, StartRun, Return, netVars

\* What the forwarding nodes do with an event: x is how long it takes them.
Forwarded(n, id, ev, r, x, data) ==
  /\ n.forward_to # Nobody /\ x \in Nat /\ data \in Data(Ids)
  /\ r.out = <<Message(ev.time + x, id, n.forward_to, data)>>
  /\ n.kind \in {"simple", "passthrough", "enhanced"} => x = 0
  /\ n.kind = "delay" => x = n.delay
  /\ n.kind = "probabilistic" => /\ x \in Support(n.distribution)
                                 /\ r.node.total_delay = n.total_delay + x
                                 /\ r.node.min_delay = OptMin(n.min_delay, x)
                                 /\ r.node.max_delay = OptMax(n.max_delay, x)
  /\ data.item = ev.data.item /\ data.sent = ev.data.sent
  /\ n.kind # "enhanced" => data = ev.data
  /\ n.kind = "enhanced" => data = Transformed(id, n, ev.data)

Dropped(n, r) ==
  /\ r.out = <<>>
  /\ n.kind # "enhanced" => n.forward_to = Nobody
  /\ n.kind = "probabilistic" => /\ r.node.total_delay = n.total_delay
                                 /\ r.node.min_delay = n.min_delay
                                 /\ r.node.max_delay = n.max_delay

\* A probabilistic node forwards after a drawn delay, which it adds to its
\* statistics, or has no target.
LEMMA ProbabilisticForwards ==
  ASSUME NEW n \in ProbabilisticDelayNode(Ids, Delays), NEW id \in Ids, NEW ev \in Msg,
         NEW r \in ProbabilisticOnEvent(id, n, ev)
  PROVE  Dropped(n, r) \/ \E x, data : Forwarded(n, id, ev, r, x, data)
<1> DEFINE seen == [n EXCEPT !.processed = @ + 1]
<1>1. /\ n.kind = "probabilistic" /\ n.distribution \in Distribution(Delays)
      /\ ev.data \in Data(Ids)
  BY DEF ProbabilisticDelayNode, Msg
<1>2. /\ seen.total_delay = n.total_delay
      /\ seen.min_delay = n.min_delay /\ seen.max_delay = n.max_delay
  BY DEF ProbabilisticDelayNode
<1>3. seen \in ProbabilisticDelayNode(Ids, Delays)
  <2>1. n.processed + 1 \in Nat /\ 0 \in Nat /\ n.min_delay \in Seq(Nat)
    BY DEF ProbabilisticDelayNode
  <2>2. [n EXCEPT !.processed = n.processed + 1] \in ProbabilisticDelayNode(Ids, Delays)
    BY <2>1, ProbabilisticUpdate, Zenon DEF ProbabilisticDelayNode
  <2>3. QED
    BY <2>2
<1>4. CASE n.forward_to = Nobody
  <2>1. r.node = seen /\ r.out = <<>>
    BY <1>4 DEF ProbabilisticOnEvent, Result
  <2> HIDE DEF seen
  <2>2. QED
    BY <1>1, <1>2, <1>4, <2>1 DEF Dropped
<1>5. CASE n.forward_to # Nobody
  <2>1. PICK x \in Support(n.distribution) :
          /\ r.node = UpdateStats(seen, x)
          /\ r.out = <<Message(ev.time + x, id, n.forward_to, ev.data)>>
    BY <1>5 DEF ProbabilisticOnEvent, Result
  <2>2. x \in Nat
    BY <1>1, <2>1, ExecutorAssumption DEF Distribution
  <2> HIDE DEF seen
  <2>3. /\ r.node.total_delay = n.total_delay + x
        /\ r.node.min_delay = OptMin(n.min_delay, x)
        /\ r.node.max_delay = OptMax(n.max_delay, x)
    <3> DEFINE total == seen.total_delay + x
               least == OptMin(seen.min_delay, x)
               most == OptMax(seen.max_delay, x)
               S == Seq(Nat)
    <3>1. r.node = [seen EXCEPT !.total_delay = total, !.min_delay = least, !.max_delay = most]
      BY <2>1 DEF UpdateStats
    <3> HIDE DEF total, least, most, S
    <3>2. seen \in [kind : {"probabilistic"}, forward_to : Ids \cup {Nobody},
                    distribution : Distribution(Delays), processed : Nat,
                    total_delay : Nat, min_delay : S, max_delay : S]
      BY <1>3 DEF ProbabilisticDelayNode, S
    <3>3. r.node.total_delay = total /\ r.node.min_delay = least /\ r.node.max_delay = most
      BY <3>1, <3>2
    <3>4. QED
      BY <1>2, <3>3 DEF total, least, most
  <2>4. Forwarded(n, id, ev, r, x, ev.data)
    BY <1>1, <1>5, <2>1, <2>2, <2>3 DEF Forwarded
  <2>5. QED
    BY <2>4
<1>6. QED
  BY <1>4, <1>5

\* The nodes with a target forward or drop, and change nothing of the event but
\* its time, its ends and, in an enhanced node, its number and keys.
LEMMA ForwardsOrDrops ==
  ASSUME NEW n \in Nodes, NEW id \in LocalNodes, NEW ev \in Msg, NEW r \in OnEvent(id, n, ev),
         n.kind \in {"delay", "probabilistic", "enhanced", "simple", "passthrough"}
  PROVE  Dropped(n, r) \/ \E x, data : Forwarded(n, id, ev, r, x, data)
<1>1. id \in Ids /\ ev.data \in Data(Ids) /\ ev.time \in Nat /\ ev.time + 0 = ev.time
  BY DEF Ids, Msg
<1>2. CASE n.kind = "delay"
  <2>1. n \in DelayNode(Ids, Delays) /\ r \in DelayOnEvent(id, n, ev)
    BY <1>2, NodeKinds DEF OnEvent
  <2>2. n.delay \in Nat
    BY <2>1, ExecutorAssumption DEF DelayNode
  <2>3. /\ n.forward_to = Nobody => r.out = <<>>
        /\ n.forward_to # Nobody =>
             r.out = <<Message(ev.time + n.delay, id, n.forward_to, ev.data)>>
    BY <2>1 DEF DelayOnEvent, Result
  <2>4. CASE n.forward_to = Nobody
    BY <1>2, <2>3, <2>4 DEF Dropped
  <2>5. CASE n.forward_to # Nobody
    <3>1. Forwarded(n, id, ev, r, n.delay, ev.data)
      BY <1>1, <1>2, <2>2, <2>3, <2>5 DEF Forwarded
    <3>2. QED
      BY <3>1
  <2>6. QED
    BY <2>4, <2>5
<1>3. CASE n.kind = "probabilistic"
  <2>1. n \in ProbabilisticDelayNode(Ids, Delays) /\ r \in ProbabilisticOnEvent(id, n, ev)
    BY <1>3, NodeKinds DEF OnEvent
  <2>2. QED
    BY <1>1, <2>1, ProbabilisticForwards
<1>4. CASE n.kind = "enhanced"
  <2>1. n \in EnhancedPassThroughNode(Ids) /\ r \in EnhancedOnEvent(id, n, ev)
    BY <1>4, NodeKinds DEF OnEvent
  <2>2. \/ r.out = <<>>
        \/ /\ n.forward_to # Nobody
           /\ r.out = <<Message(ev.time, id, n.forward_to, Transformed(id, n, ev.data))>>
    BY <2>1, EnhancedNode
  <2>3. CASE r.out = <<>>
    BY <1>4, <2>3 DEF Dropped
  <2>4. CASE /\ n.forward_to # Nobody
             /\ r.out = <<Message(ev.time, id, n.forward_to, Transformed(id, n, ev.data))>>
    <3> DEFINE data == Transformed(id, n, ev.data)
    <3>1. data \in Data(Ids) /\ data.item = ev.data.item /\ data.sent = ev.data.sent
      BY <1>1, <2>1, TransformedData
    <3>2. r.out = <<Message(ev.time + 0, id, n.forward_to, data)>>
      BY <1>1, <2>4
    <3>3. data = Transformed(id, n, ev.data)
      OBVIOUS
    <3> HIDE DEF data
    <3>4. Forwarded(n, id, ev, r, 0, data)
      BY <1>4, <2>4, <3>1, <3>2, <3>3 DEF Forwarded
    <3>5. QED
      BY <3>4
  <2>5. QED
    BY <2>2, <2>3, <2>4
<1>5. CASE n.kind = "simple"
  <2>1. /\ n.forward_to = Nobody => r.out = <<>>
        /\ n.forward_to # Nobody =>
             r.out = <<Message(ev.time + 0, id, n.forward_to, ev.data)>>
    BY <1>1, <1>5 DEF OnEvent, SimpleOnEvent, Result
  <2>2. CASE n.forward_to = Nobody
    BY <1>5, <2>1, <2>2 DEF Dropped
  <2>3. CASE n.forward_to # Nobody
    <3>1. Forwarded(n, id, ev, r, 0, ev.data)
      BY <1>1, <1>5, <2>1, <2>3 DEF Forwarded
    <3>2. QED
      BY <3>1
  <2>4. QED
    BY <2>2, <2>3
<1>6. CASE n.kind = "passthrough"
  <2>1. n.forward_to # Nobody
    BY <1>6, NodeKinds, NetworkAssumption DEF PassThroughNode, Ids
  <2>2. r.out = <<Message(ev.time + 0, id, n.forward_to, ev.data)>>
    BY <1>1, <1>6 DEF OnEvent, PassThroughOnEvent, Result
  <2>3. Forwarded(n, id, ev, r, 0, ev.data)
    BY <1>1, <1>6, <2>1, <2>2 DEF Forwarded
  <2>4. QED
    BY <2>3
<1>7. QED
  BY <1>2, <1>3, <1>4, <1>5, <1>6

-------------------------------------------------------------------------------
\* What becomes of an event.

\* Where an event goes in one iteration: it arrives, it is dropped or leaves the
\* executor, or one event of the same item takes its place, last in its bucket.
Arrives(e) ==
  /\ node[e.event.dst].kind = "counter"
  /\ queue'.entries = queue.entries \ {e}
  /\ arrived' = Append(arrived, e.event)

Leaves(e, r) ==
  /\ node[e.event.dst].kind # "counter"
  /\ queue'.entries = queue.entries \ {e}
  /\ arrived' = arrived
  /\ r.out = <<>> \/ \E m \in Sent : r.out = <<m>> /\ m.dst \notin LocalNodes

Moves(e, r, m) ==
  /\ node[e.event.dst].kind # "counter"
  /\ queue'.entries = (queue.entries \ {e}) \cup {Entry(m, queue.counter)}
  /\ arrived' = arrived
  /\ m \in Msg /\ r.out = <<m>>
  /\ m.data.item = e.event.data.item /\ m.data.sent = e.event.data.sent

\* The iteration handles the first event, and one of these becomes of it.
LEMMA IterationMoves ==
  ASSUME NetTypes, NEW e, NEW r, NEW locals, NEW outgoing, Iteration(e, r, locals, outgoing)
  PROVE  /\ IsFirst(e, queue)
         /\ Arrives(e) \/ Leaves(e, r) \/ \E m : Moves(e, r, m)
<1> DEFINE rest == Without(queue, {e})
           id == e.event.dst
<1>1. /\ Answer(id, node[id], e.event, r) /\ Split(r.out, locals, outgoing)
      /\ HandleEvent(e, locals, outgoing)
      /\ node[id].kind = "counter" => r.out = <<>>
      /\ arrived' = IF node[id].kind = "counter" THEN Append(arrived, e.event) ELSE arrived
  BY DEF Iteration
<1>2. IsFirst(e, queue) /\ queue' = PushAll(rest, locals)
  BY <1>1 DEF HandleEvent
<1>3. rest.entries = queue.entries \ {e} /\ rest.counter = queue.counter
  BY DEF Without
<1> HIDE DEF rest
<1>4. queue.counter \in Nat
  BY DEF NetTypes, QueueOK
<1>5. ASSUME locals = <<>>  PROVE queue'.entries = queue.entries \ {e}
  BY <1>2, <1>3, <1>5 DEF PushAll
<1>6. ASSUME NEW m, locals = <<m>>
      PROVE  queue'.entries = (queue.entries \ {e}) \cup {Entry(m, queue.counter)}
  <2>1. 1..Len(locals) = {1} /\ locals[1] = m
    BY <1>6
  <2>2. queue'.entries = rest.entries \cup {Entry(locals[i], rest.counter + i - 1) : i \in 1..Len(locals)}
    BY <1>2 DEF PushAll
  <2>3. queue.counter + 1 - 1 = queue.counter
    BY <1>4
  <2>4. QED
    BY <1>3, <2>1, <2>2, <2>3
<1>7. \A m : r.out = <<m>> =>
               m.data.item = e.event.data.item /\ m.data.sent = e.event.data.sent
  <2> SUFFICES ASSUME NEW m, r.out = <<m>>
               PROVE  m.data.item = e.event.data.item /\ m.data.sent = e.event.data.sent
    OBVIOUS
  <2>1. r.out # <<>>
    OBVIOUS
  <2>2. PICK d \in Delays, to \in Ids, data \in Data(Ids) :
          /\ r.out = <<Message(e.event.time + d, id, to, data)>>
          /\ data.item = e.event.data.item /\ data.sent = e.event.data.sent
    BY <1>1, <2>1, Zenon DEF Answer
  <2>3. m = Message(e.event.time + d, id, to, data)
    BY <2>2
  <2>4. QED
    BY <2>2, <2>3 DEF Message
<1>8. CASE r.out = <<>> /\ locals = <<>>
  BY <1>1, <1>2, <1>5, <1>8 DEF Arrives, Leaves
<1>9. ASSUME NEW m \in Sent, r.out = <<m>>, m.dst \notin LocalNodes, locals = <<>>
      PROVE  Leaves(e, r)
  <2>1. node[id].kind # "counter"
    BY <1>1, <1>9
  <2>2. QED
    BY <1>1, <1>5, <1>9, <2>1 DEF Leaves
<1>10. ASSUME NEW m \in Msg, r.out = <<m>>, locals = <<m>>
       PROVE  Moves(e, r, m)
  <2>1. node[id].kind # "counter"
    BY <1>1, <1>10
  <2>2. QED
    BY <1>1, <1>6, <1>7, <1>10, <2>1 DEF Moves
<1>11. QED
  BY <1>1, <1>2, <1>8, <1>9, <1>10, Zenon DEF Split

\* The source's items are told apart, and there is one event of each at most.
EachItemOnce ==
  /\ node[Source].generated \in Nat
  /\ \A e \in queue.entries : e.event.data.item <= node[Source].generated
  /\ \A i \in DOMAIN arrived : arrived[i].data.item <= node[Source].generated
  /\ \A e, f \in queue.entries : e.event.data.item = f.event.data.item => e = f
  /\ \A i, j \in DOMAIN arrived : arrived[i].data.item = arrived[j].data.item => i = j
  /\ \A e \in queue.entries, i \in DOMAIN arrived : e.event.data.item # arrived[i].data.item

\* What a tick of the source adds.
LEMMA SourceAdds ==
  ASSUME NetTypes, NEW t \in 0..MaxTime, NEW matches \in Contents, SourceTick(t, matches)
  PROVE  /\ node[Source].generated \in Nat
         /\ node'[Source].generated = node[Source].generated + 1
         /\ \A n \in LocalNodes : node'[n] = node[n]
         /\ t \in Nat /\ t >= ticked /\ ticked' = t /\ arrived' = arrived
         /\ \E m \in Msg : /\ m.time = t /\ m.src = Source /\ m.dst = node[Source].target
                           /\ m.data.item = node[Source].generated + 1 /\ m.data.sent = t
                           /\ m.data.number = <<>>
                           /\ queue'.entries = queue.entries \cup {Entry(m, queue.counter)}
<1> DEFINE made == SourceOnTick(Source, node[Source], t, matches)
<1>1. t \in Nat /\ matches \in BOOLEAN
  <2>1. Contents = BOOLEAN \/ Contents = {FALSE}
    BY DEF Contents
  <2>2. matches \in BOOLEAN
    BY <2>1
  <2>3. QED
    BY <2>2, ExecutorAssumption
<1>2. /\ node[Source].generated \in Nat
      /\ made.node.generated = node[Source].generated + 1
  BY <1>1, SourceSends
<1>3. PICK m \in Msg : /\ made.out = <<m>>
                       /\ m.time = t /\ m.src = Source /\ m.dst = node[Source].target
                       /\ m.data.item = node[Source].generated + 1 /\ m.data.sent = t
                       /\ m.data.number = <<>>
  BY <1>1, SourceSends
<1>4. /\ HandleIncoming(made.out) /\ node' = [node EXCEPT ![Source] = made.node]
      /\ t >= ticked /\ ticked' = t /\ arrived' = arrived
  BY DEF SourceTick
<1> HIDE DEF made
<1>5. queue' = PushAll(queue, <<m>>)
  BY <1>3, <1>4 DEF HandleIncoming
<1>6. queue'.entries = queue.entries \cup {Entry(m, queue.counter)}
  <2>1. QueueOK(queue, Msg)
    BY DEF NetTypes
  <2>2. queue' = Push(queue, m)
    BY <1>5, <2>1, PushIsPushAll
  <2>3. QED
    BY <2>2 DEF Push
<1>7. /\ node'[Source] = made.node
      /\ \A n \in LocalNodes : node'[n] = node[n]
  <2>1. node \in [LocalNodes \cup {Source} -> Nodes] /\ Source \notin LocalNodes
    BY TheSource DEF NetTypes
  <2>2. QED
    BY <1>4, <2>1
<1>8. QED
  BY <1>1, <1>2, <1>3, <1>4, <1>6, <1>7

\* The counters of the source, and of the nodes that do not handle the event, stay.
LEMMA OthersStay ==
  ASSUME NetTypes, NEW e, NEW r, NEW locals, NEW outgoing, Iteration(e, r, locals, outgoing)
  PROVE  /\ node'[Source] = node[Source]
         /\ \A n \in LocalNodes \ {e.event.dst} : node'[n] = node[n]
         /\ node'[e.event.dst] = r.node
<1>1. e.event.dst \in LocalNodes /\ Source \notin LocalNodes
  BY TheSource DEF Iteration
<1>2. QED
  BY <1>1, IterationTypes

\* Every step leaves one event of each item at most.
LEMMA ItemsStep == NetTypes /\ NetTypes' /\ EachItemOnce /\ [NetNext]_netVars => EachItemOnce'
<1> SUFFICES ASSUME NetTypes, NetTypes', EachItemOnce, [NetNext]_netVars  PROVE EachItemOnce'
  OBVIOUS
<1> DEFINE g == node[Source].generated
<1>1. /\ \A e \in queue.entries : e.event.data.item \in Nat
      /\ \A i \in DOMAIN arrived : arrived[i].data.item \in Nat
      /\ arrived \in Seq(Msg) /\ g \in Nat
  <2>1. \A m \in Msg : m.data.item \in Nat
    BY DEF Msg, Data
  <2>2. queue.entries \subseteq EntrySet(Msg) /\ arrived \in Seq(Msg)
    BY DEF NetTypes, QueueOK
  <2>3. g \in Nat
    BY DEF EachItemOnce
  <2>4. QED
    BY <2>1, <2>2, <2>3 DEF EntrySet
<1>2. CASE InitNetwork
  <2>1. queue'.entries = {} /\ DOMAIN arrived' = {}
    BY <1>2 DEF InitNetwork, InitExecutor, EmptyQueue
  <2>2. node'[Source].generated = 0
    <3>1. node[Source].kind = "source" /\ node'[Source] = Reset(node[Source])
      BY <1>2, TheSource DEF InitNetwork, NetTypes
    <3>2. node'[Source] = NewSource(node[Source].target)
      BY <3>1 DEF Reset
    <3>3. QED
      BY <3>2 DEF NewSource
  <2>3. QED
    BY <2>1, <2>2 DEF EachItemOnce
<1>3. ASSUME NEW t \in 0..MaxTime, NEW matches \in Contents, SourceTick(t, matches)
      PROVE  EachItemOnce'
  <2>1. PICK m \in Msg : /\ m.data.item = g + 1
                         /\ queue'.entries = queue.entries \cup {Entry(m, queue.counter)}
    BY <1>3, SourceAdds
  <2>2. node'[Source].generated = g + 1 /\ arrived' = arrived
    BY <1>3, SourceAdds
  <2> DEFINE new == Entry(m, queue.counter)
  <2>3. new.event = m /\ queue'.entries = queue.entries \cup {new}
    BY <2>1 DEF Entry
  <2> HIDE DEF new, g
  <2>4. /\ \A e \in queue.entries : e.event.data.item <= g
        /\ \A i \in DOMAIN arrived : arrived[i].data.item <= g
    BY DEF EachItemOnce, g
  <2>5. /\ \A e \in queue'.entries : e = new \/ e \in queue.entries
        /\ \A e \in queue.entries : e.event.data.item # new.event.data.item
        /\ \A i \in DOMAIN arrived : arrived[i].data.item # new.event.data.item
    BY <1>1, <2>1, <2>3, <2>4
  <2>6. /\ \A e \in queue'.entries : e.event.data.item <= g + 1
        /\ \A i \in DOMAIN arrived : arrived[i].data.item <= g + 1
    BY <1>1, <2>1, <2>3, <2>4
  <2>7. QED
    BY <1>1, <2>2, <2>5, <2>6, SMTT(30) DEF EachItemOnce
<1>4. CASE HandleFirst
  <2>1. PICK e, r, locals, outgoing : Iteration(e, r, locals, outgoing)
    BY <1>4, HandledStep
  <2>2. node'[Source] = node[Source]
    BY <2>1, OthersStay
  <2>3. e \in queue.entries
    BY <2>1 DEF Iteration
  <2>4. CASE Arrives(e)
    <3>1. queue'.entries = queue.entries \ {e} /\ arrived' = Append(arrived, e.event)
      BY <2>4 DEF Arrives
    <3>2. \A i \in DOMAIN arrived' : \/ i \in DOMAIN arrived /\ arrived'[i] = arrived[i]
                                     \/ i = Len(arrived) + 1 /\ arrived'[i] = e.event
      BY <1>1, <3>1
    <3>3. \A i \in DOMAIN arrived : arrived[i].data.item # e.event.data.item
      BY <2>3 DEF EachItemOnce
    <3>4. \A f \in queue.entries \ {e} : f.event.data.item # e.event.data.item
      BY <2>3 DEF EachItemOnce
    <3>5. \A i, j \in DOMAIN arrived' : arrived'[i].data.item = arrived'[j].data.item => i = j
      BY <3>2, <3>3 DEF EachItemOnce
    <3>6. \A f \in queue'.entries, i \in DOMAIN arrived' : f.event.data.item # arrived'[i].data.item
      BY <3>1, <3>2, <3>4 DEF EachItemOnce
    <3>7. \A i \in DOMAIN arrived' : arrived'[i].data.item <= node[Source].generated
      BY <2>3, <3>2 DEF EachItemOnce
    <3>8. QED
      BY <2>2, <3>1, <3>5, <3>6, <3>7 DEF EachItemOnce
  <2>5. CASE Leaves(e, r)
    <3>1. queue'.entries = queue.entries \ {e} /\ arrived' = arrived
      BY <2>5 DEF Leaves
    <3>2. QED
      BY <2>2, <3>1 DEF EachItemOnce
  <2>6. ASSUME NEW m, Moves(e, r, m)  PROVE EachItemOnce'
    <3> DEFINE new == Entry(m, queue.counter)
    <3>1. /\ queue'.entries = (queue.entries \ {e}) \cup {new} /\ arrived' = arrived
          /\ new.event.data.item = e.event.data.item
      BY <2>6 DEF Moves, Entry
    <3> HIDE DEF new
    <3>2. \A f \in queue.entries \ {e} : f.event.data.item # e.event.data.item
      BY <2>3 DEF EachItemOnce
    <3>3. QED
      BY <2>2, <2>3, <3>1, <3>2 DEF EachItemOnce
  <2>7. QED
    BY <2>1, <2>4, <2>5, <2>6, IterationMoves
<1>5. CASE UNCHANGED <<queue, arrived, node>>
  BY <1>5 DEF EachItemOnce
<1>6. QED
  BY <1>2, <1>3, <1>4, <1>5
     DEF NetNext, StartRun, BeginRun, Return, ReturnFromRun, netVars, vars

\* No item is in two places, whatever the network does with it.
LEMMA ItemsOnce == NetSpec => []EachItemOnce
<1>1. NetInit => EachItemOnce
  <2> SUFFICES ASSUME NetInit  PROVE EachItemOnce
    OBVIOUS
  <2>1. NetTypes
    BY NetInitTypes
  <2>2. queue.entries = {} /\ DOMAIN arrived = {}
    BY DEF NetInit, Init, EmptyQueue
  <2>3. node[Source].generated \in Nat
    BY <2>1, TheSource DEF SourceNode
  <2>4. QED
    BY <2>2, <2>3 DEF EachItemOnce
<1>2. QED
  BY <1>1, ItemsStep, NetTyped, PTL DEF NetSpec

\* What is known of after an iteration.
LEMMA KnownAfter ==
  ASSUME NetTypes, EachItemOnce, NEW e \in queue.entries
  PROVE  /\ e.event \in Known
         /\ \A ev \in Known \ {e.event} : ev.data.item # e.event.data.item
         /\ Arrives(e) => Known' = Known
         /\ \A r : Leaves(e, r) => Known' = Known \ {e.event}
         /\ \A r, m : Moves(e, r, m) => Known' = (Known \ {e.event}) \cup {m}
<1> DEFINE Q == {f.event : f \in queue.entries}
           A == {arrived[i] : i \in DOMAIN arrived}
           R == {f.event : f \in queue.entries \ {e}}
<1>1. Known = Q \cup A
  BY DEF Known
<1>2. e.event \in Q
  OBVIOUS
<1>3. /\ \A ev \in R : ev \in Q /\ ev.data.item # e.event.data.item
      /\ \A ev \in A : ev.data.item # e.event.data.item
      /\ \A ev \in Q : ev \in R \/ ev = e.event
  BY DEF EachItemOnce
<1>4. R \cup A = Known \ {e.event}
  BY <1>1, <1>2, <1>3
<1>5. ASSUME Arrives(e)  PROVE Known' = Known
  <2>1. queue'.entries = queue.entries \ {e} /\ arrived' = Append(arrived, e.event)
    BY <1>5 DEF Arrives
  <2>2. arrived \in Seq(Msg)
    BY DEF NetTypes
  <2>3. {arrived'[i] : i \in DOMAIN arrived'} = A \cup {e.event}
    <3>1. /\ DOMAIN arrived' = DOMAIN arrived \cup {Len(arrived) + 1}
          /\ \A i \in DOMAIN arrived : arrived'[i] = arrived[i]
          /\ arrived'[Len(arrived) + 1] = e.event
      BY <2>1, <2>2
    <3>2. QED
      BY <3>1
  <2>4. Known' = R \cup (A \cup {e.event})
    BY <2>1, <2>3 DEF Known
  <2> HIDE DEF Q, A, R
  <2>5. QED
    BY <1>1, <1>2, <1>4, <2>4
<1>6. ASSUME NEW r, Leaves(e, r)  PROVE Known' = Known \ {e.event}
  <2>1. queue'.entries = queue.entries \ {e} /\ arrived' = arrived
    BY <1>6 DEF Leaves
  <2>2. Known' = R \cup A
    BY <2>1 DEF Known
  <2>3. QED
    BY <1>4, <2>2
<1>7. ASSUME NEW r, NEW m, Moves(e, r, m)  PROVE Known' = (Known \ {e.event}) \cup {m}
  <2>1. /\ queue'.entries = (queue.entries \ {e}) \cup {Entry(m, queue.counter)}
        /\ arrived' = arrived
    BY <1>7 DEF Moves
  <2>2. Entry(m, queue.counter).event = m
    BY DEF Entry
  <2>3. {f.event : f \in queue'.entries} = R \cup {m}
    BY <2>1, <2>2
  <2>4. Known' = (R \cup {m}) \cup A
    BY <2>1, <2>3 DEF Known
  <2> HIDE DEF Q, A, R
  <2>5. QED
    BY <1>4, <2>4
<1> HIDE DEF Q, A, R
<1>8. QED
  BY <1>1, <1>2, <1>3, <1>4, <1>5, <1>6, <1>7

\* And after a tick of the source.
LEMMA KnownMore ==
  ASSUME NetTypes, NEW t \in 0..MaxTime, NEW matches \in Contents, SourceTick(t, matches)
  PROVE  \E m \in Msg : /\ m.time = t /\ m.src = Source /\ m.data.sent = t
                        /\ m.data.number = <<>>
                        /\ Known' = Known \cup {m}
<1>1. arrived' = arrived
  BY SourceAdds
<1>2. PICK m \in Msg : /\ m.time = t /\ m.src = Source /\ m.data.sent = t
                       /\ m.data.number = <<>>
                       /\ queue'.entries = queue.entries \cup {Entry(m, queue.counter)}
  BY SourceAdds
<1> DEFINE new == Entry(m, queue.counter)
<1>3. queue'.entries = queue.entries \cup {new} /\ new.event = m
  BY <1>2 DEF Entry
<1> HIDE DEF new
<1>4. {f.event : f \in queue'.entries} = {f.event : f \in queue.entries} \cup {m}
  BY <1>3
<1> DEFINE Q == {f.event : f \in queue.entries}
           A == {arrived[i] : i \in DOMAIN arrived}
<1>5. Known = Q \cup A /\ Known' = (Q \cup {m}) \cup A
  BY <1>1, <1>4 DEF Known
<1> HIDE DEF Q, A
<1>6. Known' = Known \cup {m}
  BY <1>5
<1>7. QED
  BY <1>2, <1>6

\* What is known of are finitely many messages.
LEMMA KnownType ==
  ASSUME NetTypes
  PROVE  Known \subseteq Msg /\ IsFiniteSet(Known)
<1>1. /\ queue.entries \subseteq EntrySet(Msg) /\ IsFiniteSet(queue.entries)
      /\ arrived \in Seq(Msg)
  BY DEF NetTypes, QueueOK
<1> DEFINE Q == {e.event : e \in queue.entries}
           A == {arrived[i] : i \in DOMAIN arrived}
<1>2. Q \subseteq Msg /\ A \subseteq Msg
  BY <1>1 DEF EntrySet
<1>3. IsFiniteSet(Q)
  <2> DEFINE f == [e \in queue.entries |-> e.event]
  <2>1. f \in Surjection(queue.entries, Q)
    BY DEF Surjection
  <2>2. QED
    BY <1>1, <2>1, FS_Surjection
<1>4. IsFiniteSet(A)
  <2> DEFINE f == [i \in 1..Len(arrived) |-> arrived[i]]
  <2>1. DOMAIN arrived = 1..Len(arrived) /\ Len(arrived) \in Nat
    BY <1>1
  <2>2. f \in Surjection(1..Len(arrived), A)
    BY <2>1 DEF Surjection
  <2>3. IsFiniteSet(1..Len(arrived))
    <3>1. 1 \in Int /\ Len(arrived) \in Int
      BY <2>1
    <3>2. QED
      BY <3>1, FS_Interval, Zenon
  <2> HIDE DEF f
  <2>4. QED
    BY <2>2, <2>3, FS_Surjection
<1>5. IsFiniteSet(Q \cup A)
  BY <1>3, <1>4, FS_Union
<1>6. QED
  BY <1>2, <1>5 DEF Known

-------------------------------------------------------------------------------
\* The networks whose latency LatencyStatistics speaks of.
OnlyDelays(d) ==
  /\ node[d].kind = "probabilistic"
  /\ node[d].forward_to \in {Nobody} \cup {n \in LocalNodes : node[n].kind = "counter"}
  /\ \A n \in LocalNodes \ {d} :
       node[n].kind \in {"enhanced", "simple", "passthrough", "counter"}

\* n, the node d, has measured the events K: those it sent are late by a value
\* of its distribution and on their way to its counter, the others are in time,
\* and its statistics are those of the former.
Lag(ev) == ev.time - ev.data.sent
Behind(K, d) == {ev \in K : ev.src = d}
Measured(K, n, d) ==
  /\ \A ev \in K :
       /\ ev.src = d => /\ n.forward_to # Nobody /\ ev.dst = n.forward_to
                        /\ Lag(ev) \in Support(n.distribution)
       /\ ev.src # d => ev.time = ev.data.sent
  /\ n.total_delay = SumFunctionOnSet([ev \in Behind(K, d) |-> Lag(ev)], Behind(K, d))
  /\ Behind(K, d) = {} => n.min_delay = <<>> /\ n.max_delay = <<>>
  /\ Behind(K, d) # {} =>
       \E ev, fv \in Behind(K, d) :
         /\ n.min_delay = <<Lag(ev)>> /\ n.max_delay = <<Lag(fv)>>
         /\ \A gv \in Behind(K, d) : Lag(ev) <= Lag(gv) /\ Lag(gv) <= Lag(fv)

\* Events the node did not send come and go.
LEMMA MeasuredOthers ==
  ASSUME NEW K, NEW L, NEW n, NEW d, Measured(K, n, d),
         \A ev \in L : ev \in K \/ (ev.src # d /\ ev.time = ev.data.sent),
         \A ev \in K : ev \in L \/ ev.src # d
  PROVE  Measured(L, n, d)
<1>1. Behind(L, d) = Behind(K, d)
  BY DEF Behind
<1>2. QED
  BY <1>1 DEF Measured

\* One more that it sent.
LEMMA MeasuredMore ==
  ASSUME NEW K, IsFiniteSet(K), NEW n, NEW d, Measured(K, n, d),
         NEW m, m \notin K, m.src = d, NEW x \in Nat, Lag(m) = x, x \in Support(n.distribution),
         \A ev \in K : Lag(ev) \in Int, Support(n.distribution) \subseteq Nat,
         NEW p, p.forward_to = n.forward_to, p.distribution = n.distribution,
         n.forward_to # Nobody, m.dst = n.forward_to,
         p.total_delay = n.total_delay + x,
         p.min_delay = OptMin(n.min_delay, x), p.max_delay = OptMax(n.max_delay, x)
  PROVE  Measured(K \cup {m}, p, d)
<1> DEFINE L == K \cup {m}
           B == Behind(K, d)
           C == Behind(L, d)
           f == [ev \in B |-> Lag(ev)]
           g == [ev \in C |-> Lag(ev)]
<1>1. C = B \cup {m} /\ m \notin B /\ B \subseteq K
  BY DEF Behind
<1>2. /\ \A ev \in K : /\ ev.src = d => /\ n.forward_to # Nobody /\ ev.dst = n.forward_to
                                        /\ Lag(ev) \in Support(n.distribution)
                       /\ ev.src # d => ev.time = ev.data.sent
      /\ n.total_delay = SumFunctionOnSet(f, B)
      /\ B = {} => n.min_delay = <<>> /\ n.max_delay = <<>>
      /\ B # {} => \E ev, fv \in B : /\ n.min_delay = <<Lag(ev)>> /\ n.max_delay = <<Lag(fv)>>
                                     /\ \A gv \in B : Lag(ev) <= Lag(gv) /\ Lag(gv) <= Lag(fv)
  BY DEF Measured
<1>3. \A ev \in L : /\ ev.src = d => /\ p.forward_to # Nobody /\ ev.dst = p.forward_to
                                     /\ Lag(ev) \in Support(p.distribution)
                    /\ ev.src # d => ev.time = ev.data.sent
  BY <1>2
<1>4. \A ev \in B : Lag(ev) \in Nat
  BY <1>2 DEF Behind
<1>5. p.total_delay = SumFunctionOnSet(g, C)
  <2>1. IsFiniteSet(B) /\ IsFiniteSet(C)
    <3>1. IsFiniteSet(B)
      BY <1>1, FS_Subset
    <3> HIDE DEF B, C
    <3>2. IsFiniteSet(B \cup {m})
      BY <3>1, FS_AddElement
    <3>3. QED
      BY <1>1, <3>1, <3>2
  <2>2. /\ \A ev \in C : g[ev] \in Nat
        /\ \A ev \in B : f[ev] \in Nat /\ g[ev] = f[ev]
        /\ g[m] = x
    BY <1>1, <1>4
  <2> HIDE DEF f, g, B, C
  <2>3. SumFunctionOnSet(g, B) = SumFunctionOnSet(f, B)
    BY <2>1, <2>2, SumSame
  <2>4. SumFunctionOnSet(g, B \cup {m}) = SumFunctionOnSet(g, B) + g[m]
    <3>1. \A ev \in B \cup {m} : g[ev] \in Nat
      BY <1>1, <2>2
    <3>2. QED
      BY <1>1, <2>1, <3>1, SumAdd
  <2>5. QED
    BY <1>1, <1>2, <2>2, <2>3, <2>4
<1> HIDE DEF f, g
<1>6. \E ev, fv \in C : /\ p.min_delay = <<Lag(ev)>> /\ p.max_delay = <<Lag(fv)>>
                        /\ \A gv \in C : Lag(ev) <= Lag(gv) /\ Lag(gv) <= Lag(fv)
  <2> HIDE DEF B, C
  <2>1. CASE B = {}
    <3>1. n.min_delay = <<>> /\ n.max_delay = <<>> /\ C = {m}
      BY <1>1, <1>2, <2>1
    <3>2. p.min_delay = <<Lag(m)>> /\ p.max_delay = <<Lag(m)>>
      BY <3>1 DEF OptMin, OptMax
    <3>3. m \in C /\ \A gv \in C : Lag(m) <= Lag(gv) /\ Lag(gv) <= Lag(m)
      <4>1. Lag(m) <= Lag(m)
        OBVIOUS
      <4>2. m \in C /\ \A gv \in C : gv = m
        BY <3>1
      <4>3. QED
        BY <4>1, <4>2
    <3>4. QED
      BY <3>2, <3>3
  <2>2. CASE B # {}
    <3>1. PICK ev, fv \in B : /\ n.min_delay = <<Lag(ev)>> /\ n.max_delay = <<Lag(fv)>>
                              /\ \A gv \in B : Lag(ev) <= Lag(gv) /\ Lag(gv) <= Lag(fv)
      BY <1>2, <2>2
    <3>2. PICK l \in C : p.min_delay = <<Lag(l)>> /\ \A gv \in C : Lag(l) <= Lag(gv)
      <4> DEFINE a == Lag(ev)
      <4>1. a \in Nat /\ n.min_delay = <<a>>
        BY <1>4, <3>1
      <4> HIDE DEF a
      <4>2. n.min_delay # <<>> /\ n.min_delay[1] = a
        BY <4>1
      <4>3. p.min_delay = IF a < x THEN <<a>> ELSE <<x>>
        BY <4>1, <4>2 DEF OptMin
      <4>4. CASE a < x
        <5>1. \A gv \in C : Lag(ev) <= Lag(gv)
          BY <1>1, <3>1, <4>1, <4>4 DEF a
        <5>2. p.min_delay = <<Lag(ev)>> /\ ev \in C
          BY <1>1, <4>3, <4>4 DEF a
        <5>3. QED
          BY <5>1, <5>2
      <4>5. CASE ~(a < x)
        <5>1. \A gv \in B : a <= Lag(gv) /\ Lag(gv) \in Nat
          BY <1>4, <3>1 DEF a
        <5>2. \A gv \in C : Lag(m) <= Lag(gv)
          BY <1>1, <4>1, <4>5, <5>1
        <5>3. p.min_delay = <<Lag(m)>> /\ m \in C
          BY <1>1, <4>3, <4>5
        <5>4. QED
          BY <5>2, <5>3
      <4>6. QED
        BY <4>4, <4>5
    <3>3. PICK k \in C : p.max_delay = <<Lag(k)>> /\ \A gv \in C : Lag(gv) <= Lag(k)
      <4> DEFINE a == Lag(fv)
      <4>1. a \in Nat /\ n.max_delay = <<a>>
        BY <1>4, <3>1
      <4> HIDE DEF a
      <4>2. n.max_delay # <<>> /\ n.max_delay[1] = a
        BY <4>1
      <4>3. p.max_delay = IF a > x THEN <<a>> ELSE <<x>>
        BY <4>1, <4>2 DEF OptMax
      <4>4. CASE a > x
        <5>1. \A gv \in C : Lag(gv) <= Lag(fv)
          BY <1>1, <3>1, <4>1, <4>4 DEF a
        <5>2. p.max_delay = <<Lag(fv)>> /\ fv \in C
          BY <1>1, <4>3, <4>4 DEF a
        <5>3. QED
          BY <5>1, <5>2
      <4>5. CASE ~(a > x)
        <5>1. \A gv \in B : Lag(gv) <= a /\ Lag(gv) \in Nat
          BY <1>4, <3>1 DEF a
        <5>2. \A gv \in C : Lag(gv) <= Lag(m)
          BY <1>1, <4>1, <4>5, <5>1
        <5>3. p.max_delay = <<Lag(m)>> /\ m \in C
          BY <1>1, <4>3, <4>5
        <5>4. QED
          BY <5>2, <5>3
      <4>6. QED
        BY <4>4, <4>5
    <3>4. QED
      BY <3>2, <3>3
  <2>3. QED
    BY <2>1, <2>2
<1>7. C # {}
  BY <1>1
<1>8. QED
  BY <1>3, <1>5, <1>6, <1>7 DEF Measured, g

\* Measured depends on the node's target, distribution and statistics only.
LEMMA MeasuredSame ==
  ASSUME NEW K, NEW n, NEW d, Measured(K, n, d),
         NEW p, p.forward_to = n.forward_to, p.distribution = n.distribution,
         p.total_delay = n.total_delay, p.min_delay = n.min_delay, p.max_delay = n.max_delay
  PROVE  Measured(K, p, d)
  BY DEF Measured

\* The nodes that delay have measured what is on its way.
LatencyInv == \A d \in LocalNodes : OnlyDelays(d) => Measured(Known, node[d], d)

\* OnlyDelays speaks of the configuration.
LEMMA SameDelays ==
  ASSUME NetTypes, NetTypes', [NetNext]_netVars, NEW d \in LocalNodes
  PROVE  /\ OnlyDelays(d)' = OnlyDelays(d)
         /\ OnlyDelays(d) => /\ node'[d].forward_to = node[d].forward_to
                             /\ node'[d].distribution = node[d].distribution
<1>1. \A n \in LocalNodes : /\ node'[n].kind = node[n].kind
                            /\ node[n].kind = "probabilistic" =>
                                 /\ node'[n].forward_to = node[n].forward_to
                                 /\ node'[n].distribution = node[n].distribution
  BY ConfigurationStays, SameConfiguration
<1>2. QED
  BY <1>1 DEF OnlyDelays

\* An event on its way to a node that is no counter is still in time.
LEMMA InTime ==
  ASSUME NetTypes, EachItemOnce, NEW d \in LocalNodes, OnlyDelays(d),
         Measured(Known, node[d], d),
         NEW e \in queue.entries, node[e.event.dst].kind # "counter"
  PROVE  e.event.src # d /\ e.event.time = e.event.data.sent
<1>1. e.event \in Known /\ e.event.dst \in LocalNodes
  BY KnownAfter DEF NetTypes, QueueOK, EntrySet, Msg
<1>2. e.event.dst # node[d].forward_to \/ node[d].forward_to = Nobody
  BY <1>1 DEF OnlyDelays
<1>3. QED
  BY <1>1, <1>2 DEF Measured

\* An iteration in which d, or a node that takes no time, handles an event.
LEMMA MeasuredIteration ==
  ASSUME NetTypes, NetTypes', EachItemOnce, [NetNext]_netVars,
         NEW e, NEW r, NEW locals, NEW outgoing, Iteration(e, r, locals, outgoing),
         NEW d \in LocalNodes, OnlyDelays(d), Measured(Known, node[d], d)
  PROVE  Measured(Known', node'[d], d)
<1> DEFINE id == e.event.dst
           ev == e.event
<1>1. /\ e \in queue.entries /\ id \in LocalNodes /\ node[id] \in Nodes /\ ev \in Msg
      /\ r \in OnEvent(id, node[id], ev)
  BY DEF Iteration
<1>2. /\ \A n \in LocalNodes \ {id} : node'[n] = node[n]
      /\ node'[id] = r.node
  BY OthersStay
<1>3. /\ node'[d].forward_to = node[d].forward_to
      /\ node'[d].distribution = node[d].distribution
  BY SameDelays
<1>4. CASE Arrives(e)
  <2>1. node[id].kind = "counter"
    BY <1>4 DEF Arrives
  <2>2. d # id
    BY <2>1 DEF OnlyDelays
  <2>3. Known' = Known
    BY <1>1, <1>4, KnownAfter
  <2>4. QED
    BY <1>2, <2>2, <2>3
<1>5. ASSUME node[id].kind # "counter"
      PROVE  /\ ev.src # d /\ ev.time = ev.data.sent
             /\ Dropped(node[id], r) \/ \E x, data : Forwarded(node[id], id, ev, r, x, data)
  <2>1. ev.src # d /\ ev.time = ev.data.sent
    BY <1>1, <1>5, InTime
  <2>2. node[id].kind \in {"delay", "probabilistic", "enhanced", "simple", "passthrough"}
    <3>1. CASE id = d
      BY <3>1 DEF OnlyDelays
    <3>2. CASE id # d
      BY <1>1, <1>5, <3>2 DEF OnlyDelays
    <3>3. QED
      BY <3>1, <3>2
  <2>3. QED
    BY <1>1, <2>1, <2>2, ForwardsOrDrops
<1>6. CASE Leaves(e, r)
  <2>1. /\ node[id].kind # "counter"
        /\ r.out = <<>> \/ \E m \in Sent : r.out = <<m>> /\ m.dst \notin LocalNodes
    BY <1>6 DEF Leaves
  <2>2. Known' = Known \ {ev}
    BY <1>1, <1>6, KnownAfter
  <2>3. Measured(Known', node[d], d)
    BY <1>5, <2>1, <2>2, MeasuredOthers
  <2>4. CASE d # id
    BY <1>2, <2>3, <2>4
  <2>5. CASE d = id
    <3>1. ASSUME NEW x, NEW data, Forwarded(node[id], id, ev, r, x, data)
          PROVE  FALSE
      <4>1. /\ r.out = <<Message(ev.time + x, id, node[id].forward_to, data)>>
            /\ node[id].forward_to # Nobody
        BY <3>1 DEF Forwarded
      <4>2. node[id].forward_to \in LocalNodes
        BY <2>5, <4>1 DEF OnlyDelays
      <4>3. PICK m \in Sent : r.out = <<m>> /\ m.dst \notin LocalNodes
        BY <2>1, <4>1
      <4>4. m = Message(ev.time + x, id, node[id].forward_to, data)
        BY <4>1, <4>3
      <4>5. m.dst = node[id].forward_to
        BY <4>4 DEF Message
      <4>6. QED
        BY <4>2, <4>3, <4>5
    <3>2. Dropped(node[id], r)
      BY <1>5, <2>1, <3>1
    <3>3. node[id].kind = "probabilistic"
      BY <2>5 DEF OnlyDelays
    <3>4. /\ node'[d].total_delay = node[d].total_delay
          /\ node'[d].min_delay = node[d].min_delay
          /\ node'[d].max_delay = node[d].max_delay
      BY <1>2, <2>5, <3>2, <3>3 DEF Dropped
    <3>5. QED
      BY <1>3, <2>3, <3>4, MeasuredSame
  <2>6. QED
    BY <2>4, <2>5
<1>7. ASSUME NEW m, Moves(e, r, m)
      PROVE  Measured(Known', node'[d], d)
  <2>1. /\ node[id].kind # "counter" /\ m \in Msg /\ r.out = <<m>>
        /\ m.data.item = ev.data.item /\ m.data.sent = ev.data.sent
    BY <1>7 DEF Moves
  <2> DEFINE K == Known \ {ev}
  <2>2. Known' = K \cup {m} /\ m \notin K
    BY <1>1, <1>7, <2>1, KnownAfter
  <2>3. Measured(K, node[d], d)
    BY <1>5, <2>1, MeasuredOthers
  <2>4. ~Dropped(node[id], r)
    BY <2>1 DEF Dropped
  <2>5. PICK x, data : Forwarded(node[id], id, ev, r, x, data)
    BY <1>5, <2>1, <2>4
  <2>6. r.out = <<Message(ev.time + x, id, node[id].forward_to, data)>> /\ x \in Nat
    BY <2>5 DEF Forwarded
  <2>7. m = Message(ev.time + x, id, node[id].forward_to, data)
    BY <2>1, <2>6
  <2>8. m.time = ev.time + x /\ m.src = id /\ m.dst = node[id].forward_to
    BY <2>7 DEF Message
  <2>9. CASE d # id
    <3>1. node[id].kind \in {"enhanced", "simple", "passthrough"}
      BY <1>1, <2>1, <2>9 DEF OnlyDelays
    <3>2. x = 0
      BY <2>5, <3>1 DEF Forwarded
    <3>3. ev.time \in Nat
      BY <1>1 DEF Msg
    <3>4. m.time = m.data.sent /\ m.src # d
      BY <1>5, <2>1, <2>8, <2>9, <3>2, <3>3
    <3> HIDE DEF K
    <3>5. Measured(Known', node[d], d)
      BY <2>2, <2>3, <3>4, MeasuredOthers
    <3>6. QED
      BY <1>2, <2>9, <3>5
  <2>10. CASE d = id
    <3>1. /\ node[d].kind = "probabilistic" /\ node[d].forward_to # Nobody
          /\ x \in Support(node[d].distribution)
          /\ node'[d].total_delay = node[d].total_delay + x
          /\ node'[d].min_delay = OptMin(node[d].min_delay, x)
          /\ node'[d].max_delay = OptMax(node[d].max_delay, x)
      BY <1>2, <2>5, <2>10 DEF Forwarded, OnlyDelays
    <3>2. Lag(m) = x
      <4>1. ev.time \in Nat /\ ev.data.sent = ev.time
        BY <1>1, <1>5, <2>1 DEF Msg
      <4>2. QED
        BY <2>1, <2>6, <2>8, <4>1 DEF Lag
    <3>3. IsFiniteSet(K) /\ \A fv \in K : Lag(fv) \in Int
      <4>1. Known \subseteq Msg /\ IsFiniteSet(Known)
        BY KnownType
      <4>2. IsFiniteSet(K)
        BY <4>1, FS_Subset
      <4>3. \A fv \in Msg : fv.time \in Nat /\ fv.data.sent \in Nat
        BY DEF Msg, Data
      <4>4. QED
        BY <4>1, <4>2, <4>3 DEF Lag
    <3>4. Support(node[d].distribution) \subseteq Nat
      <4>1. node[d].distribution \in Distribution(Delays)
        BY <1>1, <2>10, <3>1, NodeKinds DEF ProbabilisticDelayNode
      <4>2. QED
        BY <4>1, ExecutorAssumption DEF Distribution
    <3> HIDE DEF K
    <3>5. Measured(K \cup {m}, node'[d], d)
      BY <1>3, <2>2, <2>3, <2>6, <2>8, <2>10, <3>1, <3>2, <3>3, <3>4, MeasuredMore
    <3>6. QED
      BY <2>2, <3>5
  <2>11. QED
    BY <2>9, <2>10
<1>8. QED
  BY <1>4, <1>6, <1>7, IterationMoves

\* Every step keeps the measurements right.
LEMMA LatencyStep ==
  NetTypes /\ NetTypes' /\ EachItemOnce /\ LatencyInv /\ [NetNext]_netVars => LatencyInv'
<1> SUFFICES ASSUME NetTypes, NetTypes', EachItemOnce, LatencyInv, [NetNext]_netVars,
                    NEW d \in LocalNodes, OnlyDelays(d)'
             PROVE  Measured(Known', node'[d], d)
  BY DEF LatencyInv
<1>1. OnlyDelays(d) /\ Measured(Known, node[d], d)
  BY SameDelays DEF LatencyInv
<1>2. CASE InitNetwork
  <2>1. Known' = {}
    BY <1>2 DEF InitNetwork, InitExecutor, EmptyQueue, Known
  <2>2. node'[d] = NewProbabilistic(node[d].distribution, node[d].forward_to)
    BY <1>1, <1>2 DEF InitNetwork, NetTypes, OnlyDelays, Reset
  <2>3. /\ node'[d].total_delay = 0 /\ node'[d].min_delay = <<>> /\ node'[d].max_delay = <<>>
    BY <2>2 DEF NewProbabilistic
  <2>4. Behind(Known', d) = {}
    BY <2>1 DEF Behind
  <2>5. SumFunctionOnSet([ev \in Behind(Known', d) |-> Lag(ev)], Behind(Known', d)) = 0
    BY <2>4, SumZero, FS_EmptySet
  <2>6. QED
    BY <2>1, <2>3, <2>4, <2>5 DEF Measured
<1>3. ASSUME NEW t \in 0..MaxTime, NEW matches \in Contents, SourceTick(t, matches)
      PROVE  Measured(Known', node'[d], d)
  <2>1. /\ node'[d] = node[d] /\ arrived' = arrived
    BY <1>3, SourceAdds
  <2>2. PICK m \in Msg : /\ m.time = t /\ m.src = Source /\ m.data.sent = t
                         /\ Known' = Known \cup {m}
    BY <1>3, KnownMore
  <2>5. m.src # d
    BY <2>2, TheSource
  <2>6. QED
    BY <1>1, <2>1, <2>2, <2>5, MeasuredOthers
<1>4. CASE HandleFirst
  <2>1. PICK e, r, locals, outgoing : Iteration(e, r, locals, outgoing)
    BY <1>4, HandledStep
  <2>2. QED
    BY <1>1, <2>1, MeasuredIteration
<1>5. CASE UNCHANGED <<queue, arrived, node>>
  <2>1. Known' = Known
    BY <1>5 DEF Known
  <2>2. QED
    BY <1>1, <1>5, <2>1
<1>6. QED
  BY <1>2, <1>3, <1>4, <1>5
     DEF NetNext, StartRun, BeginRun, Return, ReturnFromRun, netVars, vars

\* A node as made has measured nothing.
LEMMA LatencyInit == NetInit => LatencyInv
<1> SUFFICES ASSUME NetInit, NEW d \in LocalNodes, OnlyDelays(d)
             PROVE  Measured(Known, node[d], d)
  BY DEF LatencyInv
<1>1. Known = {}
  BY DEF NetInit, Init, EmptyQueue, Known
<1>2. node[d] = Reset(node[d])
  <2>1. node \in Networks
    BY DEF NetInit
  <2>2. d \in DOMAIN node
    BY <2>1, NetworkAssumption
  <2>3. QED
    BY <2>1, <2>2, NetworkAssumption
<1>3. node[d] = NewProbabilistic(node[d].distribution, node[d].forward_to)
  BY <1>2 DEF OnlyDelays, Reset
<1>4. /\ node[d].total_delay = 0 /\ node[d].min_delay = <<>> /\ node[d].max_delay = <<>>
  BY <1>3 DEF NewProbabilistic
<1>5. Behind(Known, d) = {}
  BY <1>1 DEF Behind
<1>6. SumFunctionOnSet([ev \in Behind(Known, d) |-> Lag(ev)], Behind(Known, d)) = 0
  BY <1>5, SumZero, FS_EmptySet
<1>7. QED
  BY <1>1, <1>4, <1>5, <1>6 DEF Measured

\* The statistics are those of the measured events.
LEMMA MeasuredIsReported ==
  ASSUME NetTypes, LatencyInv
  PROVE  LatencyStatistics
<1> SUFFICES ASSUME NEW d \in LocalNodes, OnlyDelays(d)
             PROVE  LET behind == {ev \in Known : ev.src = d}
                        lag == [ev \in behind |-> ev.time - ev.data.sent]
                        lags == {lag[ev] : ev \in behind}
                    IN  /\ node[d].total_delay = SumFunction(lag)
                        /\ lags \subseteq Support(node[d].distribution)
                        /\ lags = {} => node[d].min_delay = <<>> /\ node[d].max_delay = <<>>
                        /\ lags # {} => /\ node[d].min_delay = <<CHOOSE x \in lags : \A y \in lags : x <= y>>
                                        /\ node[d].max_delay = <<CHOOSE x \in lags : \A y \in lags : x >= y>>
  BY DEF LatencyStatistics, OnlyDelays
<1> DEFINE n == node[d]
           B == Behind(Known, d)
           lag == [ev \in B |-> Lag(ev)]
           lags == {lag[ev] : ev \in B}
<1>1. Measured(Known, n, d)
  BY DEF LatencyInv
<1> HIDE DEF n
<1>2. n.total_delay = SumFunction(lag)
  BY <1>1 DEF Measured, SumFunction
<1>3. lags \subseteq Support(n.distribution)
  BY <1>1 DEF Measured, Behind
<1>4. lags \subseteq Nat
  <2>1. Support(n.distribution) \subseteq Nat
    <3>1. n \in ProbabilisticDelayNode(Ids, Delays)
      BY NodeKinds DEF n, NetTypes, OnlyDelays
    <3>2. QED
      BY <3>1, ExecutorAssumption DEF ProbabilisticDelayNode, Distribution
  <2>2. QED
    BY <1>3, <2>1
<1>5. lags = {} => n.min_delay = <<>> /\ n.max_delay = <<>>
  BY <1>1 DEF Measured
<1>6. ASSUME lags # {}
      PROVE  /\ n.min_delay = <<CHOOSE x \in lags : \A y \in lags : x <= y>>
             /\ n.max_delay = <<CHOOSE x \in lags : \A y \in lags : x >= y>>
  <2>1. PICK ev, fv \in B : /\ n.min_delay = <<Lag(ev)>> /\ n.max_delay = <<Lag(fv)>>
                            /\ \A gv \in B : Lag(ev) <= Lag(gv) /\ Lag(gv) <= Lag(fv)
    BY <1>1, <1>6 DEF Measured
  <2>2. /\ Lag(ev) \in lags /\ Lag(fv) \in lags
        /\ \A y \in lags : Lag(ev) <= y /\ Lag(fv) >= y
    <3>1. \A gv \in B : lag[gv] = Lag(gv)
      OBVIOUS
    <3>2. lag[ev] \in lags /\ lag[fv] \in lags
      BY <2>1
    <3>3. \A y \in lags : \E gv \in B : y = Lag(gv)
      BY <3>1
    <3>4. Lag(ev) \in lags /\ Lag(fv) \in lags
      BY <2>1, <3>1, <3>2
    <3> HIDE DEF lag, lags, B
    <3>5. QED
      BY <1>4, <2>1, <3>3, <3>4
  <2> DEFINE a == Lag(ev)
             b == Lag(fv)
  <2> HIDE DEF a, b, lags
  <2>3. a \in lags /\ b \in lags /\ \A y \in lags : a <= y /\ b >= y
    BY <2>2 DEF a, b
  <2>4. a = CHOOSE x \in lags : \A y \in lags : x <= y
    <3>1. \A x \in lags : (\A y \in lags : x <= y) => x = a
      BY <1>4, <2>3
    <3>2. QED
      BY <2>3, <3>1
  <2>5. b = CHOOSE x \in lags : \A y \in lags : x >= y
    <3>1. \A x \in lags : (\A y \in lags : x >= y) => x = b
      BY <1>4, <2>3
    <3>2. QED
      BY <2>3, <3>1
  <2>6. n.min_delay = <<a>> /\ n.max_delay = <<b>>
    BY <2>1 DEF a, b
  <2>7. QED
    BY <2>4, <2>5, <2>6
<1>7. QED
  BY <1>2, <1>3, <1>5, <1>6 DEF n, Behind, Lag

\* LatencyStatistics: the delays a probabilistic node reports, total, minimum and
\* maximum, are those its events have had, and lie in its distribution's range.
THEOREM LatencyIsReported == NetSpec => []LatencyStatistics
  BY LatencyInit, LatencyStep, NetTyped, ItemsOnce, MeasuredIsReported, PTL DEF NetSpec

-------------------------------------------------------------------------------
\* SampledAndNumbered: what an enhanced pass-through node counts and numbers.

\* One more in a division: the quotient advances when the remainder is 0 again.
LEMMA NextQuotient ==
  ASSUME NEW r \in Nat, NEW k \in Nat \ {0}
  PROVE  (r + 1) \div k = (r \div k) + (IF (r + 1) % k = 0 THEN 1 ELSE 0)
<1> DEFINE q == r \div k
           m == r % k
<1>1. q \in Nat /\ m \in 0..(k - 1) /\ r = q * k + m
  OBVIOUS
<1>2. ASSUME NEW a \in Nat, NEW b \in 0..(k - 1)
      PROVE  (a * k + b) \div k = a /\ (a * k + b) % k = b
  <2> DEFINE t == a * k + b
  <2>1. t \in Nat
    OBVIOUS
  <2>2. t \div k = a
    OBVIOUS
  <2>3. t = (t \div k) * k + (t % k)
    BY <2>1
  <2>4. QED
    BY <2>1, <2>2, <2>3
<1> HIDE DEF q, m
<1>3. CASE m = k - 1
  <2>1. r + 1 = (q + 1) * k + 0 /\ q + 1 \in Nat /\ 0 \in 0..(k - 1)
    BY <1>1, <1>3
  <2>2. (r + 1) \div k = q + 1 /\ (r + 1) % k = 0
    <3> DEFINE a == q + 1
    <3>1. a \in Nat /\ r + 1 = a * k + 0
      BY <2>1
    <3> HIDE DEF a
    <3>2. (a * k + 0) \div k = a /\ (a * k + 0) % k = 0
      BY <1>2, <2>1, <3>1
    <3>3. QED
      BY <3>1, <3>2 DEF a
  <2>3. QED
    BY <2>2 DEF q
<1>4. CASE m # k - 1
  <2> DEFINE b == m + 1
  <2>1. r + 1 = q * k + b /\ b \in 0..(k - 1) /\ b # 0
    BY <1>1, <1>4
  <2> HIDE DEF b
  <2>2. (q * k + b) \div k = q /\ (q * k + b) % k = b
    BY <1>1, <1>2, <2>1
  <2>3. (r + 1) \div k = q /\ (r + 1) % k # 0
    BY <2>1, <2>2
  <2>4. q + 0 = q
    BY <1>1
  <2>5. QED
    BY <2>3, <2>4 DEF q
<1>5. QED
  BY <1>3, <1>4

\* What the counters of an enhanced pass-through node are to each other.
EnhancedCounts(n) ==
  /\ n.event_counter = n.received
  /\ Numbers(n) => n.sequence = n.passed
  /\ n.forward_to # Nobody /\ n.filter.mode = "Sample" => n.passed = n.received \div n.filter.rate

\* They stay so when it handles an event.
LEMMA EnhancedCountsKept ==
  ASSUME NEW n \in EnhancedPassThroughNode(Ids), NEW id, NEW ev, NEW r \in EnhancedOnEvent(id, n, ev),
         n.forward_to \in Ids \cup {Nobody}, EnhancedCounts(n)
  PROVE  EnhancedCounts(r.node)
<1> DEFINE p == r.node
<1>1. PICK passes \in Verdicts(r.node, ev) :
              /\ ~passes => /\ r.node.filtered = n.filtered + 1 /\ r.node.passed = n.passed
                            /\ r.node.sequence = n.sequence /\ r.out = <<>>
              /\ passes => r.node.filtered = n.filtered
              /\ passes /\ n.forward_to = Nobody =>
                   /\ r.node.passed = n.passed /\ r.node.sequence = n.sequence /\ r.out = <<>>
              /\ passes /\ n.forward_to # Nobody =>
                   /\ r.node.passed = n.passed + 1
                   /\ r.node.sequence = n.sequence + (IF Numbers(n) THEN 1 ELSE 0)
                   /\ r.out = <<Message(ev.time, id, n.forward_to, Transformed(id, n, ev.data))>>
  BY EnhancedNode
<1>2. /\ p.forward_to = n.forward_to /\ p.filter = n.filter /\ p.transform = n.transform
      /\ p.received = n.received + 1 /\ p.event_counter = n.event_counter + 1
  BY EnhancedNode
<1>3. /\ passes \in Verdicts(p, ev)
      /\ ~passes \/ n.forward_to = Nobody => p.passed = n.passed /\ p.sequence = n.sequence
      /\ passes /\ n.forward_to # Nobody =>
           p.passed = n.passed + 1 /\ p.sequence = n.sequence + (IF Numbers(n) THEN 1 ELSE 0)
  BY <1>1
<1>4. /\ n.event_counter = n.received
      /\ Numbers(n) => n.sequence = n.passed
      /\ n.forward_to # Nobody /\ n.filter.mode = "Sample" => n.passed = n.received \div n.filter.rate
  BY DEF EnhancedCounts
<1>5. n.received \in Nat /\ n.passed \in Nat /\ n.filter \in FilterMode
  BY DEF EnhancedPassThroughNode
<1> HIDE DEF p
<1>6. Numbers(p) = Numbers(n)
  BY <1>2 DEF Numbers
<1>7. Numbers(p) => p.sequence = p.passed
  BY <1>3, <1>4, <1>6
<1>8. ASSUME p.forward_to # Nobody, p.filter.mode = "Sample"
      PROVE  p.passed = p.received \div p.filter.rate
  <2> DEFINE rate == n.filter.rate
  <2>1. rate \in Nat \ {0}
    BY <1>2, <1>5, <1>8 DEF FilterMode, PassAll, MatchKey, DropRandom
  <2>2. passes <=> p.event_counter % p.filter.rate = 0
    BY <1>3, <1>8 DEF Verdicts
  <2>3. passes <=> (n.received + 1) % rate = 0
    BY <1>2, <1>4, <2>2
  <2> HIDE DEF rate
  <2>4. (n.received + 1) \div rate = (n.received \div rate) + (IF (n.received + 1) % rate = 0 THEN 1 ELSE 0)
    BY <1>5, <2>1, NextQuotient
  <2>5. n.passed = n.received \div rate
    BY <1>2, <1>4, <1>8 DEF rate
  <2>6. p.passed = IF passes THEN n.passed + 1 ELSE n.passed
    BY <1>2, <1>3, <1>8
  <2>7. p.passed = (n.received + 1) \div rate
    <3> DEFINE before == n.received \div rate
               after == (n.received + 1) \div rate
               whole == (n.received + 1) % rate = 0
    <3> HIDE DEF before, after, whole
    <3>1. before \in Nat
      BY <1>5, <2>5 DEF before
    <3>2. /\ after = before + (IF whole THEN 1 ELSE 0) /\ n.passed = before
          /\ passes <=> whole
      BY <2>3, <2>4, <2>5 DEF before, after, whole
    <3>3. p.passed = after
      BY <2>6, <3>1, <3>2
    <3>4. QED
      BY <3>3 DEF after
  <2>8. QED
    BY <1>2, <2>7 DEF rate
<1>9. p.event_counter = p.received
  BY <1>2, <1>4
<1>10. QED
  BY <1>7, <1>8, <1>9 DEF EnhancedCounts, p

EnhancedInv == \A p \in LocalNodes : node[p].kind = "enhanced" => EnhancedCounts(node[p])

\* They are so in a node as made.
LEMMA NewEnhancedCounts ==
  ASSUME NEW n \in EnhancedPassThroughNode(Ids)
  PROVE  EnhancedCounts(Reset(n))
<1>1. Reset(n) = NewEnhanced(n.filter, n.transform, n.forward_to)
  BY DEF EnhancedPassThroughNode, Reset
<1> DEFINE p == Reset(n)
<1>2. /\ p.event_counter = 0 /\ p.received = 0 /\ p.sequence = 0 /\ p.passed = 0
      /\ p.filter = n.filter
  BY <1>1 DEF NewEnhanced
<1> HIDE DEF p
<1>3. n.filter.mode = "Sample" => n.filter.rate \in Nat \ {0}
  BY DEF EnhancedPassThroughNode, FilterMode, PassAll, MatchKey, DropRandom
<1>4. \A k \in Nat \ {0} : 0 \div k = 0
  OBVIOUS
<1>5. QED
  BY <1>2, <1>3, <1>4 DEF EnhancedCounts, p

\* Every step keeps them so.
LEMMA EnhancedStep == NetTypes /\ NetTypes' /\ EnhancedInv /\ [NetNext]_netVars => EnhancedInv'
<1> SUFFICES ASSUME NetTypes, NetTypes', EnhancedInv, [NetNext]_netVars,
                    NEW p \in LocalNodes, node'[p].kind = "enhanced"
             PROVE  EnhancedCounts(node'[p])
  BY DEF EnhancedInv
<1>1. node[p].kind = "enhanced" /\ node[p] \in Nodes
  BY ConfigurationStays, SameConfiguration
<1>2. node[p] \in EnhancedPassThroughNode(Ids) /\ EnhancedCounts(node[p])
  BY <1>1, NodeKinds DEF EnhancedInv
<1>3. CASE InitNetwork
  <2>1. node'[p] = Reset(node[p])
    BY <1>3 DEF InitNetwork, NetTypes
  <2>2. QED
    BY <1>2, <2>1, NewEnhancedCounts
<1>4. ASSUME NEW t \in 0..MaxTime, NEW matches \in Contents, SourceTick(t, matches)
      PROVE  EnhancedCounts(node'[p])
  BY <1>2, <1>4, SourceAdds
<1>5. CASE HandleFirst
  <2>1. PICK e, r, locals, outgoing : Iteration(e, r, locals, outgoing)
    BY <1>5, HandledStep
  <2>2. CASE p # e.event.dst
    BY <1>2, <2>1, <2>2, OthersStay
  <2>3. CASE p = e.event.dst
    <3>1. r \in OnEvent(p, node[p], e.event) /\ node'[p] = r.node
      BY <2>1, <2>3, OthersStay DEF Iteration
    <3>2. r \in EnhancedOnEvent(p, node[p], e.event)
      BY <1>1, <3>1 DEF OnEvent
    <3>3. node[p].forward_to \in Ids \cup {Nobody}
      BY <1>2 DEF EnhancedPassThroughNode
    <3>4. QED
      BY <1>2, <3>1, <3>2, <3>3, EnhancedCountsKept
  <2>4. QED
    BY <2>2, <2>3
<1>6. CASE UNCHANGED node
  BY <1>2, <1>6
<1>7. QED
  BY <1>3, <1>4, <1>5, <1>6 DEF NetNext, StartRun, Return, netVars

\* Every enhanced node counts so, in every network.
LEMMA EnhancedCounted == NetSpec => []EnhancedInv
<1>1. NetInit => EnhancedInv
  <2> SUFFICES ASSUME NetInit, NEW p \in LocalNodes, node[p].kind = "enhanced"
               PROVE  EnhancedCounts(node[p])
    BY DEF EnhancedInv
  <2>1. node[p] = Reset(node[p]) /\ node[p] \in Nodes
    <3>1. node \in Networks
      BY DEF NetInit
    <3>2. NetTypes
      BY NetInitTypes
    <3>3. p \in DOMAIN node /\ node[p] \in Nodes
      BY <3>2 DEF NetTypes
    <3>4. QED
      BY <3>1, <3>3, NetworkAssumption
  <2>2. QED
    BY <2>1, NodeKinds, NewEnhancedCounts
<1>2. QED
  BY <1>1, EnhancedStep, NetTyped, PTL DEF NetSpec

\* The events that carry a number of node p's, and the number.
Mine(K, p) == {ev \in K : ev.data.number # <<>> /\ ev.data.number[1].by = p}
Number(ev) == ev.data.number[1].seq

\* They are on nodes of S, one for each of the numbers up to what p passed.
Numbered(K, n, p, S) ==
  /\ \A ev \in Mine(K, p) : ev.dst \in S /\ Number(ev) \in 0..(n.passed - 1)
  /\ \A ev, fv \in Mine(K, p) : Number(ev) = Number(fv) => ev = fv
  /\ \A k \in 0..(n.passed - 1) : \E ev \in Mine(K, p) : Number(ev) = k

\* Events with others' numbers, or none, come and go.
LEMMA NumberedOthers ==
  ASSUME NEW K, NEW L, NEW n, NEW q, NEW p, NEW S, Numbered(K, n, p, S), q.passed = n.passed,
         \A ev \in K \cup L : \/ ev \in K /\ ev \in L
                              \/ ev.data.number = <<>>
                              \/ ev.data.number[1].by # p
  PROVE  Numbered(L, q, p, S)
<1>1. Mine(L, p) = Mine(K, p)
  BY DEF Mine
<1>2. QED
  BY <1>1 DEF Numbered

\* One moves on.
LEMMA NumberedMoved ==
  ASSUME NEW K, NEW n, NEW p, NEW S, Numbered(K, n, p, S),
         NEW ev \in Mine(K, p), NEW m, m.data = ev.data, m.dst \in S
  PROVE  Numbered((K \ {ev}) \cup {m}, n, p, S)
<1> DEFINE L == (K \ {ev}) \cup {m}
<1>1. Mine(L, p) = (Mine(K, p) \ {ev}) \cup {m} /\ Number(m) = Number(ev)
  BY DEF Mine, Number
<1> HIDE DEF L
<1>2. /\ \A fv \in Mine(K, p) : fv.dst \in S /\ Number(fv) \in 0..(n.passed - 1)
      /\ \A fv, gv \in Mine(K, p) : Number(fv) = Number(gv) => fv = gv
      /\ \A k \in 0..(n.passed - 1) : \E fv \in Mine(K, p) : Number(fv) = k
  BY DEF Numbered
<1>3. \A fv \in Mine(L, p) : fv.dst \in S /\ Number(fv) \in 0..(n.passed - 1)
  BY <1>1, <1>2
<1>4. \A fv, gv \in Mine(L, p) : Number(fv) = Number(gv) => fv = gv
  BY <1>1, <1>2
<1>5. \A k \in 0..(n.passed - 1) : \E fv \in Mine(L, p) : Number(fv) = k
  BY <1>1, <1>2
<1>6. Numbered(L, n, p, S)
  BY <1>3, <1>4, <1>5 DEF Numbered
<1>7. QED
  BY <1>6 DEF L

\* p gives one more number, the next.
LEMMA NumberedMore ==
  ASSUME NEW K, NEW n, NEW p, NEW S, Numbered(K, n, p, S), n.passed \in Nat,
         NEW m, m.data.number = <<[by |-> p, seq |-> n.passed]>>, m.dst \in S,
         NEW q, q.passed = n.passed + 1
  PROVE  Numbered(K \cup {m}, q, p, S)
<1> DEFINE L == K \cup {m}
           c == n.passed
<1>1. Mine(L, p) = Mine(K, p) \cup {m} /\ Number(m) = c
  <2>1. m.data.number # <<>> /\ m.data.number[1].by = p /\ m.data.number[1].seq = c
    OBVIOUS
  <2>2. QED
    BY <2>1 DEF Mine, Number
<1>2. /\ \A fv \in Mine(K, p) : fv.dst \in S /\ Number(fv) \in 0..(c - 1)
      /\ \A fv, gv \in Mine(K, p) : Number(fv) = Number(gv) => fv = gv
      /\ \A k \in 0..(c - 1) : \E fv \in Mine(K, p) : Number(fv) = k
  BY DEF Numbered
<1>3. c \in Nat /\ q.passed - 1 = c
  OBVIOUS
<1> HIDE DEF L, c
<1>4. \A fv \in Mine(L, p) : fv.dst \in S /\ Number(fv) \in 0..c
  BY <1>1, <1>2, <1>3
<1>5. \A fv, gv \in Mine(L, p) : Number(fv) = Number(gv) => fv = gv
  BY <1>1, <1>2, <1>3
<1>6. \A k \in 0..c : \E fv \in Mine(L, p) : Number(fv) = k
  BY <1>1, <1>2, <1>3
<1>7. Numbered(L, q, p, S)
  BY <1>3, <1>4, <1>5, <1>6 DEF Numbered
<1>8. QED
  BY <1>7 DEF L

\* A node leaves an event's number, or writes one of its own.
LEMMA NumberOrOwn ==
  ASSUME NEW n \in Nodes, NEW id \in LocalNodes, NEW ev \in Msg, NEW r \in OnEvent(id, n, ev),
         NEW m, r.out = <<m>>
  PROVE  m.data.number = ev.data.number \/ m.data.number[1].by = id
<1>1. CASE n.kind \in {"delay", "probabilistic", "enhanced", "simple", "passthrough"}
  <2>1. ~Dropped(n, r)
    BY DEF Dropped
  <2>2. PICK x, data : Forwarded(n, id, ev, r, x, data)
    BY <1>1, <2>1, ForwardsOrDrops
  <2>3. m.data = data
    <3>1. r.out = <<Message(ev.time + x, id, n.forward_to, data)>>
      BY <2>2 DEF Forwarded
    <3>2. m = Message(ev.time + x, id, n.forward_to, data)
      BY <3>1
    <3>3. QED
      BY <3>2 DEF Message
  <2>4. CASE n.kind # "enhanced"
    BY <2>2, <2>3, <2>4 DEF Forwarded
  <2>5. CASE n.kind = "enhanced"
    <3>1. n \in EnhancedPassThroughNode(Ids) /\ data = Transformed(id, n, ev.data)
      BY <2>2, <2>5, NodeKinds DEF Forwarded
    <3>2. ev.data \in Data(Ids)
      BY DEF Msg
    <3> DEFINE number == <<[by |-> id, seq |-> n.sequence]>>
               content == ev.data
    <3>3. number[1].by = id
      OBVIOUS
    <3> HIDE DEF number, content
    <3>4. /\ [content EXCEPT !.number = number].number = number
          /\ [content EXCEPT !.number = number, !.matches = FALSE].number = number
      BY <3>2 DEF Data, content
    <3>5. \/ data = [content EXCEPT !.number = number]
          \/ data = [content EXCEPT !.number = number, !.matches = FALSE]
          \/ data = content
      BY <3>1 DEF Transformed, number, content
    <3>6. data.number = number \/ data = ev.data
      BY <3>4, <3>5 DEF content
    <3>7. QED
      BY <2>3, <3>3, <3>6
  <2>6. QED
    BY <2>4, <2>5
<1>2. CASE n.kind = "echo"
  <2>1. r.out = <<Message(ev.time + n.delay, id, ev.src, ev.data)>>
    BY <1>2 DEF OnEvent, EchoOnEvent, Result
  <2>2. m = Message(ev.time + n.delay, id, ev.src, ev.data)
    BY <2>1
  <2>3. QED
    BY <2>2 DEF Message
<1>3. CASE n.kind \in {"counter", "source"}
  <2>1. r.out = <<>>
    BY <1>3 DEF OnEvent, CounterOnEvent, Result
  <2>2. Len(r.out) = 1 /\ Len(<<>>) = 0
    OBVIOUS
  <2>3. FALSE
    BY <2>1, <2>2
  <2>4. QED
    BY <2>3
<1>4. QED
  BY <1>1, <1>2, <1>3, NodeKinds DEF Kinds

\* p numbers what it forwards, to nodes that lose none of it.
LosesNone(p, S) ==
  /\ node[p].kind = "enhanced" /\ Numbers(node[p])
  /\ node[p].forward_to \in S /\ Keeps(S)

NumberedInv ==
  \A p \in LocalNodes : \A S \in SUBSET (LocalNodes \ {p}) :
    LosesNone(p, S) => Numbered(Known, node[p], p, S)

\* LosesNone speaks of the configuration.
LEMMA SameNumbering ==
  ASSUME NetTypes, NetTypes', [NetNext]_netVars,
         NEW p \in LocalNodes, NEW S \in SUBSET (LocalNodes \ {p})
  PROVE  LosesNone(p, S)' => LosesNone(p, S)
<1>1. \A n \in LocalNodes :
        /\ node'[n].kind = node[n].kind
        /\ node[n].kind \in {"delay", "probabilistic", "enhanced", "simple", "passthrough"} =>
             node'[n].forward_to = node[n].forward_to
        /\ node[n].kind = "enhanced" => node'[n].transform = node[n].transform
  BY ConfigurationStays, SameConfiguration
<1>2. Keeps(S)' => Keeps(S)
  BY <1>1 DEF Keeps
<1>3. QED
  BY <1>1, <1>2 DEF LosesNone, Numbers

\* An iteration: p, a node of S, or another one handles an event.
LEMMA NumberedIteration ==
  ASSUME NetTypes, NetTypes', EachItemOnce, EnhancedInv, [NetNext]_netVars,
         NEW e, NEW r, NEW locals, NEW outgoing, Iteration(e, r, locals, outgoing),
         NEW p \in LocalNodes, NEW S \in SUBSET (LocalNodes \ {p}), LosesNone(p, S),
         Numbered(Known, node[p], p, S)
  PROVE  Numbered(Known', node'[p], p, S)
<1> DEFINE id == e.event.dst
           ev == e.event
           n == node[id]
<1>1. /\ e \in queue.entries /\ id \in LocalNodes /\ n \in Nodes /\ ev \in Msg
      /\ r \in OnEvent(id, n, ev)
  BY DEF Iteration
<1>2. /\ \A q \in LocalNodes \ {id} : node'[q] = node[q]
      /\ node'[id] = r.node
  BY OthersStay
<1>3. ev \in Known /\ \A fv \in Mine(Known, p) : fv.dst \in S
  BY <1>1, KnownAfter DEF Numbered
<1>4. CASE Arrives(e)
  <2>1. p # id
    BY <1>4 DEF Arrives, LosesNone
  <2>2. Known' = Known
    BY <1>1, <1>4, KnownAfter
  <2>3. QED
    BY <1>2, <2>1, <2>2
<1>5. CASE id \notin S /\ ~Arrives(e) /\ id # p
  <2>1. ev \notin Mine(Known, p)
    BY <1>3, <1>5
  <2>2. ev.data.number = <<>> \/ ev.data.number[1].by # p
    BY <1>3, <2>1 DEF Mine
  <2>3. node'[p] = node[p]
    BY <1>2, <1>5
  <2>4. CASE Leaves(e, r)
    <3>1. Known' = Known \ {ev}
      BY <1>1, <2>4, KnownAfter
    <3>2. QED
      BY <2>2, <2>3, <3>1, NumberedOthers
  <2>5. ASSUME NEW m, Moves(e, r, m)  PROVE Numbered(Known', node'[p], p, S)
    <3>1. Known' = (Known \ {ev}) \cup {m} /\ r.out = <<m>>
      BY <1>1, <2>5, KnownAfter DEF Moves
    <3>2. m.data.number = <<>> \/ m.data.number[1].by # p
      BY <1>1, <1>5, <2>2, <3>1, NumberOrOwn
    <3> HIDE DEF ev
    <3>3. QED
      BY <2>2, <2>3, <3>1, <3>2, NumberedOthers
  <2>6. QED
    BY <1>5, <2>4, <2>5, IterationMoves
<1>6. CASE id \in S /\ ~Arrives(e)
  <2>0. p # id /\ node'[p] = node[p]
    BY <1>2, <1>6
  <2>1. PICK m : Leaves(e, r) \/ Moves(e, r, m)
    BY <1>6, IterationMoves
  <2>2. n.kind # "counter"
    BY <2>1 DEF Leaves, Moves
  <2>3. /\ n.kind \in {"simple", "passthrough", "delay", "probabilistic"}
        /\ n.forward_to \in S
    BY <1>6, <2>2 DEF LosesNone, Keeps
  <2>4. n.forward_to \in LocalNodes /\ n.forward_to # Nobody
    BY <2>3, NetworkAssumption
  <2>5. PICK x, data : Forwarded(n, id, ev, r, x, data)
    <3>1. ~Dropped(n, r)
      BY <2>3, <2>4 DEF Dropped
    <3>2. QED
      BY <1>1, <2>3, <3>1, ForwardsOrDrops
  <2>6. r.out = <<Message(ev.time + x, id, n.forward_to, data)>> /\ data = ev.data
    BY <2>3, <2>5 DEF Forwarded
  <2> DEFINE w == Message(ev.time + x, id, n.forward_to, data)
  <2>7. w.dst = n.forward_to /\ w.data = ev.data /\ r.out = <<w>>
    BY <2>6 DEF Message
  <2> HIDE DEF w
  <2>8. Moves(e, r, w)
    <3>1. ~Leaves(e, r)
      <4>1. \A u : <<w>> = <<u>> => u = w
        OBVIOUS
      <4>2. QED
        BY <2>4, <2>7, <4>1 DEF Leaves
    <3>2. Moves(e, r, m) /\ r.out = <<m>>
      BY <2>1, <3>1 DEF Moves
    <3>3. m = w
      BY <2>7, <3>2
    <3>4. QED
      BY <3>2, <3>3
  <2>9. Known' = (Known \ {ev}) \cup {w}
    BY <1>1, <2>8, KnownAfter
  <2>10. CASE ev \in Mine(Known, p)
    <3> HIDE DEF ev
    <3>1. Numbered((Known \ {ev}) \cup {w}, node[p], p, S)
      BY <2>3, <2>7, <2>10, NumberedMoved
    <3>2. QED
      BY <2>0, <2>9, <3>1
  <2>11. CASE ev \notin Mine(Known, p)
    <3>1. ev.data.number = <<>> \/ ev.data.number[1].by # p
      BY <1>3, <2>11 DEF Mine
    <3>2. w.data.number = <<>> \/ w.data.number[1].by # p
      BY <2>7, <3>1
    <3> HIDE DEF ev
    <3>3. QED
      BY <2>0, <2>9, <3>1, <3>2, NumberedOthers
  <2>12. QED
    BY <2>10, <2>11
<1>7. CASE id = p /\ ~Arrives(e)
  <2>1. /\ n.kind = "enhanced" /\ Numbers(n) /\ n.forward_to \in S
        /\ n \in EnhancedPassThroughNode(Ids) /\ EnhancedCounts(n)
    BY <1>1, <1>7, NodeKinds DEF LosesNone, EnhancedInv
  <2>2. n.forward_to \in LocalNodes /\ n.forward_to # Nobody
    BY <2>1, NetworkAssumption
  <2>3. r \in EnhancedOnEvent(id, n, ev)
    BY <1>1, <2>1 DEF OnEvent
  <2>4. PICK passes \in BOOLEAN :
          /\ ~passes => r.node.passed = n.passed /\ r.out = <<>>
          /\ passes => /\ r.node.passed = n.passed + 1
                       /\ r.out = <<Message(ev.time, id, n.forward_to, Transformed(id, n, ev.data))>>
    <3>1. PICK passes \in Verdicts(r.node, ev) :
              /\ ~passes => /\ r.node.filtered = n.filtered + 1 /\ r.node.passed = n.passed
                            /\ r.node.sequence = n.sequence /\ r.out = <<>>
              /\ passes => r.node.filtered = n.filtered
              /\ passes /\ n.forward_to = Nobody =>
                   /\ r.node.passed = n.passed /\ r.node.sequence = n.sequence /\ r.out = <<>>
              /\ passes /\ n.forward_to # Nobody =>
                   /\ r.node.passed = n.passed + 1
                   /\ r.node.sequence = n.sequence + (IF Numbers(n) THEN 1 ELSE 0)
                   /\ r.out = <<Message(ev.time, id, n.forward_to, Transformed(id, n, ev.data))>>
      BY <2>1, <2>3, EnhancedNode
    <3>2. CASE passes
      BY <2>2, <3>1, <3>2
    <3>3. CASE ~passes
      BY <3>1, <3>3
    <3>4. QED
      BY <3>2, <3>3
  <2>5. ev.data.number = <<>> \/ ev.data.number[1].by # p
    <3>1. ev \notin Mine(Known, p)
      BY <1>3, <1>7
    <3>2. QED
      BY <1>3, <3>1 DEF Mine
  <2>6. node'[p].passed = r.node.passed /\ n = node[p]
    BY <1>2, <1>7
  <2>7. CASE passes
    <3> DEFINE w == Message(ev.time, id, n.forward_to, Transformed(id, n, ev.data))
    <3>1. w.dst = n.forward_to /\ w.data = Transformed(id, n, ev.data) /\ r.out = <<w>>
      BY <2>4, <2>7 DEF Message
    <3> HIDE DEF w
    <3>2. Known' = (Known \ {ev}) \cup {w}
      <4>1. \A u : <<w>> = <<u>> => u = w
        OBVIOUS
      <4>2. ~Leaves(e, r)
        BY <2>1, <2>2, <3>1, <4>1 DEF Leaves
      <4>3. PICK m : Moves(e, r, m)
        BY <1>7, <4>2, IterationMoves
      <4>4. m = w
        BY <3>1, <4>3 DEF Moves
      <4>5. QED
        BY <1>1, <4>3, <4>4, KnownAfter
    <3>3. w.data.number = <<[by |-> p, seq |-> n.passed]>>
      <4>1. n.sequence = n.passed
        BY <2>1 DEF EnhancedCounts
      <4>2. ev.data \in Data(Ids) /\ id \in Ids
        BY <1>1 DEF Msg, Ids
      <4>3. QED
        BY <1>7, <2>1, <3>1, <4>1, <4>2, TransformedData
    <3>4. n.passed \in Nat
      BY <2>1 DEF EnhancedPassThroughNode
    <3> DEFINE K == Known \ {ev}
    <3>5. Numbered(K, node[p], p, S)
      BY <2>5, NumberedOthers
    <3> HIDE DEF ev, K
    <3>6. Numbered(K \cup {w}, node'[p], p, S)
      BY <2>1, <2>4, <2>6, <2>7, <3>1, <3>3, <3>4, <3>5, NumberedMore
    <3>7. QED
      BY <3>2, <3>6 DEF K
  <2>8. CASE ~passes
    <3>1. r.out = <<>> /\ node'[p].passed = node[p].passed
      BY <2>4, <2>6, <2>8
    <3>2. Leaves(e, r)
      <4>1. \A m : ~Moves(e, r, m)
        BY <3>1 DEF Moves
      <4>2. QED
        BY <1>7, <4>1, IterationMoves
    <3>3. Known' = Known \ {ev}
      BY <1>1, <3>2, KnownAfter
    <3>4. QED
      BY <2>5, <3>1, <3>3, NumberedOthers
  <2>9. QED
    BY <2>7, <2>8
<1>8. QED
  BY <1>4, <1>5, <1>6, <1>7

\* Every step leaves the numbers without a gap or a repetition.
LEMMA NumberedStep ==
  NetTypes /\ NetTypes' /\ EachItemOnce /\ EnhancedInv /\ NumberedInv /\ [NetNext]_netVars
    => NumberedInv'
<1> SUFFICES ASSUME NetTypes, NetTypes', EachItemOnce, EnhancedInv, NumberedInv, [NetNext]_netVars,
                    NEW p \in LocalNodes, NEW S \in SUBSET (LocalNodes \ {p}), LosesNone(p, S)'
             PROVE  Numbered(Known', node'[p], p, S)
  BY DEF NumberedInv
<1>1. LosesNone(p, S) /\ Numbered(Known, node[p], p, S)
  BY SameNumbering DEF NumberedInv
<1>2. CASE InitNetwork
  <2>1. Known' = {}
    BY <1>2 DEF InitNetwork, InitExecutor, EmptyQueue, Known
  <2>2. node'[p] = NewEnhanced(node[p].filter, node[p].transform, node[p].forward_to)
    BY <1>1, <1>2 DEF InitNetwork, NetTypes, LosesNone, Reset
  <2>3. node'[p].passed = 0
    BY <2>2 DEF NewEnhanced
  <2>4. Mine(Known', p) = {} /\ 0..(node'[p].passed - 1) = {}
    BY <2>1, <2>3 DEF Mine
  <2>5. QED
    BY <2>4 DEF Numbered
<1>3. ASSUME NEW t \in 0..MaxTime, NEW matches \in Contents, SourceTick(t, matches)
      PROVE  Numbered(Known', node'[p], p, S)
  <2>1. node'[p] = node[p]
    BY <1>3, SourceAdds
  <2>2. PICK m \in Msg : m.data.number = <<>> /\ Known' = Known \cup {m}
    BY <1>3, KnownMore
  <2>3. QED
    BY <1>1, <2>1, <2>2, NumberedOthers
<1>4. CASE HandleFirst
  <2>1. PICK e, r, locals, outgoing : Iteration(e, r, locals, outgoing)
    BY <1>4, HandledStep
  <2>2. QED
    BY <1>1, <2>1, NumberedIteration
<1>5. CASE UNCHANGED <<queue, arrived, node>>
  <2>1. Known' = Known
    BY <1>5 DEF Known
  <2>2. QED
    BY <1>1, <1>5, <2>1
<1>6. QED
  BY <1>2, <1>3, <1>4, <1>5
     DEF NetNext, StartRun, BeginRun, Return, ReturnFromRun, netVars, vars

\* A node as made has given no number.
LEMMA NumberedInit == NetInit => NumberedInv
<1> SUFFICES ASSUME NetInit, NEW p \in LocalNodes, NEW S \in SUBSET (LocalNodes \ {p}), LosesNone(p, S)
             PROVE  Numbered(Known, node[p], p, S)
  BY DEF NumberedInv
<1>1. Known = {}
  BY DEF NetInit, Init, EmptyQueue, Known
<1>2. node[p] = Reset(node[p])
  <2>1. node \in Networks
    BY DEF NetInit
  <2>2. p \in DOMAIN node
    BY <2>1, NetworkAssumption
  <2>3. QED
    BY <2>1, <2>2, NetworkAssumption
<1>3. node[p] = NewEnhanced(node[p].filter, node[p].transform, node[p].forward_to)
  BY <1>2 DEF LosesNone, Reset
<1>4. node[p].passed = 0
  BY <1>3 DEF NewEnhanced
<1>5. Mine(Known, p) = {} /\ 0..(node[p].passed - 1) = {}
  BY <1>1, <1>4 DEF Mine
<1>6. QED
  BY <1>5 DEF Numbered

\* So there are as many of them as p passed.
LEMMA NumberedMeans ==
  ASSUME NEW K, NEW n, NEW p, NEW S, Numbered(K, n, p, S), n.passed \in Nat
  PROVE  /\ {ev.data.number[1].seq : ev \in Mine(K, p)} = 0..(n.passed - 1)
         /\ Cardinality(Mine(K, p)) = n.passed
<1> DEFINE M == Mine(K, p)
           c == n.passed
<1>1. /\ \A ev \in M : Number(ev) \in 0..(c - 1)
      /\ \A ev, fv \in M : Number(ev) = Number(fv) => ev = fv
      /\ \A k \in 0..(c - 1) : \E ev \in M : Number(ev) = k
  BY DEF Numbered
<1>2. c \in Nat
  OBVIOUS
<1> HIDE DEF M, c
<1>3. {Number(ev) : ev \in M} = 0..(c - 1)
  BY <1>1
<1>4. ExistsBijection(M, 0..(c - 1))
  <2> DEFINE f == [ev \in M |-> Number(ev)]
  <2>1. f \in [M -> 0..(c - 1)] /\ \A ev \in M : f[ev] = Number(ev)
    BY <1>1
  <2> HIDE DEF f
  <2>2. /\ \A ev, fv \in M : f[ev] = f[fv] => ev = fv
        /\ \A k \in 0..(c - 1) : \E ev \in M : f[ev] = k
    BY <1>1, <2>1
  <2>3. f \in Bijection(M, 0..(c - 1))
    BY <2>1, <2>2 DEF Bijection, Injection, Surjection, IsInjective
  <2>4. QED
    BY <2>3 DEF ExistsBijection
<1>5. IsFiniteSet(0..(c - 1)) /\ Cardinality(0..(c - 1)) = c
  <2>1. 0 \in Int /\ c - 1 \in Int
    BY <1>2
  <2>2. /\ IsFiniteSet(0..(c - 1))
        /\ Cardinality(0..(c - 1)) = IF 0 > c - 1 THEN 0 ELSE (c - 1) - 0 + 1
    BY <2>1, FS_Interval, Zenon
  <2>3. QED
    BY <1>2, <2>2
<1>6. Cardinality(M) = c
  <2>1. ExistsBijection(0..(c - 1), M)
    BY <1>4, Fun_ExistsBijSymmetric
  <2>2. QED
    BY <1>5, <2>1, FS_Bijection, Zenon
<1>7. QED
  BY <1>3, <1>6 DEF M, c, Number

\* The numbers behind a numbering node have no gap and no repetition.
LEMMA NumberedAlways == NetSpec => []NumberedInv
  BY NumberedInit, NumberedStep, EnhancedCounted, NetTyped, ItemsOnce, PTL DEF NetSpec

-------------------------------------------------------------------------------
\* Lines.  off[s] is how long an event takes to the s-th node of the path.
OnStage(e, path, off, s) ==
  /\ s \in 1..Len(path)
  /\ e.event.dst = path[s]
  /\ e.event.time = e.event.data.sent + off[s]

Placed(e, now, path, off) ==
  e.event.data.sent <= now /\ \E s : OnStage(e, path, off, s)

\* What was sent before is on a node further on, or before on the same node.
Before(e, f, path, off) ==
  e.event.data.item < f.event.data.item =>
    /\ e.event.data.sent <= f.event.data.sent
    /\ \A s, t : OnStage(e, path, off, s) /\ OnStage(f, path, off, t) =>
                   t <= s /\ (t = s => e.seq < f.seq)

InLine(Q, arr, now, path, off) ==
  /\ \A e \in Q : Placed(e, now, path, off)
  /\ \A e, f \in Q : Before(e, f, path, off)
  /\ \A i \in DOMAIN arr : \A e \in Q : arr[i].data.item < e.event.data.item
  /\ \A i, j \in DOMAIN arr : i < j => arr[i].data.item < arr[j].data.item

\* A path without a node twice, and the times to its nodes.
IsPath(path, off) ==
  /\ Len(path) \in Nat
  /\ \A i, j \in 1..Len(path) : path[i] = path[j] => i = j
  /\ \A i \in 1..Len(path) : off[i] \in Nat

\* What is compared are natural numbers.
LEMMA EntryNumbers ==
  ASSUME NEW e \in EntrySet(Msg)
  PROVE  /\ e.event.data.item \in Nat /\ e.event.data.sent \in Nat
         /\ e.event.time \in Nat /\ e.seq \in Nat
  BY DEF EntrySet, Msg, Data

\* A new item starts at the first node.
LEMMA LineAdd ==
  ASSUME NEW Q, Q \subseteq EntrySet(Msg), NEW arr, NEW now \in Nat, NEW path, NEW off,
         IsPath(path, off), InLine(Q, arr, now, path, off),
         1 \in 1..Len(path), off[1] = 0, NEW t \in Nat, now <= t,
         NEW new \in EntrySet(Msg), new.event.dst = path[1],
         new.event.time = t, new.event.data.sent = t,
         \A e \in Q : e.event.data.item < new.event.data.item /\ e.seq < new.seq,
         \A i \in DOMAIN arr : arr[i].data.item < new.event.data.item
  PROVE  InLine(Q \cup {new}, arr, t, path, off)
<1>1. OnStage(new, path, off, 1)
  BY DEF OnStage
<1>2. /\ \A e \in Q : Placed(e, now, path, off)
      /\ \A e, f \in Q : Before(e, f, path, off)
  BY DEF InLine
<1>3. \A e \in Q \cup {new} : Placed(e, t, path, off)
  <2>1. Placed(new, t, path, off)
    BY <1>1 DEF Placed
  <2>2. ASSUME NEW e \in Q  PROVE Placed(e, t, path, off)
    <3>1. e.event.data.sent \in Nat /\ e.event.data.sent <= now
      BY <1>2, EntryNumbers DEF Placed
    <3>2. QED
      BY <1>2, <3>1 DEF Placed
  <2>3. QED
    BY <2>1, <2>2
<1>4. \A e, f \in Q \cup {new} : Before(e, f, path, off)
  <2>1. ASSUME NEW e \in Q  PROVE Before(e, new, path, off)
    <3>1. /\ e.event.data.sent \in Nat /\ e.event.data.sent <= t /\ e.seq < new.seq
      <4>1. e.event.data.sent \in Nat /\ e.event.data.sent <= now
        BY <1>2, EntryNumbers DEF Placed
      <4>2. QED
        BY <4>1
    <3>2. \A u : OnStage(new, path, off, u) => u = 1
      BY <1>1 DEF OnStage, IsPath
    <3>3. \A s : OnStage(e, path, off, s) => 1 <= s
      BY DEF OnStage, IsPath
    <3>4. QED
      BY <3>1, <3>2, <3>3 DEF Before
  <2>2. ASSUME NEW f \in Q \cup {new}  PROVE Before(new, f, path, off)
    <3>1. ~(new.event.data.item < f.event.data.item)
      <4>1. new.event.data.item \in Nat /\ f.event.data.item \in Nat
        BY EntryNumbers
      <4>2. f = new \/ f.event.data.item < new.event.data.item
        OBVIOUS
      <4>3. QED
        BY <4>1, <4>2
    <3>2. QED
      BY <3>1 DEF Before
  <2>3. QED
    BY <1>2, <2>1, <2>2
<1>5. QED
  BY <1>3, <1>4 DEF InLine

\* An event that is dropped leaves the others in line.
LEMMA LineRemove ==
  ASSUME NEW Q, NEW arr, NEW now, NEW path, NEW off, NEW e, InLine(Q, arr, now, path, off)
  PROVE  InLine(Q \ {e}, arr, now, path, off)
  BY DEF InLine

\* The first in the queue has overtaken nothing.
LEMMA FirstIsBehind ==
  ASSUME NEW Q, Q \subseteq EntrySet(Msg), NEW arr, NEW now, NEW path, NEW off,
         IsPath(path, off), InLine(Q, arr, now, path, off),
         NEW e \in Q, \A f \in Q \ {e} : Earlier(e, f),
         NEW s, OnStage(e, path, off, s),
         NEW f \in Q, f.event.data.item < e.event.data.item,
         NEW t, OnStage(f, path, off, t)
  PROVE  s < t
<1>1. Before(f, e, path, off)
  BY DEF InLine
<1>2. /\ f.event.data.sent <= e.event.data.sent
      /\ s <= t /\ (s = t => f.seq < e.seq)
  BY <1>1 DEF Before
<1>3. /\ e.event.data.item \in Nat /\ f.event.data.item \in Nat
      /\ e.event.data.sent \in Nat /\ f.event.data.sent \in Nat
      /\ e.event.time \in Nat /\ f.event.time \in Nat /\ e.seq \in Nat /\ f.seq \in Nat
  BY EntryNumbers
<1>4. Earlier(e, f)
  <2>1. e # f
    BY <1>3
  <2>2. QED
    BY <2>1
<1>5. /\ s \in Nat /\ t \in Nat /\ off[s] \in Nat /\ off[t] \in Nat
      /\ e.event.time = e.event.data.sent + off[s]
      /\ f.event.time = f.event.data.sent + off[t]
  BY DEF OnStage, IsPath
<1>6. ASSUME s = t  PROVE FALSE
  <2>1. f.event.time <= e.event.time
    BY <1>2, <1>3, <1>5, <1>6
  <2>2. f.seq < e.seq
    BY <1>2, <1>6
  <2>3. QED
    BY <1>3, <1>4, <2>1, <2>2 DEF Earlier
<1>7. QED
  BY <1>2, <1>5, <1>6

\* The first in the queue goes on to the next node.
LEMMA LineMove ==
  ASSUME NEW Q, Q \subseteq EntrySet(Msg), NEW arr, NEW now, NEW path, NEW off,
         IsPath(path, off), InLine(Q, arr, now, path, off),
         NEW e \in Q, \A f \in Q \ {e} : Earlier(e, f),
         \A f \in Q \ {e} : f.event.data.item # e.event.data.item,
         NEW s, OnStage(e, path, off, s), s + 1 \in 1..Len(path),
         NEW new \in EntrySet(Msg), new.event.data.item = e.event.data.item,
         new.event.data.sent = e.event.data.sent, OnStage(new, path, off, s + 1),
         \A f \in Q : f.seq < new.seq
  PROVE  InLine((Q \ {e}) \cup {new}, arr, now, path, off)
<1>1. /\ \A f \in Q : Placed(f, now, path, off)
      /\ \A f, g \in Q : Before(f, g, path, off)
      /\ \A i \in DOMAIN arr : \A f \in Q : arr[i].data.item < f.event.data.item
      /\ \A i, j \in DOMAIN arr : i < j => arr[i].data.item < arr[j].data.item
  BY DEF InLine
<1>2. s \in Nat /\ \A u : OnStage(new, path, off, u) => u = s + 1
  BY DEF OnStage, IsPath
<1>3. Placed(new, now, path, off)
  BY <1>1 DEF Placed
<1>4. ASSUME NEW f \in Q \ {e}  PROVE Before(f, new, path, off)
  <2>1. SUFFICES ASSUME f.event.data.item < e.event.data.item
                 PROVE  /\ f.event.data.sent <= e.event.data.sent
                        /\ \A t, u : OnStage(f, path, off, t) /\ OnStage(new, path, off, u) =>
                                       u <= t /\ (u = t => f.seq < new.seq)
    BY DEF Before
  <2>2. f.event.data.sent <= e.event.data.sent
    BY <1>1, <2>1 DEF Before
  <2>3. \A t : OnStage(f, path, off, t) => s < t
    BY <2>1, FirstIsBehind
  <2>4. \A t : OnStage(f, path, off, t) => t \in Nat
    BY DEF OnStage, IsPath
  <2>5. QED
    BY <1>2, <2>2, <2>3, <2>4
<1>5. ASSUME NEW f \in Q \ {e}  PROVE Before(new, f, path, off)
  <2>1. SUFFICES ASSUME e.event.data.item < f.event.data.item
                 PROVE  /\ e.event.data.sent <= f.event.data.sent
                        /\ \A u, t : OnStage(new, path, off, u) /\ OnStage(f, path, off, t) =>
                                       t <= u /\ (t = u => new.seq < f.seq)
    BY DEF Before
  <2>2. /\ e.event.data.sent <= f.event.data.sent
        /\ \A t : OnStage(f, path, off, t) => t <= s
    BY <1>1, <2>1 DEF Before
  <2>3. \A t : OnStage(f, path, off, t) => t \in Nat
    BY DEF OnStage, IsPath
  <2>4. QED
    BY <1>2, <2>2, <2>3
<1>6. Before(new, new, path, off)
  <2>1. new.event.data.item \in Nat
    BY EntryNumbers
  <2>2. QED
    BY <2>1 DEF Before
<1> DEFINE R == (Q \ {e}) \cup {new}
<1>7. \A f \in R : f = new \/ f \in Q \ {e}
  OBVIOUS
<1> HIDE DEF R
<1>8. \A f \in R : Placed(f, now, path, off)
  BY <1>1, <1>3, <1>7
<1>9. \A f, g \in R : Before(f, g, path, off)
  BY <1>1, <1>4, <1>5, <1>6, <1>7
<1>10. \A i \in DOMAIN arr : \A f \in R : arr[i].data.item < f.event.data.item
  BY <1>1, <1>7
<1>11. InLine(R, arr, now, path, off)
  BY <1>1, <1>8, <1>9, <1>10 DEF InLine
<1>12. QED
  BY <1>11 DEF R

\* The first in the queue has come to the end: all that was sent before has too.
LEMMA LineArrive ==
  ASSUME NEW Q, Q \subseteq EntrySet(Msg), NEW arr \in Seq(Msg), NEW now, NEW path, NEW off,
         IsPath(path, off), InLine(Q, arr, now, path, off),
         NEW e \in Q, \A f \in Q \ {e} : Earlier(e, f),
         \A f \in Q \ {e} : f.event.data.item # e.event.data.item,
         OnStage(e, path, off, Len(path))
  PROVE  InLine(Q \ {e}, Append(arr, e.event), now, path, off)
<1>1. /\ \A f \in Q : Placed(f, now, path, off)
      /\ \A f, g \in Q : Before(f, g, path, off)
      /\ \A i \in DOMAIN arr : \A f \in Q : arr[i].data.item < f.event.data.item
      /\ \A i, j \in DOMAIN arr : i < j => arr[i].data.item < arr[j].data.item
  BY DEF InLine
<1>2. ASSUME NEW f \in Q \ {e}  PROVE e.event.data.item < f.event.data.item
  <2>1. PICK t : OnStage(f, path, off, t)
    BY <1>1 DEF Placed
  <2>2. t \in Nat /\ t <= Len(path) /\ Len(path) \in Nat
    BY <2>1 DEF OnStage, IsPath
  <2>3. ~(f.event.data.item < e.event.data.item)
    <3>1. ASSUME f.event.data.item < e.event.data.item  PROVE FALSE
      <4>1. Len(path) < t
        BY <2>1, <3>1, FirstIsBehind
      <4>2. QED
        BY <2>2, <4>1
    <3>2. QED
      BY <3>1
  <2>4. /\ f.event.data.item \in Nat /\ e.event.data.item \in Nat
        /\ f.event.data.item # e.event.data.item
    BY EntryNumbers
  <2>5. QED
    BY <2>3, <2>4
<1> DEFINE more == Append(arr, e.event)
<1>3. /\ Len(arr) \in Nat /\ DOMAIN arr = 1..Len(arr)
      /\ DOMAIN more = 1..(Len(arr) + 1)
      /\ \A i \in DOMAIN more : \/ i \in DOMAIN arr /\ more[i] = arr[i]
                                \/ i = Len(arr) + 1 /\ more[i] = e.event
  OBVIOUS
<1> HIDE DEF more
<1>4. \A i \in DOMAIN more : \A f \in Q \ {e} : more[i].data.item < f.event.data.item
  BY <1>1, <1>2, <1>3
<1>5. ASSUME NEW i \in DOMAIN more, NEW j \in DOMAIN more, i < j
      PROVE  more[i].data.item < more[j].data.item
  <2>1. i \in DOMAIN arr /\ more[i] = arr[i]
    BY <1>3, <1>5
  <2>2. CASE j \in DOMAIN arr /\ more[j] = arr[j]
    BY <1>1, <1>5, <2>1, <2>2
  <2>3. CASE more[j] = e.event
    BY <1>1, <2>1, <2>3
  <2>4. QED
    BY <1>3, <2>2, <2>3
<1>6. InLine(Q \ {e}, more, now, path, off)
  BY <1>1, <1>4, <1>5 DEF InLine
<1>7. QED
  BY <1>6 DEF more

\* How long a node that forwards in order keeps an event.
Gap(n) ==
  IF n.kind = "delay" THEN n.delay
  ELSE IF n.kind = "probabilistic" THEN n.distribution.min ELSE 0

Gaps(path) == [i \in 1..Len(path) |-> Gap(node[path[i]])]
Offsets(path) == [s \in 1..Len(path) |-> SumFunctionOnSet(Gaps(path), 1..(s - 1))]

LineInv ==
  \A k \in Nat \ {0} : \A path \in [1..k -> LocalNodes] :
    Line(path) => InLine(queue.entries, arrived, ticked, path, Offsets(path))

\* A path has its length, and a first and a last node.
LEMMA PathLength ==
  ASSUME NEW k \in Nat \ {0}, NEW path \in [1..k -> LocalNodes]
  PROVE  /\ Len(path) = k /\ 1 \in 1..Len(path) /\ Len(path) \in 1..Len(path)
         /\ \A i \in 1..Len(path) : path[i] \in LocalNodes
<1>1. path \in Seq(LocalNodes)
  OBVIOUS
<1>2. DOMAIN path = 1..k /\ DOMAIN path = 1..Len(path) /\ Len(path) \in Nat
  BY <1>1
<1>3. Len(path) = k
  BY <1>2
<1>4. QED
  BY <1>3

\* A gap is a time.
LEMMA GapIsNat ==
  ASSUME NEW n \in Nodes
  PROVE  Gap(n) \in Nat
<1>1. CASE n.kind = "delay"
  BY <1>1, NodeKinds, ExecutorAssumption DEF Gap, DelayNode
<1>2. CASE n.kind = "probabilistic"
  <2>1. n.distribution \in Distribution(Delays)
    BY <1>2, NodeKinds DEF ProbabilisticDelayNode
  <2>2. n.distribution.min \in Nat
    BY <2>1 DEF Distribution
  <2>3. QED
    BY <1>2, <2>2 DEF Gap
<1>3. CASE n.kind \notin {"delay", "probabilistic"}
  BY <1>3 DEF Gap
<1>4. QED
  BY <1>1, <1>2, <1>3

\* The times to the nodes of a path add up.
LEMMA OffsetsAddUp ==
  ASSUME NetTypes, NEW k \in Nat \ {0}, NEW path \in [1..k -> LocalNodes]
  PROVE  /\ Offsets(path)[1] = 0
         /\ \A s \in 1..Len(path) : Offsets(path)[s] \in Nat
         /\ \A s \in 1..Len(path) : s + 1 \in 1..Len(path) =>
              Offsets(path)[s + 1] = Offsets(path)[s] + Gap(node[path[s]])
<1> DEFINE g == Gaps(path)
           sum(T) == SumFunctionOnSet(g, T)
<1>1. Len(path) = k /\ \A i \in 1..Len(path) : path[i] \in LocalNodes
  BY PathLength
<1>2. \A i \in 1..k : g[i] \in Nat /\ g[i] = Gap(node[path[i]])
  BY <1>1, GapIsNat DEF NetTypes, Gaps
<1>3. \A s \in 1..k : Offsets(path)[s] = sum(1..(s - 1))
  BY <1>1 DEF Offsets
<1> HIDE DEF g
<1>4. \A s \in 1..k : IsFiniteSet(1..(s - 1))
  <2> SUFFICES ASSUME NEW s \in 1..k  PROVE IsFiniteSet(1..(s - 1))
    OBVIOUS
  <2>1. 1 \in Int /\ s - 1 \in Int
    OBVIOUS
  <2>2. QED
    BY <2>1, FS_Interval, Zenon
<1>5. sum({}) = 0
  BY FS_EmptySet, SumZero
<1>6. \A s \in 1..k : sum(1..(s - 1)) \in Nat
  <2> SUFFICES ASSUME NEW s \in 1..k  PROVE sum(1..(s - 1)) \in Nat
    OBVIOUS
  <2> DEFINE T == 1..(s - 1)
  <2>1. \A i \in T : g[i] \in Nat
    BY <1>2
  <2>2. IsFiniteSet(T)
    BY <1>4
  <2> HIDE DEF T
  <2>3. sum(T) \in Nat
    BY <2>1, <2>2, SumType
  <2>4. QED
    BY <2>3 DEF T
<1>7. ASSUME NEW s \in 1..k, s + 1 \in 1..k
      PROVE  sum(1..(s + 1 - 1)) = sum(1..(s - 1)) + g[s]
  <2> DEFINE T == 1..(s - 1)
  <2>1. 1..(s + 1 - 1) = T \cup {s} /\ s \notin T
    OBVIOUS
  <2>2. \A i \in T \cup {s} : g[i] \in Nat
    BY <1>2
  <2>3. IsFiniteSet(T)
    BY <1>4
  <2> HIDE DEF T
  <2>4. sum(T \cup {s}) = sum(T) + g[s]
    BY <2>1, <2>2, <2>3, SumAdd
  <2>5. QED
    BY <2>1, <2>4 DEF T
<1>8. 1 \in 1..k /\ 1..(1 - 1) = {}
  OBVIOUS
<1>9. Offsets(path)[1] = 0
  BY <1>3, <1>5, <1>8
<1>10. \A s \in 1..Len(path) : Offsets(path)[s] \in Nat
  BY <1>1, <1>3, <1>6
<1>11. \A s \in 1..Len(path) : s + 1 \in 1..Len(path) =>
              Offsets(path)[s + 1] = Offsets(path)[s] + Gap(node[path[s]])
  BY <1>1, <1>2, <1>3, <1>7
<1>12. QED
  BY <1>9, <1>10, <1>11

\* A line stays a line, as fast as before.
LEMMA SameLine ==
  ASSUME NetTypes, NetTypes', [NetNext]_netVars,
         NEW k \in Nat \ {0}, NEW path \in [1..k -> LocalNodes], Line(path)'
  PROVE  Line(path) /\ Offsets(path)' = Offsets(path)
<1>1. /\ Len(path) = k /\ \A i \in 1..Len(path) : path[i] \in LocalNodes
  BY PathLength
<1>2. \A n \in LocalNodes :
        /\ node'[n].kind = node[n].kind
        /\ node[n].kind \in {"delay", "probabilistic", "enhanced", "simple", "passthrough"} =>
             node'[n].forward_to = node[n].forward_to
        /\ node[n].kind = "delay" => node'[n].delay = node[n].delay
        /\ node[n].kind = "probabilistic" => node'[n].distribution = node[n].distribution
  BY ConfigurationStays, SameConfiguration
<1>3. node'[Source].target = node[Source].target
  <2>1. node[Source].kind = "source"
    BY TheSource
  <2>2. QED
    BY <2>1, ConfigurationStays, SameConfiguration
<1>4. \A n \in LocalNodes : Gap(node'[n]) = Gap(node[n])
  BY <1>2 DEF Gap
<1>5. \A n \in LocalNodes : ForwardsInOrder(node'[n]) => 
        ForwardsInOrder(node[n]) /\ node'[n].forward_to = node[n].forward_to
  BY <1>2 DEF ForwardsInOrder
<1>6. Gaps(path)' = Gaps(path)
  BY <1>1, <1>4 DEF Gaps
<1>7. Offsets(path)' = Offsets(path)
  BY <1>6 DEF Offsets
<1>8. /\ path[1] = node'[Source].target
      /\ \A i, j \in 1..Len(path) : path[i] = path[j] => i = j
      /\ \A i \in 1..(Len(path) - 1) : ForwardsInOrder(node'[path[i]])
                                       /\ node'[path[i]].forward_to = path[i + 1]
      /\ node'[path[Len(path)]].kind = "counter"
  BY DEF Line
<1>9. /\ path[1] = node[Source].target
      /\ node[path[Len(path)]].kind = "counter"
  BY <1>1, <1>2, <1>3, <1>8
<1>10. \A i \in 1..(Len(path) - 1) : ForwardsInOrder(node[path[i]])
                                    /\ node[path[i]].forward_to = path[i + 1]
  BY <1>1, <1>5, <1>8
<1>11. Line(path)
  BY <1>8, <1>9, <1>10 DEF Line
<1>12. QED
  BY <1>7, <1>11

\* A node that forwards in order takes its gap, or drops the event.
LEMMA TakesItsGap ==
  ASSUME NEW n \in Nodes, NEW id \in LocalNodes, NEW ev \in Msg, NEW r \in OnEvent(id, n, ev),
         ForwardsInOrder(n), NEW m, r.out = <<m>>
  PROVE  m.time = ev.time + Gap(n) /\ m.dst = n.forward_to
<1>1. n.kind \in {"delay", "probabilistic", "enhanced", "simple", "passthrough"}
  BY DEF ForwardsInOrder
<1>2. ~Dropped(n, r)
  BY DEF Dropped
<1>3. PICK x, data : Forwarded(n, id, ev, r, x, data)
  BY <1>1, <1>2, ForwardsOrDrops
<1>4. m.time = ev.time + x /\ m.dst = n.forward_to
  <2>1. r.out = <<Message(ev.time + x, id, n.forward_to, data)>>
    BY <1>3 DEF Forwarded
  <2>2. m = Message(ev.time + x, id, n.forward_to, data)
    BY <2>1
  <2>3. QED
    BY <2>2 DEF Message
<1>5. x = Gap(n)
  <2>1. CASE n.kind = "delay"
    BY <1>3, <2>1 DEF Forwarded, Gap
  <2>2. CASE n.kind = "probabilistic"
    <3> DEFINE dist == n.distribution
    <3>1. x \in Support(dist) /\ Cardinality(Support(dist)) = 1
      BY <1>3, <2>2 DEF Forwarded, ForwardsInOrder
    <3>2. dist.min \in Nat /\ dist.max \in Nat
      <4>1. dist \in Distribution(Delays)
        BY <2>2, NodeKinds DEF ProbabilisticDelayNode
      <4>2. QED
        BY <4>1 DEF Distribution
    <3> HIDE DEF dist
    <3>3. dist.min \in Support(dist)
      BY <3>2 DEF Support
    <3>4. IsFiniteSet(Support(dist))
      <4>1. dist.min \in Int /\ dist.max \in Int
        BY <3>2
      <4>2. IsFiniteSet({dist.min}) /\ IsFiniteSet((dist.min)..(dist.max))
        BY <4>1, FS_Interval, FS_Singleton, Zenon
      <4>3. QED
        BY <4>2 DEF Support
    <3>5. PICK y : Support(dist) = {y}
      BY <3>1, <3>4, FS_Singleton
    <3>6. x = dist.min
      BY <3>1, <3>3, <3>5
    <3>7. QED
      BY <2>2, <3>6 DEF Gap, dist
  <2>3. CASE n.kind \in {"enhanced", "simple", "passthrough"}
    BY <1>3, <2>3 DEF Forwarded, Gap
  <2>4. QED
    BY <1>1, <2>1, <2>2, <2>3
<1>6. QED
  BY <1>4, <1>5

\* An iteration on a line: the first event goes on, is dropped or has come to the
\* end.
LEMMA LineIteration ==
  ASSUME NetTypes, NetTypes', EachItemOnce,
         NEW e, NEW r, NEW locals, NEW outgoing, Iteration(e, r, locals, outgoing),
         NEW k \in Nat \ {0}, NEW path \in [1..k -> LocalNodes], Line(path),
         InLine(queue.entries, arrived, ticked, path, Offsets(path))
  PROVE  InLine(queue'.entries, arrived', ticked', path, Offsets(path))
<1> DEFINE Q == queue.entries
           off == Offsets(path)
           id == e.event.dst
           ev == e.event
           n == node[id]
           c == queue.counter
<1>1. /\ e \in Q /\ id \in LocalNodes /\ n \in Nodes /\ ev \in Msg
      /\ r \in OnEvent(id, n, ev) /\ ticked' = ticked
  BY DEF Iteration
<1>2. Q \subseteq EntrySet(Msg) /\ arrived \in Seq(Msg) /\ c \in Nat
      /\ \A f \in Q : f.seq < c
  BY DEF NetTypes, QueueOK
<1>3. \A f \in Q \ {e} : f.event.data.item # ev.data.item
  BY <1>1 DEF EachItemOnce
<1>4. \A f \in Q \ {e} : Earlier(e, f)
  BY IterationMoves DEF IsFirst
<1>5. /\ off[1] = 0
      /\ \A s \in 1..Len(path) : off[s] \in Nat
      /\ \A s \in 1..Len(path) : s + 1 \in 1..Len(path) => off[s + 1] = off[s] + Gap(node[path[s]])
  BY OffsetsAddUp
<1>6. /\ Len(path) = k /\ \A i \in 1..Len(path) : path[i] \in LocalNodes
  BY PathLength
<1>7. /\ \A i, j \in 1..Len(path) : path[i] = path[j] => i = j
      /\ \A i \in 1..(Len(path) - 1) : ForwardsInOrder(node[path[i]])
                                       /\ node[path[i]].forward_to = path[i + 1]
      /\ node[path[Len(path)]].kind = "counter"
  BY DEF Line
<1> HIDE DEF off
<1>8. IsPath(path, off)
  BY <1>5, <1>6, <1>7 DEF IsPath
<1>9. InLine(Q, arrived, ticked, path, off)
  BY DEF off
<1>10. PICK s : OnStage(e, path, off, s)
  BY <1>1, <1>9 DEF InLine, Placed
<1>11. s \in 1..Len(path) /\ id = path[s] /\ ev.time = ev.data.sent + off[s]
  BY <1>10 DEF OnStage
<1>12. n.kind # "counter" => /\ s + 1 \in 1..Len(path) /\ ForwardsInOrder(n)
                             /\ n.forward_to = path[s + 1]
  BY <1>6, <1>7, <1>11
<1>13. n.kind = "counter" => s = Len(path)
  <2>1. s # Len(path) => ForwardsInOrder(n)
    BY <1>6, <1>7, <1>11
  <2>2. ForwardsInOrder(n) => n.kind # "counter"
    BY DEF ForwardsInOrder
  <2>3. QED
    BY <2>1, <2>2
<1>14. CASE Arrives(e)
  <2>1. /\ n.kind = "counter" /\ queue'.entries = Q \ {e} /\ arrived' = Append(arrived, ev)
    BY <1>14 DEF Arrives
  <2>2. OnStage(e, path, off, Len(path))
    BY <1>10, <1>13, <2>1
  <2>3. InLine(Q \ {e}, Append(arrived, e.event), ticked, path, off)
    BY <1>1, <1>2, <1>3, <1>4, <1>8, <1>9, <2>2, LineArrive
  <2>4. QED
    BY <1>1, <2>1, <2>3 DEF off
<1>15. CASE Leaves(e, r)
  <2>1. queue'.entries = Q \ {e} /\ arrived' = arrived
    BY <1>15 DEF Leaves
  <2>2. InLine(Q \ {e}, arrived, ticked, path, off)
    BY <1>9, LineRemove
  <2> HIDE DEF Q
  <2>3. QED
    BY <1>1, <2>1, <2>2 DEF off
<1>16. ASSUME NEW m, Moves(e, r, m)
       PROVE  InLine(queue'.entries, arrived', ticked', path, Offsets(path))
  <2>1. /\ n.kind # "counter" /\ queue'.entries = (Q \ {e}) \cup {Entry(m, c)}
        /\ arrived' = arrived /\ m \in Msg /\ r.out = <<m>>
        /\ m.data.item = ev.data.item /\ m.data.sent = ev.data.sent
    BY <1>16 DEF Moves
  <2>2. m.time = ev.time + Gap(n) /\ m.dst = n.forward_to
    BY <1>1, <1>12, <2>1, TakesItsGap
  <2>3. /\ s + 1 \in 1..Len(path) /\ n.forward_to = path[s + 1]
        /\ off[s + 1] = off[s] + Gap(n) /\ off[s] \in Nat
    BY <1>5, <1>11, <1>12, <2>1
  <2>4. Gap(n) \in Nat
    BY <1>1, GapIsNat
  <2> DEFINE new == Entry(m, c)
             gap == Gap(n)
  <2>5. new \in EntrySet(Msg) /\ new.event = m /\ new.seq = c
    BY <1>2, <2>1 DEF Entry, EntrySet
  <2> HIDE DEF new, gap
  <2>6. OnStage(new, path, off, s + 1)
    <3>1. m.time = m.data.sent + off[s + 1]
      <4>1. ev.data.sent \in Nat
        BY <1>1 DEF Msg, Data
      <4>2. m.time = ev.time + gap /\ off[s + 1] = off[s] + gap /\ gap \in Nat
        BY <2>2, <2>3, <2>4 DEF gap
      <4> HIDE DEF ev
      <4>3. QED
        BY <1>11, <2>1, <2>3, <4>1, <4>2
    <3>2. QED
      BY <2>2, <2>3, <2>5, <3>1 DEF OnStage
  <2>7. InLine((Q \ {e}) \cup {new}, arrived, ticked, path, off)
    BY <1>1, <1>2, <1>3, <1>4, <1>8, <1>9, <1>10, <2>1, <2>3, <2>5, <2>6, LineMove
  <2>8. queue'.entries = (Q \ {e}) \cup {new}
    BY <2>1 DEF new
  <2>9. QED
    BY <1>1, <2>1, <2>7, <2>8 DEF off
<1>17. QED
  BY <1>14, <1>15, <1>16, IterationMoves

\* Every step keeps the events in line.
LEMMA LineStep ==
  NetTypes /\ NetTypes' /\ EachItemOnce /\ LineInv /\ [NetNext]_netVars => LineInv'
<1> SUFFICES ASSUME NetTypes, NetTypes', EachItemOnce, LineInv, [NetNext]_netVars,
                    NEW k \in Nat \ {0}, NEW path \in [1..k -> LocalNodes], Line(path)'
             PROVE  InLine(queue'.entries, arrived', ticked', path, Offsets(path)')
  BY DEF LineInv
<1> DEFINE off == Offsets(path)
<1>1. /\ Line(path) /\ Offsets(path)' = off
      /\ InLine(queue.entries, arrived, ticked, path, off)
  BY SameLine DEF LineInv
<1>2. CASE InitNetwork
  <2>1. queue'.entries = {} /\ DOMAIN arrived' = {}
    BY <1>2 DEF InitNetwork, InitExecutor, EmptyQueue
  <2> HIDE DEF off
  <2>2. QED
    BY <2>1 DEF InLine
<1>3. ASSUME NEW t \in 0..MaxTime, NEW matches \in Contents, SourceTick(t, matches)
      PROVE  InLine(queue'.entries, arrived', ticked', path, off)
  <2>1. t \in Nat /\ t >= ticked /\ ticked' = t /\ arrived' = arrived
    BY <1>3, SourceAdds
  <2>2. PICK m \in Msg : /\ m.time = t /\ m.dst = node[Source].target
                         /\ m.data.item = node[Source].generated + 1 /\ m.data.sent = t
                         /\ queue'.entries = queue.entries \cup {Entry(m, queue.counter)}
    BY <1>3, SourceAdds
  <2>3. /\ queue.entries \subseteq EntrySet(Msg) /\ queue.counter \in Nat /\ ticked \in Nat
        /\ \A f \in queue.entries : f.seq < queue.counter
    BY DEF NetTypes, QueueOK
  <2>4. /\ off[1] = 0 /\ IsPath(path, off) /\ 1 \in 1..Len(path)
    <3>1. \A i, j \in 1..Len(path) : path[i] = path[j] => i = j
      BY <1>1 DEF Line
    <3>2. QED
      BY <3>1, OffsetsAddUp, PathLength DEF IsPath
  <2>5. path[1] = node[Source].target
    BY <1>1 DEF Line
  <2> DEFINE new == Entry(m, queue.counter)
             g == node[Source].generated
  <2>6. new \in EntrySet(Msg) /\ new.event = m /\ new.seq = queue.counter
    BY <2>2, <2>3 DEF Entry, EntrySet
  <2> HIDE DEF new, g, off
  <2>7. m.data.item = g + 1 /\ g \in Nat
    BY <2>2 DEF EachItemOnce, g
  <2>8. \A f \in queue.entries : f.event.data.item < m.data.item
    <3>1. \A f \in queue.entries : f.event.data.item <= g /\ f.event.data.item \in Nat
      BY <2>3, EntryNumbers DEF EachItemOnce, g
    <3>2. QED
      BY <2>7, <3>1
  <2>9. \A i \in DOMAIN arrived : arrived[i].data.item < m.data.item
    <3>1. \A i \in DOMAIN arrived : arrived[i].data.item <= g /\ arrived[i].data.item \in Nat
      <4>1. \A i \in DOMAIN arrived : arrived[i] \in Msg
        BY DEF NetTypes
      <4>2. QED
        BY <4>1 DEF EachItemOnce, g, Msg, Data
    <3>2. QED
      BY <2>7, <3>1
  <2>10. InLine(queue.entries \cup {new}, arrived, t, path, off)
    BY <1>1, <2>1, <2>2, <2>3, <2>4, <2>5, <2>6, <2>8, <2>9, LineAdd
  <2>11. QED
    BY <2>1, <2>2, <2>10 DEF new
<1>4. CASE HandleFirst
  <2>1. PICK e, r, locals, outgoing : Iteration(e, r, locals, outgoing)
    BY <1>4, HandledStep
  <2>2. QED
    BY <1>1, <2>1, LineIteration
<1>5. CASE UNCHANGED <<queue, arrived, ticked>>
  BY <1>1, <1>5
<1>6. QED
  BY <1>1, <1>2, <1>3, <1>4, <1>5
     DEF NetNext, StartRun, BeginRun, Return, ReturnFromRun, netVars, vars

\* On a line without an echo or drawn delays nothing overtakes.
LEMMA LinesKept == NetSpec => []LineInv
<1>1. NetInit => LineInv
  <2> SUFFICES ASSUME NetInit, NEW k \in Nat \ {0}, NEW path \in [1..k -> LocalNodes]
               PROVE  InLine(queue.entries, arrived, ticked, path, Offsets(path))
    BY DEF LineInv
  <2>1. queue.entries = {} /\ DOMAIN arrived = {}
    BY DEF NetInit, Init, EmptyQueue
  <2>2. QED
    BY <2>1 DEF InLine
<1>2. QED
  BY <1>1, LineStep, NetTyped, ItemsOnce, PTL DEF NetSpec

\* The three invariants together are the property.
LEMMA SampledAndNumberedFollows ==
  ASSUME NetTypes, EnhancedInv, NumberedInv, LineInv
  PROVE  SampledAndNumbered
<1>1. ASSUME NEW p \in LocalNodes, node[p].kind = "enhanced", node[p].forward_to # Nobody,
             node[p].filter.mode = "Sample"
      PROVE  node[p].passed = node[p].received \div node[p].filter.rate
  BY <1>1 DEF EnhancedInv, EnhancedCounts
<1>2. ASSUME NEW p \in LocalNodes, node[p].kind = "enhanced", node[p].forward_to # Nobody,
             Numbers(node[p]),
             \E S \in SUBSET (LocalNodes \ {p}) : node[p].forward_to \in S /\ Keeps(S)
      PROVE  LET mine == {ev \in Known : ev.data.number # <<>> /\ ev.data.number[1].by = p}
                 numbers == {ev.data.number[1].seq : ev \in mine}
             IN  numbers = 0..(node[p].passed - 1) /\ Cardinality(mine) = node[p].passed
  <2>1. PICK S \in SUBSET (LocalNodes \ {p}) : node[p].forward_to \in S /\ Keeps(S)
    BY <1>2
  <2>2. Numbered(Known, node[p], p, S)
    BY <1>2, <2>1 DEF NumberedInv, LosesNone
  <2>3. node[p].passed \in Nat
    <3>1. node[p] \in EnhancedPassThroughNode(Ids)
      BY <1>2, NodeKinds DEF NetTypes
    <3>2. QED
      BY <3>1 DEF EnhancedPassThroughNode
  <2>4. /\ {ev.data.number[1].seq : ev \in Mine(Known, p)} = 0..(node[p].passed - 1)
        /\ Cardinality(Mine(Known, p)) = node[p].passed
    BY <2>2, <2>3, NumberedMeans
  <2>5. QED
    BY <2>4 DEF Mine
<1>3. ASSUME NEW k \in 1..Cardinality(LocalNodes), NEW path \in [1..k -> LocalNodes], Line(path)
      PROVE  \A i, j \in DOMAIN arrived : i < j => arrived[i].data.item < arrived[j].data.item
  <2>1. k \in Nat \ {0}
    <3>1. Cardinality(LocalNodes) \in Nat
      BY FS_CardinalityType, NetworkAssumption
    <3>2. QED
      BY <3>1
  <2>2. InLine(queue.entries, arrived, ticked, path, Offsets(path))
    BY <1>3, <2>1 DEF LineInv
  <2>3. QED
    BY <2>2 DEF InLine
<1>4. QED
  BY <1>1, <1>2, <1>3 DEF SampledAndNumbered

\* SampledAndNumbered: every Nth event passes a sampling node, numbers have neither
\* gap nor repetition, and items arrive in the order sent.
THEOREM SamplesAndNumbers == NetSpec => []SampledAndNumbered
  BY EnhancedCounted, NumberedAlways, LinesKept, NetTyped, SampledAndNumberedFollows, PTL

===============================================================================
