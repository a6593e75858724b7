----------------------------- MODULE EventExecutor -----------------------------
(***************************************************************************)
(* EventSubgraphExecutor (src/executor/event.rs): the event-driven         *)
(* executor of one subgraph.  A run_until call is a BeginRun step, one     *)
(* ProcessEvent step per iteration of its loop and a ReturnFromRun step;   *)
(* the calls of its owner (schedule, handle_incoming, init) come between   *)
(* two runs, since the executor is borrowed mutably for the whole call.    *)
(*                                                                         *)
(* Message payloads are abstracted to their destination.  A node is any    *)
(* function from an event to at most MaxFanout events, each stamped        *)
(* event.time + d for some d in Delays: every on_event of src/nodes stamps *)
(* its output this way (DelayNode, EchoNode, ProbabilisticDelayNode with   *)
(* their delay, the pass-through nodes with 0).                            *)
(***************************************************************************)
EXTENDS EventQueue

CONSTANTS
  LocalNodes,    \* the nodes of this subgraph
  RemoteNodes,   \* nodes of other subgraphs, and nodes nobody has
  Custom,        \* destination of an EventPayload::Custom, which has none
  Delays,        \* what a node may add to the time of the event it handles
  MaxTime,       \* bound: times and targets the owner passes are 0..MaxTime
  MaxScheduled,  \* bound: events the owner schedules between two inits
  MaxGenerated,  \* bound: events the nodes generate between two inits
  MaxFanout      \* bound: events one on_event returns

\* Node ids are u64 and a Custom payload is none of them; delays are u64.
ASSUME ExecutorAssumption ==
  /\ LocalNodes \cap RemoteNodes = {}
  /\ Custom \notin LocalNodes \cup RemoteNodes
  /\ Delays \subseteq Nat
  /\ MaxTime \in Nat
  /\ MaxScheduled \in Nat
  /\ MaxGenerated \in Nat
  /\ MaxFanout \in Nat

VARIABLES
  current_time,
  queue,         \* event_queue
  stats,         \* EventExecutorStats
  phase,         \* "idle", or "running" inside run_until
  target,        \* argument of the current or last run_until
  all_outgoing,  \* what that run has collected for other subgraphs
  scheduled,     \* history: events pushed by schedule_event since the last init
  run            \* history of the current or last run: see RunRecord

vars == <<current_time, queue, stats, phase, target, all_outgoing, scheduled, run>>

Destinations == LocalNodes \cup RemoteNodes \cup {Custom}
Event == [time : Nat, dst : Destinations]
InputEvent == [time : 0..MaxTime, dst : Destinations]
EventSeqs(S, n) == UNION {[1..k -> S] : k \in 0..n}

NoStats == [processed |-> 0, generated |-> 0, incoming |-> 0, outgoing |-> 0, peak |-> 0]
StatsType == [processed : Nat, generated : Nat, incoming : Nat, outgoing : Nat, peak : Nat]

\* start: the clock at the call; last: the entries processed so far, as a set
\* that is empty or holds the latest one; served: the queue's counter when the
\* run returned, so what is pushed later has seq >= served; late: some event
\* queued at the call was stamped before the clock.
RunRecord == [start : Nat, last : SUBSET EntrySet(Event),
              served : Nat, late : BOOLEAN]
NoRun == [start |-> 0, last |-> {}, served |-> 0, late |-> FALSE]

\* Mutants of the clock: it never advances, it follows even into the past.
LargerStays(a, b) == b
LargerFollows(a, b) == a

Larger(a, b) == IF a >= b THEN a ELSE b

\* update_peak_queue_size, which follows every push.
PeakAfter(q, evs) ==
  IF evs = <<>> THEN stats.peak
  ELSE Larger(stats.peak, Cardinality(PushAll(q, evs).entries))

\* What a step adds to the counters of the statistics, and the new peak.
Count(processed, generated, incoming, outgoing, peak) ==
  stats' = [processed |-> stats.processed + processed,
            generated |-> stats.generated + generated,
            incoming  |-> stats.incoming + incoming,
            outgoing  |-> stats.outgoing + outgoing,
            peak      |-> peak]

-------------------------------------------------------------------------------
Init ==
  /\ current_time = 0
  /\ queue = EmptyQueue
  /\ stats = NoStats
  /\ phase = "idle"
  /\ target = 0
  /\ all_outgoing = <<>>
  /\ scheduled = 0
  /\ run = NoRun

\* SubgraphExecutor::init; the nodes are reset too, which their outputs hide.
InitExecutor ==
  /\ phase = "idle"
  /\ current_time' = 0
  /\ queue' = EmptyQueue
  /\ stats' = NoStats
  /\ target' = 0
  /\ all_outgoing' = <<>>
  /\ scheduled' = 0
  /\ run' = NoRun
  /\ UNCHANGED phase

ScheduleEvent(ev) ==
  /\ phase = "idle"
  /\ scheduled + stats.incoming < MaxScheduled
  /\ queue' = Push(queue, ev)
  /\ Count(0, 0, 0, 0, PeakAfter(queue, <<ev>>))
  /\ scheduled' = scheduled + 1
  /\ UNCHANGED <<current_time, phase, target, all_outgoing, run>>

\* Mutant: incoming events are not counted.
HandleIncomingUncounted(evs) ==
  /\ phase = "idle"
  /\ scheduled + stats.incoming + Len(evs) <= MaxScheduled
  /\ queue' = PushAll(queue, evs)
  /\ Count(0, 0, 0, 0, PeakAfter(queue, evs))
  /\ UNCHANGED <<current_time, phase, target, all_outgoing, scheduled, run>>

\* Nothing is compared with current_time: a late event is queued like any other.
HandleIncoming(evs) ==
  /\ phase = "idle"
  /\ scheduled + stats.incoming + Len(evs) <= MaxScheduled
  /\ queue' = PushAll(queue, evs)
  /\ Count(0, 0, Len(evs), 0, PeakAfter(queue, evs))
  /\ UNCHANGED <<current_time, phase, target, all_outgoing, scheduled, run>>

BeginRun(t) ==
  /\ phase = "idle"
  /\ phase' = "running"
  /\ target' = t
  /\ all_outgoing' = <<>>
  /\ run' = [start  |-> current_time,
             last   |-> {},
             served |-> queue.counter,
             late   |-> \E e \in queue.entries : e.event.time < current_time]
  /\ UNCHANGED <<current_time, queue, stats, scheduled>>

\* What the node addressed by ev may return for it.  process_event splits the
\* returned Vec, keeping the order on each side, into events for nodes of this
\* subgraph and the others (Custom among them); only the two parts matter.
MayReturn(ev, locals, outgoing) ==
  /\ Len(locals) + Len(outgoing) <= MaxFanout
  /\ stats.generated + Len(locals) + Len(outgoing) <= MaxGenerated
  /\ \A i \in DOMAIN locals : \E d \in Delays : locals[i].time = ev.time + d
  /\ \A i \in DOMAIN outgoing : \E d \in Delays : outgoing[i].time = ev.time + d

\* An event whose destination is not one of the nodes is counted and dropped.
Respond(ev, locals, outgoing) ==
  IF ev.dst \in LocalNodes THEN MayReturn(ev, locals, outgoing)
  ELSE locals = <<>> /\ outgoing = <<>>

\* What one iteration of the loop of run_until does with the node's answer:
\* pop, process_event, schedule the local events, collect the outgoing ones.
HandleEvent(e, locals, outgoing) ==
  /\ phase = "running"
  /\ IsFirst(e, queue)
  /\ e.event.time <= target
  /\ current_time' = Larger(e.event.time, current_time)
  /\ queue' = PushAll(Without(queue, {e}), locals)
  /\ Count(1, Len(locals) + Len(outgoing), 0, Len(outgoing),
           PeakAfter(Without(queue, {e}), locals))
  /\ all_outgoing' = all_outgoing \o outgoing
  /\ run' = [run EXCEPT !.last = {e}]
  /\ UNCHANGED <<phase, target, scheduled>>

ProcessEvent(e, locals, outgoing) ==
  /\ Respond(e.event, locals, outgoing)
  /\ HandleEvent(e, locals, outgoing)

\* Mutant: the loop waits for an empty queue instead of leaving at the target.
ReturnWhenEmpty ==
  /\ phase = "running"
  /\ DueBy(queue, target) = {}
  /\ IF queue.entries = {}
     THEN /\ phase' = "idle"
          /\ current_time' = Larger(target, current_time)
          /\ run' = [run EXCEPT !.served = queue.counter]
          /\ UNCHANGED <<queue, stats, target, all_outgoing, scheduled>>
     ELSE UNCHANGED vars

\* The loop ends, the clock is advanced to the target and the Vec is returned.
ReturnFromRun ==
  /\ phase = "running"
  /\ DueBy(queue, target) = {}
  /\ current_time' = Larger(target, current_time)
  /\ phase' = "idle"
  /\ run' = [run EXCEPT !.served = queue.counter]
  /\ UNCHANGED <<queue, stats, target, all_outgoing, scheduled>>

ProcessSomeEvent ==
  \E e \in queue.entries :
    LET stamped(D) == [time : {e.event.time + d : d \in Delays}, dst : D]
    IN  \E locals \in EventSeqs(stamped(LocalNodes), MaxFanout),
           outgoing \in EventSeqs(stamped(RemoteNodes \cup {Custom}), MaxFanout) :
          ProcessEvent(e, locals, outgoing)

Next ==
  \/ InitExecutor
  \/ \E t \in 0..MaxTime : BeginRun(t)
  \/ ProcessSomeEvent
  \/ ReturnFromRun
  \/ \E ev \in InputEvent : ScheduleEvent(ev)
  \/ \E evs \in EventSeqs(InputEvent, MaxScheduled) : HandleIncoming(evs)

Spec == Init /\ [][Next]_vars

\* The executor keeps running its loop once called; its owner owes it nothing.
FairSpec == Spec /\ WF_vars(ProcessSomeEvent) /\ WF_vars(ReturnFromRun)

-------------------------------------------------------------------------------
\* The types of the state of EventSubgraphExecutor and of the run it is in.
TypeOK ==
  /\ current_time \in Nat
  /\ QueueOK(queue, Event)
  /\ stats \in StatsType
  /\ phase \in {"idle", "running"}
  /\ target \in Nat
  /\ all_outgoing \in Seq([time : Nat, dst : RemoteNodes \cup {Custom}])
  /\ scheduled \in Nat
  /\ run \in RunRecord

\* "Processes events in chronological order" (event.rs:114) and FIFO at equal
\* times (event.rs:16), within one run_until: the next event processed is
\* later than the previous one in (time, insertion) order, although the nodes
\* keep inserting while the loop runs.
ProcessedInOrder ==
  [][\A e \in run.last, f \in run'.last : e = f \/ Earlier(e, f)]_vars

\* Every event pushed is processed or still pending, and the counters of
\* EventExecutorStats tell where each came from: the owner, handle_incoming or a
\* node of this subgraph; the peak covers the queue and never exceeds what
\* was ever pushed.
Accounted ==
  LET pending == Cardinality(queue.entries)
  IN  /\ queue.counter = stats.processed + pending
      /\ queue.counter + stats.outgoing = scheduled + stats.incoming + stats.generated
      /\ pending <= stats.peak /\ stats.peak <= queue.counter

\* "Process events until we've handled all events <= target" (event.rs:256):
\* between two runs the only events left that the last target covered arrived
\* after that run returned.
NothingOverdue ==
  phase = "idle" =>
    \A e \in queue.entries : e.event.time <= target => e.seq >= run.served

\* A run that starts with no late event in the queue never processes an event
\* stamped before the clock, and sends nothing into its own past: the
\* clock is the time of the event being processed.
NoTimeTravel ==
  ~run.late =>
    /\ \A i \in DOMAIN all_outgoing : all_outgoing[i].time >= run.start
    /\ phase = "running" => \A e \in run.last : current_time = e.event.time

\* run_until leaves the clock at its target, or where it was if the target
\* lies behind it, whatever was processed; only init sets it back.
ClockReachesTarget ==
  [][/\ current_time' < current_time => queue' = EmptyQueue /\ phase = "idle"
     /\ phase = "running" /\ phase' = "idle" =>
          current_time' = Larger(target, run.start)]_vars

\* Why these hold: what a run keeps true between two iterations of its loop.
\* The entry processed last precedes all that is pending, the clock lies
\* between the start and the target, and if nothing was late at the start
\* nothing ever is, so the clock is the time of the entry processed last.
RunInvariant ==
  /\ run.served <= queue.counter
  /\ \A e, f \in run.last : e = f
  /\ ~run.late => \A i \in DOMAIN all_outgoing : all_outgoing[i].time >= run.start
  /\ phase = "running" =>
       /\ \A e \in run.last : /\ e.event.time <= target
                              /\ \A f \in queue.entries : Earlier(e, f)
       /\ run.start <= current_time
       /\ current_time <= Larger(target, run.start)
       /\ ~run.late =>
            /\ \A f \in queue.entries : f.event.time >= run.start
            /\ \A e \in run.last : e.event.time = current_time
            /\ run.last = {} => current_time = run.start

\* A call of run_until returns, as long as the nodes generate finitely many
\* events for the instants up to the target: always if no answer takes zero
\* time, and up to MaxGenerated here.  It does not wait for the queue to empty.
RunReturns == phase = "running" ~> phase = "idle"
===============================================================================
