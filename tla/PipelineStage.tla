----------------------------- MODULE PipelineStage -----------------------------
(***************************************************************************)
(* PipelineStageNode (src/nodes/pipeline.rs) as operators on its value: a  *)
(* stage serves one item at a time from a bounded queue and holds a        *)
(* finished item back until its downstream is ready.                       *)
(*                                                                         *)
(* current_item, an Option, is a sequence of at most one item.  The stamp  *)
(* enter_time is the sender's and nothing reads it.                        *)
(***************************************************************************)
EXTENDS Naturals, Sequences

CONSTANT Unlimited   \* max_queue_depth: None

ASSUME UnlimitedAssumption == Unlimited \notin Nat

StageState == {"Idle", "Busy", "Stalled"}

\* What an item found when it was accepted is history: the stage's clock, the
\* items ahead of it, and the ticks so far in which a finished item could leave.
Item(Data) == [id : Nat, data : Data, remaining_cycles : Nat,
               cycle : Nat, ahead : Nat, ready_at : Nat]

NoStats == [processed |-> 0, idle |-> 0, busy |-> 0, stalled |-> 0,
            received |-> 0, dropped |-> 0]
StageStats == [processed : Nat, idle : Nat, busy : Nat, stalled : Nat,
               received : Nat, dropped : Nat]

\* ready_cycles is history; the rest are the fields of the node.
NewStage(latency, depth, has_next) ==
  [latency_cycles |-> latency, max_queue_depth |-> depth, has_next |-> has_next,
   state |-> "Idle", current_item |-> <<>>, input_queue |-> <<>>,
   item_counter |-> 0, downstream_ready |-> TRUE, stats |-> NoStats,
   ready_cycles |-> 0]

\* Node::init: the configuration stays.
InitStage(s) == NewStage(s.latency_cycles, s.max_queue_depth, s.has_next)

Cycles(s) == s.stats.idle + s.stats.busy + s.stats.stalled
Contents(s) == s.current_item \o s.input_queue
DataOf(items) == [k \in DOMAIN items |-> items[k].data]

\* Mutants: one item too many; an item leaves whatever downstream says.
AcceptOneMore(s) ==
  s.max_queue_depth # Unlimited => Len(s.input_queue) <= s.max_queue_depth
LeaveAnyway(s) == TRUE

CanAccept(s) ==
  s.max_queue_depth # Unlimited => Len(s.input_queue) < s.max_queue_depth

MayLeave(s) == s.downstream_ready \/ ~s.has_next

\* on_event with a boolean "downstream_ready" in its data.
SignalReady(s, ready) == [s EXCEPT !.downstream_ready = ready]

\* on_event with a work item.  A full queue drops it and tells nobody.
Receive(s, data) ==
  LET item == [id |-> s.item_counter, data |-> data,
               remaining_cycles |-> s.latency_cycles,
               cycle |-> Cycles(s), ahead |-> Len(Contents(s)), ready_at |-> s.ready_cycles]
  IN  IF CanAccept(s)
      THEN [s EXCEPT !.stats.received = @ + 1, !.item_counter = @ + 1,
                     !.input_queue = Append(@, item)]
      ELSE [s EXCEPT !.stats.received = @ + 1, !.stats.dropped = @ + 1]

\* Mutant: the latest item is served first.
StartLatest(s) ==
  IF s.input_queue = <<>> THEN s
  ELSE [s EXCEPT
    !.state = "Busy",
    !.current_item = <<[s.input_queue[Len(s.input_queue)] EXCEPT
                         !.remaining_cycles = s.latency_cycles]>>,
    !.input_queue = SubSeq(@, 1, Len(@) - 1)]

\* try_start_processing, always called with no current item.
TryStart(s) ==
  IF s.input_queue = <<>> THEN s
  ELSE [s EXCEPT
    !.state = "Busy",
    !.current_item = <<[Head(s.input_queue) EXCEPT !.remaining_cycles = s.latency_cycles]>>,
    !.input_queue = Tail(@)]

\* What a tick does to the stage, and the item that leaves it: here none.
Stay(s) == [stage |-> s, left |-> <<>>]

\* Mutant: the next item is not started in the tick in which one leaves.
LeaveBubble(s) ==
  [stage |-> [s EXCEPT !.stats.processed = @ + 1, !.current_item = <<>>, !.state = "Idle"],
   left  |-> s.current_item]

\* The finished item leaves and the next one starts in the same tick.
Leave(s) ==
  [stage |-> TryStart([s EXCEPT !.stats.processed = @ + 1,
                                !.current_item = <<>>, !.state = "Idle"]),
   left  |-> s.current_item]

IdleTick(s) == Stay(TryStart([s EXCEPT !.stats.idle = @ + 1]))

\* Mutant: completion is noticed a tick late.
BusyTickLate(s) ==
  LET left   == s.current_item[1].remaining_cycles
      worked == [s EXCEPT !.stats.busy = @ + 1,
                          !.current_item[1].remaining_cycles = IF left > 0 THEN left - 1 ELSE 0]
  IN  IF left > 0 THEN Stay(worked)
      ELSE IF MayLeave(s) THEN Leave(worked)
      ELSE Stay([worked EXCEPT !.state = "Stalled"])

\* An item without latency takes this one tick all the same.
BusyTick(s) ==
  LET left   == s.current_item[1].remaining_cycles
      worked == [s EXCEPT !.stats.busy = @ + 1,
                          !.current_item[1].remaining_cycles = IF left > 0 THEN left - 1 ELSE 0]
  IN  IF left > 1 THEN Stay(worked)
      ELSE IF MayLeave(s) THEN Leave(worked)
      ELSE Stay([worked EXCEPT !.state = "Stalled"])

StalledTick(s) ==
  LET waited == [s EXCEPT !.stats.stalled = @ + 1]
  IN  IF s.downstream_ready THEN Leave(waited) ELSE Stay(waited)

OnTick(s) ==
  LET seen == [s EXCEPT !.ready_cycles = @ + (IF MayLeave(s) THEN 1 ELSE 0)]
  IN  CASE s.state = "Idle"    -> IdleTick(seen)
        [] s.state = "Busy"    -> BusyTick(seen)
        [] s.state = "Stalled" -> StalledTick(seen)

\* create_output_event: the events for the next stage, by their data.
Output(s, left) == IF s.has_next THEN DataOf(left) ELSE <<>>

-------------------------------------------------------------------------------
Stage(Data) ==
  [latency_cycles : Nat, max_queue_depth : Nat \cup {Unlimited}, has_next : BOOLEAN,
   state : StageState, current_item : Seq(Item(Data)), input_queue : Seq(Item(Data)),
   item_counter : Nat, downstream_ready : BOOLEAN, stats : StageStats, ready_cycles : Nat]

\* The type of a stage; the queue never exceeds its depth, and the state says
\* whether an item is being served and whether it is finished.
StageOK(s, Data) ==
  /\ s \in Stage(Data)
  /\ Len(s.current_item) = IF s.state = "Idle" THEN 0 ELSE 1
  /\ s.max_queue_depth # Unlimited => Len(s.input_queue) <= s.max_queue_depth
  /\ s.state = "Stalled" => s.has_next /\ s.current_item[1].remaining_cycles = 0

\* The cycles an item is served.
Work(s) == IF s.latency_cycles = 0 THEN 1 ELSE s.latency_cycles
===============================================================================
