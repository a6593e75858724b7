-------------------------- MODULE PipelineChainProofs --------------------------
(***************************************************************************)
(* Proofs about pipeline stages and chains of them, for every number of    *)
(* stages, latency and queue depth, and for both drivers: first what the   *)
(* operators of PipelineStage keep of one stage, which items, signals and  *)
(* ticks reach in any order, then the theorems about PipelineChain.        *)
(***************************************************************************)
EXTENDS PipelineChain, SequenceTheorems, WellFoundedInduction, TLAPS

-------------------------------------------------------------------------------
(* What the operators of PipelineStage do to the fields of a stage. *)

\* A stage takes the first item of its queue, or has none to take.
Started(s, t) ==
  \/ /\ s.input_queue # <<>>
     /\ t.state = "Busy"
     /\ t.current_item = <<[Head(s.input_queue) EXCEPT !.remaining_cycles = s.latency_cycles]>>
     /\ t.input_queue = Tail(s.input_queue)
  \/ /\ s.input_queue = <<>>
     /\ t.state = "Idle" /\ t.current_item = <<>> /\ t.input_queue = <<>>

\* The stage keeps its items, except that the current one is served.
Kept(s, t) ==
  /\ t.input_queue = s.input_queue
  /\ \/ /\ s.state = "Busy" /\ s.current_item[1].remaining_cycles > 1
        /\ t.state = "Busy"
        /\ t.current_item = <<[s.current_item[1] EXCEPT !.remaining_cycles = @ - 1]>>
        /\ t.stats.busy = s.stats.busy + 1
     \/ /\ s.state = "Busy" /\ s.current_item[1].remaining_cycles <= 1 /\ ~MayLeave(s)
        /\ t.state = "Stalled"
        /\ t.current_item = <<[s.current_item[1] EXCEPT !.remaining_cycles = 0]>>
        /\ t.stats.busy = s.stats.busy + 1
     \/ /\ s.state = "Stalled" /\ ~MayLeave(s)
        /\ t.state = "Stalled" /\ t.current_item = s.current_item
        /\ t.stats.busy = s.stats.busy

\* The current item leaves.
Left(s, t, gone) ==
  /\ MayLeave(s)
  /\ Started(s, t)
  /\ t.stats.processed = s.stats.processed + 1
  /\ \/ /\ s.state = "Busy" /\ s.current_item[1].remaining_cycles <= 1
        /\ gone = <<[s.current_item[1] EXCEPT !.remaining_cycles = 0]>>
        /\ t.stats.busy = s.stats.busy + 1
     \/ /\ s.state = "Stalled"
        /\ gone = s.current_item
        /\ t.stats.busy = s.stats.busy

Ticked(s, t, gone) ==
  /\ t.latency_cycles = s.latency_cycles /\ t.max_queue_depth = s.max_queue_depth
  /\ t.has_next = s.has_next /\ t.downstream_ready = s.downstream_ready
  /\ t.item_counter = s.item_counter
  /\ t.stats.received = s.stats.received /\ t.stats.dropped = s.stats.dropped
  /\ t.ready_cycles = s.ready_cycles + (IF MayLeave(s) THEN 1 ELSE 0)
  /\ Cycles(t) = Cycles(s) + 1
  /\ \/ /\ s.state = "Idle" /\ Started(s, t) /\ gone = <<>>
        /\ t.stats.processed = s.stats.processed /\ t.stats.busy = s.stats.busy
     \/ Kept(s, t) /\ gone = <<>> /\ t.stats.processed = s.stats.processed
     \/ Left(s, t, gone)

\* A current item that is there is the only one.
LEMMA CurrentItem ==
  ASSUME NEW D, NEW s, StageOK(s, D), s.state # "Idle"
  PROVE  /\ s.current_item[1] \in Item(D) /\ s.current_item = <<s.current_item[1]>>
         /\ s.current_item[1].remaining_cycles \in Nat
<1>1. s.current_item \in Seq(Item(D)) /\ Len(s.current_item) = 1
  BY DEF StageOK, Stage
<1>2. s.current_item[1] \in Item(D) /\ s.current_item = <<s.current_item[1]>>
  BY <1>1
<1>3. QED
  BY <1>2 DEF Item

\* try_start_processing on a stage without a current item.
LEMMA TryStartEffect ==
  ASSUME NEW D, NEW s \in Stage(D), s.state = "Idle", s.current_item = <<>>
  PROVE  /\ TryStart(s) \in Stage(D)
         /\ Started(s, TryStart(s))
         /\ TryStart(s).latency_cycles = s.latency_cycles
         /\ TryStart(s).max_queue_depth = s.max_queue_depth
         /\ TryStart(s).has_next = s.has_next
         /\ TryStart(s).downstream_ready = s.downstream_ready
         /\ TryStart(s).item_counter = s.item_counter
         /\ TryStart(s).stats = s.stats /\ TryStart(s).ready_cycles = s.ready_cycles
<1>1. CASE s.input_queue = <<>>
  BY <1>1 DEF TryStart, Started
<1>2. CASE s.input_queue # <<>>
  <2> DEFINE item == [Head(s.input_queue) EXCEPT !.remaining_cycles = s.latency_cycles]
             rest == Tail(s.input_queue)
  <2>1. s.input_queue \in Seq(Item(D)) /\ s.latency_cycles \in Nat
    BY DEF Stage
  <2>2. Head(s.input_queue) \in Item(D) /\ rest \in Seq(Item(D))
    BY <1>2, <2>1
  <2>3. item \in Item(D)
    BY <2>1, <2>2 DEF Item
  <2>4. TryStart(s) = [s EXCEPT !.state = "Busy", !.current_item = <<item>>,
                                !.input_queue = rest]
    BY <1>2 DEF TryStart
  <2>5. <<item>> \in Seq(Item(D)) /\ "Busy" \in StageState
    BY <2>3 DEF StageState
  <2>6. Started(s, TryStart(s))
    <3>1. /\ TryStart(s).state = "Busy" /\ TryStart(s).current_item = <<item>>
          /\ TryStart(s).input_queue = rest
      <4> HIDE DEF item, rest
      <4>1. QED
        BY <2>4 DEF Stage
    <3>2. QED
      BY <1>2, <3>1 DEF Started
  <2> HIDE DEF item, rest
  <2>7. QED
    BY <2>2, <2>4, <2>5, <2>6 DEF Stage
<1>3. QED
  BY <1>1, <1>2

\* The statistics of a stage are numbers, and stay so when one is counted up.
LEMMA StatsCount ==
  ASSUME NEW D, NEW s \in Stage(D)
  PROVE  /\ s.stats \in StageStats
         /\ s.stats.idle \in Nat /\ s.stats.busy \in Nat /\ s.stats.stalled \in Nat
         /\ s.stats.processed \in Nat /\ s.stats.received \in Nat /\ s.stats.dropped \in Nat
         /\ s.item_counter \in Nat /\ s.ready_cycles \in Nat /\ Cycles(s) \in Nat
         /\ s.latency_cycles \in Nat
         /\ [s.stats EXCEPT !.idle = @ + 1] \in StageStats
         /\ [s.stats EXCEPT !.busy = @ + 1] \in StageStats
         /\ [s.stats EXCEPT !.stalled = @ + 1] \in StageStats
         /\ [s.stats EXCEPT !.processed = @ + 1] \in StageStats
<1>1. /\ s.stats \in StageStats /\ s.item_counter \in Nat /\ s.ready_cycles \in Nat
      /\ s.latency_cycles \in Nat
  BY DEF Stage
<1> DEFINE st == s.stats
<1>2. /\ st.idle \in Nat /\ st.busy \in Nat /\ st.stalled \in Nat
      /\ st.processed \in Nat /\ st.received \in Nat /\ st.dropped \in Nat
  BY <1>1 DEF StageStats
<1>3. st.idle + st.busy + st.stalled \in Nat
  BY <1>2
<1>4. st \in StageStats
  BY <1>1
<1> HIDE DEF st
<1>5. /\ [st EXCEPT !.idle = @ + 1] \in StageStats
      /\ [st EXCEPT !.busy = @ + 1] \in StageStats
      /\ [st EXCEPT !.stalled = @ + 1] \in StageStats
      /\ [st EXCEPT !.processed = @ + 1] \in StageStats
  <2>1. st.idle + 1 \in Nat /\ st.busy + 1 \in Nat /\ st.stalled + 1 \in Nat
        /\ st.processed + 1 \in Nat
    BY <1>2
  <2>2. QED
    BY <1>4, <2>1 DEF StageStats
<1>6. QED
  BY <1>1, <1>2, <1>3, <1>5 DEF Cycles, st

\* The current item leaves a stage.
LEMMA LeaveEffect ==
  ASSUME NEW D, NEW s \in Stage(D)
  PROVE  LET t == Leave(s).stage
         IN  /\ Leave(s).left = s.current_item
             /\ t \in Stage(D) /\ Started(s, t)
             /\ t.latency_cycles = s.latency_cycles /\ t.max_queue_depth = s.max_queue_depth
             /\ t.has_next = s.has_next /\ t.downstream_ready = s.downstream_ready
             /\ t.item_counter = s.item_counter /\ t.ready_cycles = s.ready_cycles
             /\ t.stats = [s.stats EXCEPT !.processed = @ + 1]
<1> DEFINE cleared == [s EXCEPT !.stats.processed = @ + 1, !.current_item = <<>>,
                                !.state = "Idle"]
<1>1. Leave(s).left = s.current_item /\ Leave(s).stage = TryStart(cleared)
  BY DEF Leave
<1>2. [s.stats EXCEPT !.processed = @ + 1] \in StageStats
  BY StatsCount
<1>7. cleared = [s EXCEPT !.stats = [s.stats EXCEPT !.processed = @ + 1], !.current_item = <<>>,
                          !.state = "Idle"]
  BY DEF Stage
<1>3. /\ cleared \in Stage(D)
      /\ cleared.state = "Idle" /\ cleared.current_item = <<>>
      /\ cleared.input_queue = s.input_queue
      /\ cleared.latency_cycles = s.latency_cycles
      /\ cleared.max_queue_depth = s.max_queue_depth
      /\ cleared.has_next = s.has_next
      /\ cleared.downstream_ready = s.downstream_ready
      /\ cleared.item_counter = s.item_counter /\ cleared.ready_cycles = s.ready_cycles
      /\ cleared.stats = [s.stats EXCEPT !.processed = @ + 1]
  <2> DEFINE st == [s.stats EXCEPT !.processed = @ + 1]
  <2>1. st \in StageStats /\ <<>> \in Seq(Item(D)) /\ "Idle" \in StageState
    BY <1>2 DEF StageState
  <2>2. cleared = [s EXCEPT !.stats = st, !.current_item = <<>>, !.state = "Idle"]
    BY <1>7
  <2> HIDE DEF cleared, st
  <2>3. /\ cleared \in Stage(D)
        /\ cleared.state = "Idle" /\ cleared.current_item = <<>>
        /\ cleared.input_queue = s.input_queue
        /\ cleared.latency_cycles = s.latency_cycles
        /\ cleared.max_queue_depth = s.max_queue_depth
        /\ cleared.has_next = s.has_next
        /\ cleared.downstream_ready = s.downstream_ready
        /\ cleared.item_counter = s.item_counter /\ cleared.ready_cycles = s.ready_cycles
        /\ cleared.stats = st
    BY <2>1, <2>2 DEF Stage
  <2>4. QED
    BY <2>3 DEF st
<1> HIDE DEF cleared
<1>4. Started(cleared, TryStart(cleared)) => Started(s, TryStart(cleared))
  BY <1>3 DEF Started
<1>5. QED
  BY <1>1, <1>3, <1>4, TryStartEffect

\* on_tick, in terms of the fields it changes.
LEMMA OnTickEffect ==
  ASSUME NEW D, NEW s, StageOK(s, D)
  PROVE  /\ Ticked(s, OnTick(s).stage, OnTick(s).left)
         /\ OnTick(s).stage \in Stage(D)
<1> DEFINE seen == [s EXCEPT !.ready_cycles = @ + (IF MayLeave(s) THEN 1 ELSE 0)]
           ready == s.ready_cycles + (IF MayLeave(s) THEN 1 ELSE 0)
           cur == s.current_item[1]
<1>1. s \in Stage(D) /\ ready \in Nat
  <2>1. s \in Stage(D)
    BY DEF StageOK
  <2>2. s.ready_cycles \in Nat
    BY <2>1, StatsCount
  <2>3. QED
    BY <2>1, <2>2
<1>2. /\ seen \in Stage(D) /\ seen.ready_cycles = ready
      /\ seen.state = s.state /\ seen.current_item = s.current_item
      /\ seen.input_queue = s.input_queue /\ seen.latency_cycles = s.latency_cycles
      /\ seen.max_queue_depth = s.max_queue_depth
      /\ seen.has_next = s.has_next /\ seen.downstream_ready = s.downstream_ready
      /\ seen.item_counter = s.item_counter /\ seen.stats = s.stats
  BY <1>1 DEF Stage
<1>3. MayLeave(seen) = MayLeave(s)
  BY <1>2 DEF MayLeave
<1>4. OnTick(s) = CASE s.state = "Idle"    -> IdleTick(seen)
                    [] s.state = "Busy"    -> BusyTick(seen)
                    [] s.state = "Stalled" -> StalledTick(seen)
  BY DEF OnTick
<1>5. s.state \in {"Idle", "Busy", "Stalled"}
  BY <1>1 DEF Stage, StageState
<1> HIDE DEF seen, ready
<1>6. CASE s.state = "Idle"
  <2> DEFINE x == [seen EXCEPT !.stats.idle = @ + 1]
  <2>1. OnTick(s).stage = TryStart(x) /\ OnTick(s).left = <<>>
    BY <1>4, <1>6 DEF IdleTick, Stay
  <2>2. [s.stats EXCEPT !.idle = @ + 1] \in StageStats
    BY <1>1, StatsCount
  <2>3. /\ x \in Stage(D) /\ x.ready_cycles = ready
        /\ x.state = s.state /\ x.current_item = s.current_item
        /\ x.input_queue = s.input_queue /\ x.latency_cycles = s.latency_cycles
        /\ x.max_queue_depth = s.max_queue_depth
        /\ x.has_next = s.has_next /\ x.downstream_ready = s.downstream_ready
        /\ x.item_counter = s.item_counter /\ x.stats = [s.stats EXCEPT !.idle = @ + 1]
    BY <1>2, <2>2 DEF Stage
  <2> HIDE DEF x
  <2>4. s.current_item = <<>>
    BY <1>1, <1>6 DEF StageOK, Stage
  <2>5. Started(x, TryStart(x)) => Started(s, TryStart(x))
    BY <2>3 DEF Started
  <2>6. /\ Cycles(TryStart(x)) = Cycles(s) + 1
        /\ TryStart(x).stats.processed = s.stats.processed
        /\ TryStart(x).stats.busy = s.stats.busy
        /\ TryStart(x).stats.received = s.stats.received
        /\ TryStart(x).stats.dropped = s.stats.dropped
    <3>1. TryStart(x).stats = [s.stats EXCEPT !.idle = @ + 1]
      BY <1>6, <2>3, <2>4, TryStartEffect
    <3>2. s.stats \in StageStats
      BY <1>1 DEF Stage
    <3>3. QED
      BY <3>1, <3>2 DEF Cycles, StageStats
  <2>7. QED
    BY <1>6, <2>1, <2>3, <2>4, <2>5, <2>6, TryStartEffect DEF Ticked, ready
<1>7. CASE s.state = "Busy"
  <2> DEFINE todo   == cur.remaining_cycles
             fewer  == IF todo > 0 THEN todo - 1 ELSE 0
             item   == [cur EXCEPT !.remaining_cycles = fewer]
             worked == [seen EXCEPT !.stats.busy = @ + 1,
                                    !.current_item[1].remaining_cycles = fewer]
  <2>1. cur \in Item(D) /\ s.current_item = <<cur>> /\ todo \in Nat
    BY <1>7, CurrentItem
  <2>2. item \in Item(D) /\ fewer \in Nat
    BY <2>1 DEF Item
  <2>3. [s.current_item EXCEPT ![1].remaining_cycles = fewer] = <<item>>
    BY <2>1
  <2>4. [s.stats EXCEPT !.busy = @ + 1] \in StageStats
    BY <1>1, StatsCount
  <2>5. worked = [seen EXCEPT !.stats = [s.stats EXCEPT !.busy = @ + 1],
                              !.current_item = <<item>>]
    BY <1>2, <2>3 DEF Stage
  <2>6. /\ worked \in Stage(D) /\ worked.ready_cycles = ready
        /\ worked.state = "Busy" /\ worked.current_item = <<item>>
        /\ worked.input_queue = s.input_queue /\ worked.latency_cycles = s.latency_cycles
        /\ worked.max_queue_depth = s.max_queue_depth
        /\ worked.has_next = s.has_next /\ worked.downstream_ready = s.downstream_ready
        /\ worked.item_counter = s.item_counter
        /\ worked.stats = [s.stats EXCEPT !.busy = @ + 1]
    <3>1. <<item>> \in Seq(Item(D))
      BY <2>2
    <3> HIDE DEF item, worked
    <3>2. QED
      BY <1>2, <1>7, <2>4, <2>5, <3>1 DEF Stage
  <2>7. OnTick(s) = IF todo > 1 THEN Stay(worked)
                    ELSE IF MayLeave(s) THEN Leave(worked)
                    ELSE Stay([worked EXCEPT !.state = "Stalled"])
    BY <1>2, <1>3, <1>4, <1>7 DEF BusyTick
  <2> HIDE DEF worked
  <2>8. s.stats \in StageStats
    BY <1>1 DEF Stage
  <2>9. \A st : st = [s.stats EXCEPT !.busy = @ + 1] =>
          /\ st.idle + st.busy + st.stalled = Cycles(s) + 1
          /\ st.processed = s.stats.processed /\ st.busy = s.stats.busy + 1
          /\ st.received = s.stats.received /\ st.dropped = s.stats.dropped
    BY <2>8 DEF Cycles, StageStats
  <2>10. CASE todo > 1
    <3>1. OnTick(s).stage = worked /\ OnTick(s).left = <<>>
      BY <2>7, <2>10 DEF Stay
    <3>2. fewer = todo - 1
      BY <2>1, <2>10
    <3>3. Kept(s, worked)
      BY <1>7, <2>6, <2>9, <2>10, <3>2 DEF Kept
    <3>4. QED
      BY <2>6, <2>9, <3>1, <3>3 DEF Ticked, Cycles, ready
  <2>11. CASE todo <= 1 /\ MayLeave(s)
    <3>1. OnTick(s) = Leave(worked)
      BY <2>1, <2>7, <2>11
    <3>2. fewer = 0
      BY <2>1, <2>11
    <3> DEFINE t == Leave(worked).stage
    <3>3. /\ Leave(worked).left = worked.current_item
          /\ t \in Stage(D) /\ Started(worked, t)
          /\ t.latency_cycles = worked.latency_cycles /\ t.max_queue_depth = worked.max_queue_depth
          /\ t.has_next = worked.has_next /\ t.downstream_ready = worked.downstream_ready
          /\ t.item_counter = worked.item_counter /\ t.ready_cycles = worked.ready_cycles
          /\ t.stats = [worked.stats EXCEPT !.processed = @ + 1]
      BY <2>6, LeaveEffect
    <3> HIDE DEF t
    <3>4. Started(s, t)
      BY <2>6, <3>3 DEF Started
    <3>5. /\ t.stats.idle + t.stats.busy + t.stats.stalled = Cycles(s) + 1
          /\ t.stats.processed = s.stats.processed + 1 /\ t.stats.busy = s.stats.busy + 1
          /\ t.stats.received = s.stats.received /\ t.stats.dropped = s.stats.dropped
      BY <2>6, <2>8, <3>3 DEF Cycles, StageStats
    <3>6. Leave(worked).left = <<[cur EXCEPT !.remaining_cycles = 0]>>
      BY <2>6, <3>2, <3>3
    <3>7. Left(s, t, Leave(worked).left)
      BY <1>7, <2>11, <3>4, <3>5, <3>6 DEF Left
    <3>8. QED
      BY <2>6, <3>1, <3>3, <3>5, <3>7 DEF Ticked, Cycles, ready, t
  <2>12. CASE todo <= 1 /\ ~MayLeave(s)
    <3> DEFINE t == [worked EXCEPT !.state = "Stalled"]
    <3>1. OnTick(s).stage = t /\ OnTick(s).left = <<>>
      BY <2>1, <2>7, <2>12 DEF Stay
    <3>2. fewer = 0
      BY <2>1, <2>12
    <3>3. /\ t \in Stage(D) /\ t.ready_cycles = ready
          /\ t.state = "Stalled" /\ t.current_item = <<item>>
          /\ t.input_queue = s.input_queue /\ t.latency_cycles = s.latency_cycles
          /\ t.max_queue_depth = s.max_queue_depth
          /\ t.has_next = s.has_next /\ t.downstream_ready = s.downstream_ready
          /\ t.item_counter = s.item_counter
          /\ t.stats = [s.stats EXCEPT !.busy = @ + 1]
      BY <2>6 DEF Stage, StageState
    <3> HIDE DEF t
    <3>4. Kept(s, t)
      BY <1>7, <2>9, <2>12, <3>2, <3>3 DEF Kept
    <3>5. QED
      BY <2>9, <3>1, <3>3, <3>4 DEF Ticked, Cycles, ready
  <2>13. QED
    BY <2>1, <2>10, <2>11, <2>12
<1>8. CASE s.state = "Stalled"
  <2> DEFINE waited == [seen EXCEPT !.stats.stalled = @ + 1]
  <2>1. [s.stats EXCEPT !.stalled = @ + 1] \in StageStats
    BY <1>1, StatsCount
  <2>2. /\ waited \in Stage(D) /\ waited.ready_cycles = ready
        /\ waited.state = s.state /\ waited.current_item = s.current_item
        /\ waited.input_queue = s.input_queue /\ waited.latency_cycles = s.latency_cycles
        /\ waited.max_queue_depth = s.max_queue_depth
        /\ waited.has_next = s.has_next /\ waited.downstream_ready = s.downstream_ready
        /\ waited.item_counter = s.item_counter
        /\ waited.stats = [s.stats EXCEPT !.stalled = @ + 1]
    BY <1>2, <2>1 DEF Stage
  <2>3. OnTick(s) = IF s.downstream_ready THEN Leave(waited) ELSE Stay(waited)
    BY <1>2, <1>4, <1>8 DEF StalledTick
  <2> HIDE DEF waited
  <2>4. MayLeave(s) <=> s.downstream_ready
    BY <1>8 DEF MayLeave, StageOK
  <2>5. s.stats \in StageStats
    BY <1>1 DEF Stage
  <2>6. CASE s.downstream_ready
    <3> DEFINE t == Leave(waited).stage
    <3>1. OnTick(s) = Leave(waited)
      BY <2>3, <2>6
    <3>3. /\ Leave(waited).left = waited.current_item
          /\ t \in Stage(D) /\ Started(waited, t)
          /\ t.latency_cycles = waited.latency_cycles /\ t.max_queue_depth = waited.max_queue_depth
          /\ t.has_next = waited.has_next /\ t.downstream_ready = waited.downstream_ready
          /\ t.item_counter = waited.item_counter /\ t.ready_cycles = waited.ready_cycles
          /\ t.stats = [waited.stats EXCEPT !.processed = @ + 1]
      BY <2>2, LeaveEffect
    <3> HIDE DEF t
    <3>4. Started(s, t)
      BY <2>2, <3>3 DEF Started
    <3>5. /\ t.stats.idle + t.stats.busy + t.stats.stalled = Cycles(s) + 1
          /\ t.stats.processed = s.stats.processed + 1 /\ t.stats.busy = s.stats.busy
          /\ t.stats.received = s.stats.received /\ t.stats.dropped = s.stats.dropped
      BY <2>2, <2>5, <3>3 DEF Cycles, StageStats
    <3>6. Left(s, t, Leave(waited).left)
      BY <1>8, <2>2, <2>4, <2>6, <3>3, <3>4, <3>5 DEF Left
    <3>7. QED
      BY <2>2, <3>1, <3>3, <3>5, <3>6 DEF Ticked, Cycles, ready, t
  <2>7. CASE ~s.downstream_ready
    <3>1. OnTick(s).stage = waited /\ OnTick(s).left = <<>>
      BY <2>3, <2>7 DEF Stay
    <3>2. /\ waited.stats.idle + waited.stats.busy + waited.stats.stalled = Cycles(s) + 1
          /\ waited.stats.processed = s.stats.processed /\ waited.stats.busy = s.stats.busy
          /\ waited.stats.received = s.stats.received
          /\ waited.stats.dropped = s.stats.dropped
      BY <2>2, <2>5 DEF Cycles, StageStats
    <3>3. Kept(s, waited)
      BY <1>8, <2>2, <2>4, <2>7, <3>2 DEF Kept
    <3>4. QED
      BY <2>2, <3>1, <3>2, <3>3 DEF Ticked, Cycles, ready
  <2>8. QED
    BY <2>6, <2>7
<1>9. QED
  BY <1>5, <1>6, <1>7, <1>8

\* on_event with a work item, in terms of the fields it changes.
Received(s, t, data) ==
  /\ t.latency_cycles = s.latency_cycles /\ t.max_queue_depth = s.max_queue_depth
  /\ t.has_next = s.has_next /\ t.downstream_ready = s.downstream_ready
  /\ t.state = s.state /\ t.current_item = s.current_item
  /\ t.ready_cycles = s.ready_cycles /\ Cycles(t) = Cycles(s)
  /\ t.stats.processed = s.stats.processed /\ t.stats.busy = s.stats.busy
  /\ t.stats.received = s.stats.received + 1
  /\ \/ /\ CanAccept(s)
        /\ t.stats.dropped = s.stats.dropped /\ t.item_counter = s.item_counter + 1
        /\ t.input_queue = Append(s.input_queue,
             [id |-> s.item_counter, data |-> data, remaining_cycles |-> s.latency_cycles,
              cycle |-> Cycles(s), ahead |-> Len(Contents(s)), ready_at |-> s.ready_cycles])
     \/ /\ ~CanAccept(s)
        /\ t.stats.dropped = s.stats.dropped + 1 /\ t.item_counter = s.item_counter
        /\ t.input_queue = s.input_queue

\* What on_event changes in a stage when an item arrives (pipeline.rs).
LEMMA ReceiveEffect ==
  ASSUME NEW D, NEW s, StageOK(s, D), NEW data \in D
  PROVE  Receive(s, data) \in Stage(D) /\ Received(s, Receive(s, data), data)
<1> DEFINE item == [id |-> s.item_counter, data |-> data, remaining_cycles |-> s.latency_cycles,
                    cycle |-> Cycles(s), ahead |-> Len(Contents(s)), ready_at |-> s.ready_cycles]
           accepted == [s.stats EXCEPT !.received = @ + 1]
           refused  == [s.stats EXCEPT !.received = @ + 1, !.dropped = @ + 1]
<1>1. /\ s \in Stage(D) /\ s.stats \in StageStats /\ s.item_counter \in Nat
      /\ s.stats.received + 1 \in Nat /\ s.stats.dropped + 1 \in Nat
      /\ s.input_queue \in Seq(Item(D)) /\ s.current_item \in Seq(Item(D))
  <2>1. s \in Stage(D)
    BY DEF StageOK
  <2>2. s.stats.received \in Nat /\ s.stats.dropped \in Nat
    BY <2>1, StatsCount
  <2>3. QED
    BY <2>1, <2>2 DEF Stage
<1>2. item \in Item(D)
  <2>1. Contents(s) \in Seq(Item(D))
    BY <1>1 DEF Contents
  <2>2. Len(Contents(s)) \in Nat
    BY <2>1
  <2>3. QED
    BY <1>1, <2>2, StatsCount DEF Item
<1>3. accepted \in StageStats /\ refused \in StageStats
  BY <1>1 DEF StageStats
<1>4. /\ accepted.received = s.stats.received + 1 /\ accepted.dropped = s.stats.dropped
      /\ accepted.processed = s.stats.processed /\ accepted.busy = s.stats.busy
      /\ accepted.idle = s.stats.idle /\ accepted.stalled = s.stats.stalled
      /\ refused.received = s.stats.received + 1 /\ refused.dropped = s.stats.dropped + 1
      /\ refused.processed = s.stats.processed /\ refused.busy = s.stats.busy
      /\ refused.idle = s.stats.idle /\ refused.stalled = s.stats.stalled
  BY <1>1 DEF StageStats
<1>5. CASE CanAccept(s)
  <2>1. Receive(s, data) = [s EXCEPT !.stats = accepted, !.item_counter = @ + 1,
                                     !.input_queue = Append(@, item)]
    BY <1>1, <1>5 DEF Receive, Stage
  <2> HIDE DEF accepted, refused, item
  <2> DEFINE q == Append(s.input_queue, item)
             t == Receive(s, data)
  <2>2. q \in Seq(Item(D)) /\ s.item_counter + 1 \in Nat
    BY <1>1, <1>2
  <2>3. t = [s EXCEPT !.stats = accepted, !.item_counter = @ + 1, !.input_queue = q]
    BY <2>1
  <2> HIDE DEF q, t
  <2>4. /\ t \in Stage(D) /\ t.stats = accepted /\ t.input_queue = q
        /\ t.item_counter = s.item_counter + 1
        /\ t.latency_cycles = s.latency_cycles /\ t.max_queue_depth = s.max_queue_depth
        /\ t.has_next = s.has_next /\ t.downstream_ready = s.downstream_ready
        /\ t.state = s.state /\ t.current_item = s.current_item
        /\ t.ready_cycles = s.ready_cycles
    BY <1>1, <1>3, <2>2, <2>3 DEF Stage
  <2>5. QED
    BY <1>4, <1>5, <2>4 DEF Received, Cycles, q, t, item
<1>6. CASE ~CanAccept(s)
  <2> DEFINE t == Receive(s, data)
  <2>1. t = [s EXCEPT !.stats = refused]
    BY <1>1, <1>6 DEF Receive, Stage
  <2> HIDE DEF accepted, refused, item, t
  <2>2. /\ t \in Stage(D) /\ t.stats = refused /\ t.input_queue = s.input_queue
        /\ t.item_counter = s.item_counter
        /\ t.latency_cycles = s.latency_cycles /\ t.max_queue_depth = s.max_queue_depth
        /\ t.has_next = s.has_next /\ t.downstream_ready = s.downstream_ready
        /\ t.state = s.state /\ t.current_item = s.current_item
        /\ t.ready_cycles = s.ready_cycles
    BY <1>1, <1>3, <2>1 DEF Stage
  <2>3. QED
    BY <1>4, <1>6, <2>2 DEF Received, Cycles, t
<1>7. QED
  BY <1>5, <1>6

\* on_event with a signal changes the signal only.
LEMMA SignalEffect ==
  ASSUME NEW D, NEW s, StageOK(s, D), NEW ready \in BOOLEAN
  PROVE  LET t == SignalReady(s, ready)
         IN  /\ t \in Stage(D) /\ t.downstream_ready = ready
             /\ t.latency_cycles = s.latency_cycles /\ t.max_queue_depth = s.max_queue_depth
             /\ t.has_next = s.has_next /\ t.state = s.state
             /\ t.current_item = s.current_item /\ t.input_queue = s.input_queue
             /\ t.item_counter = s.item_counter /\ t.stats = s.stats
             /\ t.ready_cycles = s.ready_cycles
BY DEF SignalReady, StageOK, Stage

\* The fields of a new stage.
LEMMA NewStageEffect ==
  ASSUME NEW D, NEW latency \in Nat, NEW depth \in Nat \cup {Unlimited}, NEW next \in BOOLEAN
  PROVE  LET t == NewStage(latency, depth, next)
         IN  /\ t \in Stage(D) /\ t.downstream_ready = TRUE
             /\ t.latency_cycles = latency /\ t.max_queue_depth = depth
             /\ t.has_next = next /\ t.state = "Idle"
             /\ t.current_item = <<>> /\ t.input_queue = <<>>
             /\ t.item_counter = 0 /\ t.ready_cycles = 0 /\ t.stats = NoStats
<1>1. NoStats \in StageStats
  BY DEF NoStats, StageStats
<1>2. <<>> \in Seq(Item(D)) /\ "Idle" \in StageState
  BY DEF StageState
<1>3. QED
  BY <1>1, <1>2 DEF NewStage, Stage

-------------------------------------------------------------------------------
(* The items of a stage. *)

\* Everything about an item but how much of it is left to do.
Alike(a, b) ==
  a.id = b.id /\ a.data = b.data /\ a.cycle = b.cycle /\ a.ahead = b.ahead
    /\ a.ready_at = b.ready_at

\* A stage's contents are its current item, if any, and its queue.
LEMMA ContentsShape ==
  ASSUME NEW D, NEW s \in Stage(D),
         Len(s.current_item) = IF s.state = "Idle" THEN 0 ELSE 1
  PROVE  /\ Contents(s) \in Seq(Item(D)) /\ Len(Contents(s)) \in Nat
         /\ Len(s.input_queue) \in Nat /\ DOMAIN Contents(s) = 1..Len(Contents(s))
         /\ s.state = "Idle" => Contents(s) = s.input_queue
         /\ s.state # "Idle" =>
              /\ Len(Contents(s)) = Len(s.input_queue) + 1
              /\ Contents(s)[1] = s.current_item[1]
              /\ \A k \in 2..Len(Contents(s)) : Contents(s)[k] = s.input_queue[k - 1]
<1>1. s.current_item \in Seq(Item(D)) /\ s.input_queue \in Seq(Item(D))
  BY DEF Stage
<1> DEFINE c == s.current_item
           q == s.input_queue
<1>2. c \in Seq(Item(D)) /\ q \in Seq(Item(D)) /\ Len(c) = IF s.state = "Idle" THEN 0 ELSE 1
  BY <1>1
<1>3. Contents(s) = c \o q
  BY DEF Contents
<1> HIDE DEF c, q
<1>4. c \o q \in Seq(Item(D)) /\ Len(c \o q) = Len(c) + Len(q) /\ Len(q) \in Nat
  <2>1. c \in Seq(Item(D)) /\ q \in Seq(Item(D))
    BY <1>2
  <2>2. QED
    BY <2>1
<1>5. s.state = "Idle" => c \o q = q
  BY <1>2
<1>6. s.state # "Idle" =>
        /\ (c \o q)[1] = c[1]
        /\ \A k \in 2..Len(c \o q) : (c \o q)[k] = q[k - 1]
  BY <1>2, <1>4
<1>7. s.state # "Idle" => Len(c \o q) = Len(q) + 1
  BY <1>2, <1>4
<1>8. DOMAIN (c \o q) = 1..Len(c \o q) /\ Len(c \o q) \in Nat
  BY <1>4
<1>9. QED
  BY <1>3, <1>4, <1>5, <1>6, <1>7, <1>8 DEF c, q

\* A tick keeps the items of a stage in their order, and only the first may leave.
LEMMA TickedContents ==
  ASSUME NEW D, NEW s, NEW t, NEW gone, StageOK(s, D), t \in Stage(D), Ticked(s, t, gone)
  PROVE  /\ Len(t.current_item) = IF t.state = "Idle" THEN 0 ELSE 1
         /\ gone \in Seq(Item(D)) /\ Len(gone) \in {0, 1}
         /\ Len(Contents(s)) = Len(gone) + Len(Contents(t))
         /\ Len(gone) = 1 => /\ Contents(s) # <<>> /\ Alike(gone[1], Contents(s)[1])
                             /\ s.state # "Idle" /\ MayLeave(s)
         /\ \A k \in 1..Len(Contents(t)) : Alike(Contents(t)[k], Contents(s)[k + Len(gone)])
         /\ Len(t.input_queue) <= Len(s.input_queue)
<1> DEFINE q == s.input_queue
           cur == s.current_item[1]
<1>1. /\ s \in Stage(D) /\ q \in Seq(Item(D)) /\ Len(q) \in Nat
      /\ Len(s.current_item) = IF s.state = "Idle" THEN 0 ELSE 1
      /\ s.state \in {"Idle", "Busy", "Stalled"}
  BY DEF StageOK, Stage, StageState
<1>2. s.state # "Idle" => cur \in Item(D) /\ s.current_item = <<cur>>
  BY CurrentItem
<1>3. t.input_queue \in Seq(Item(D)) /\ t.current_item \in Seq(Item(D))
  BY DEF Stage
<1>4. ASSUME Started(s, t)
      PROVE  /\ Len(t.current_item) = IF t.state = "Idle" THEN 0 ELSE 1
             /\ Len(Contents(t)) = Len(q)
             /\ \A k \in 1..Len(q) : Alike(Contents(t)[k], q[k])
             /\ Len(t.input_queue) <= Len(q)
  <2>1. CASE q = <<>>
    <3>1. t.state = "Idle" /\ t.current_item = <<>> /\ t.input_queue = <<>>
      BY <1>4, <2>1 DEF Started
    <3>2. Contents(t) = <<>>
      BY <3>1 DEF Contents
    <3>3. QED
      BY <2>1, <3>1, <3>2
  <2>2. CASE q # <<>>
    <3> DEFINE item == [Head(q) EXCEPT !.remaining_cycles = s.latency_cycles]
    <3>1. t.state = "Busy" /\ t.current_item = <<item>> /\ t.input_queue = Tail(q)
      BY <1>4, <2>2 DEF Started
    <3>2. Head(q) \in Item(D) /\ Head(q) = q[1]
      BY <1>1, <2>2
    <3>3. Alike(item, q[1])
      BY <3>2 DEF Alike, Item
    <3> HIDE DEF item
    <3>4. Len(t.current_item) = 1 /\ t.current_item[1] = item
      BY <3>1
    <3>5. /\ Len(t.input_queue) = Len(q) - 1
          /\ \A k \in 1..(Len(q) - 1) : t.input_queue[k] = q[k + 1]
      BY <1>1, <2>2, <3>1
    <3>6. /\ Len(Contents(t)) = Len(q) /\ Contents(t)[1] = item
          /\ \A k \in 2..Len(q) : Contents(t)[k] = t.input_queue[k - 1]
      <4>1. /\ Len(Contents(t)) = Len(t.input_queue) + 1 /\ Contents(t)[1] = item
            /\ \A k \in 2..Len(Contents(t)) : Contents(t)[k] = t.input_queue[k - 1]
        BY <3>1, <3>4, ContentsShape
      <4>2. QED
        BY <1>1, <3>5, <4>1
    <3>7. ASSUME NEW k \in 2..Len(q)  PROVE Alike(Contents(t)[k], q[k])
      <4>1. k - 1 \in 1..(Len(q) - 1) /\ (k - 1) + 1 = k
        BY <1>1
      <4>2. Contents(t)[k] = q[k]
        BY <3>5, <3>6, <4>1
      <4>3. QED
        BY <4>2 DEF Alike
    <3>8. QED
      BY <1>1, <3>1, <3>3, <3>4, <3>5, <3>6, <3>7
  <2>3. QED
    BY <2>1, <2>2
<1>5. CASE s.state = "Idle" /\ Started(s, t) /\ gone = <<>>
  <2>1. Contents(s) = q
    BY <1>1, <1>5, ContentsShape
  <2>2. \A k \in 1..Len(q) : k + 0 = k
    BY <1>1
  <2>3. Len(gone) = 0 /\ gone \in Seq(Item(D))
    BY <1>5
  <2>4. QED
    BY <1>1, <1>4, <1>5, <2>1, <2>2, <2>3
<1>6. CASE Kept(s, t) /\ gone = <<>>
  <2>1. /\ s.state # "Idle" /\ t.state # "Idle" /\ t.input_queue = q
        /\ Len(t.current_item) = 1 /\ Alike(t.current_item[1], cur)
    <3>1. s.state # "Idle" /\ t.state # "Idle" /\ t.input_queue = q
      BY <1>6 DEF Kept
    <3>2. \A r \in Nat : Alike([cur EXCEPT !.remaining_cycles = r], cur)
      BY <1>2, <3>1 DEF Item, Alike
    <3>3. Alike(cur, cur)
      BY DEF Alike
    <3>4. cur.remaining_cycles \in Nat
      BY <1>2, <3>1 DEF Item
    <3>5. \/ \E r \in Nat : t.current_item = <<[cur EXCEPT !.remaining_cycles = r]>>
          \/ t.current_item = <<cur>>
      <4>1. CASE cur.remaining_cycles > 1
                   /\ t.current_item = <<[cur EXCEPT !.remaining_cycles = @ - 1]>>
        <5>1. cur.remaining_cycles - 1 \in Nat
          BY <3>4, <4>1
        <5>2. QED
          BY <4>1, <5>1
      <4>2. CASE t.current_item = <<[cur EXCEPT !.remaining_cycles = 0]>>
        BY <4>2
      <4>3. CASE t.current_item = s.current_item
        BY <1>2, <3>1, <4>3
      <4>4. QED
        BY <1>6, <4>1, <4>2, <4>3 DEF Kept
    <3> HIDE DEF cur
    <3>6. \E item : Alike(item, cur) /\ t.current_item = <<item>>
      BY <3>2, <3>3, <3>5
    <3>7. QED
      BY <3>1, <3>6
  <2>2. /\ Len(Contents(s)) = Len(q) + 1 /\ Contents(s)[1] = cur
        /\ \A k \in 2..Len(Contents(s)) : Contents(s)[k] = q[k - 1]
    BY <1>1, <2>1, ContentsShape
  <2>3. /\ Len(Contents(t)) = Len(q) + 1 /\ Contents(t)[1] = t.current_item[1]
        /\ \A k \in 2..Len(Contents(t)) : Contents(t)[k] = q[k - 1]
    BY <2>1, ContentsShape
  <2>4. ASSUME NEW k \in 1..Len(Contents(t))  PROVE Alike(Contents(t)[k], Contents(s)[k + 0])
    <3>1. k + 0 = k /\ (k = 1 \/ k \in 2..Len(Contents(t)))
      BY <1>1, <2>3
    <3>2. CASE k = 1
      BY <2>1, <2>2, <2>3, <3>1, <3>2
    <3>3. CASE k \in 2..Len(Contents(t))
      BY <2>2, <2>3, <3>1, <3>3 DEF Alike
    <3>4. QED
      BY <3>1, <3>2, <3>3
  <2>5. Len(gone) = 0 /\ gone \in Seq(Item(D))
    BY <1>6
  <2>6. QED
    BY <1>1, <2>1, <2>2, <2>3, <2>4, <2>5
<1>7. CASE Left(s, t, gone)
  <2>1. s.state # "Idle" /\ Started(s, t) /\ MayLeave(s)
    BY <1>7 DEF Left
  <2>2. gone \in Seq(Item(D)) /\ Len(gone) = 1 /\ Alike(gone[1], cur)
    <3>1. CASE gone = <<[cur EXCEPT !.remaining_cycles = 0]>>
      <4>1. [cur EXCEPT !.remaining_cycles = 0] \in Item(D)
        BY <1>2, <2>1 DEF Item
      <4>2. Alike([cur EXCEPT !.remaining_cycles = 0], cur)
        BY <1>2, <2>1 DEF Item, Alike
      <4>3. QED
        BY <3>1, <4>1, <4>2
    <3>2. CASE gone = s.current_item
      <4>1. Alike(cur, cur) /\ gone = <<cur>> /\ cur \in Item(D)
        BY <1>2, <2>1, <3>2 DEF Alike
      <4> HIDE DEF cur
      <4>2. QED
        BY <4>1
    <3>3. QED
      BY <1>7, <3>1, <3>2 DEF Left
  <2>3. /\ Len(Contents(s)) = Len(q) + 1 /\ Contents(s)[1] = cur
        /\ \A k \in 2..Len(Contents(s)) : Contents(s)[k] = q[k - 1]
    BY <1>1, <2>1, ContentsShape
  <2>3a. Contents(s) # <<>>
    <3>1. Len(Contents(s)) # 0
      BY <1>1, <2>3
    <3>2. Len(<<>>) = 0
      OBVIOUS
    <3>3. QED
      BY <3>1, <3>2
  <2>4. ASSUME NEW k \in 1..Len(Contents(t))  PROVE Alike(Contents(t)[k], Contents(s)[k + 1])
    <3>1. k \in 1..Len(q) /\ k + 1 \in 2..Len(Contents(s)) /\ (k + 1) - 1 = k
      BY <1>1, <1>4, <2>1, <2>3
    <3>2. QED
      BY <1>4, <2>1, <2>3, <3>1
  <2>5. Len(Contents(s)) = 1 + Len(Contents(t))
    BY <1>1, <1>4, <2>1, <2>3
  <2>6. Len(gone) = 1 /\ Alike(gone[1], Contents(s)[1])
    BY <2>2, <2>3
  <2>7. QED
    BY <1>4, <2>1, <2>2, <2>3a, <2>4, <2>5, <2>6
<1>8. QED
  BY <1>5, <1>6, <1>7 DEF Ticked

-------------------------------------------------------------------------------
(* Invariants of one stage. *)

\* A stage without a queue never serves anything, and an item being served has
\* something left to do.
Sound(s, D) ==
  /\ StageOK(s, D)
  /\ s.max_queue_depth = 0 => s.state = "Idle"
  /\ s.state = "Busy" =>
       /\ s.current_item[1].remaining_cycles <= s.latency_cycles
       /\ s.latency_cycles # 0 => s.current_item[1].remaining_cycles >= 1

\* The types of the fields of a sound stage.
LEMMA SoundType ==
  ASSUME NEW D, NEW s, Sound(s, D)
  PROVE  /\ s \in Stage(D) /\ s.input_queue \in Seq(Item(D)) /\ Len(s.input_queue) \in Nat
         /\ s.current_item \in Seq(Item(D))
         /\ Len(s.current_item) = IF s.state = "Idle" THEN 0 ELSE 1
         /\ s.state \in {"Idle", "Busy", "Stalled"}
         /\ s.state # "Idle" => s.current_item[1].remaining_cycles \in Nat
         /\ s.latency_cycles \in Nat /\ Work(s) \in Nat /\ Work(s) >= 1
         /\ s.max_queue_depth \in Nat \cup {Unlimited}
<1>1. s \in Stage(D) /\ StageOK(s, D)
  BY DEF Sound, StageOK
<1>2. s.state # "Idle" => s.current_item[1].remaining_cycles \in Nat
  BY <1>1, CurrentItem
<1>3. s.latency_cycles \in Nat
  BY <1>1 DEF Stage
<1>4. Work(s) \in Nat /\ Work(s) >= 1
  BY <1>3 DEF Work
<1>5. s.input_queue \in Seq(Item(D)) /\ s.current_item \in Seq(Item(D))
      /\ s.state \in {"Idle", "Busy", "Stalled"}
  BY <1>1 DEF Stage, StageState
<1>6. Len(s.input_queue) \in Nat
  BY <1>5
<1>7. s.max_queue_depth \in Nat \cup {Unlimited}
  BY <1>1 DEF Stage
<1>8. QED
  BY <1>1, <1>2, <1>3, <1>4, <1>5, <1>6, <1>7 DEF StageOK

\* The item a stage has started is served for the whole latency.
LEMMA StartedFresh ==
  ASSUME NEW D, NEW s \in Stage(D), NEW t, Started(s, t)
  PROVE  /\ t.state \in {"Idle", "Busy"}
         /\ t.state = "Busy" => /\ t.current_item[1].remaining_cycles = s.latency_cycles
                                /\ s.input_queue # <<>>
         /\ t.state = "Idle" => s.input_queue = <<>>
<1>1. CASE s.input_queue # <<>>
  <2>1. s.input_queue \in Seq(Item(D)) /\ Head(s.input_queue) \in Item(D)
    BY <1>1 DEF Stage
  <2> DEFINE item == [Head(s.input_queue) EXCEPT !.remaining_cycles = s.latency_cycles]
  <2>2. item.remaining_cycles = s.latency_cycles
    BY <2>1 DEF Item
  <2>3. t.state = "Busy" /\ t.current_item = <<item>>
    BY <1>1 DEF Started
  <2> HIDE DEF item
  <2>4. QED
    BY <1>1, <2>2, <2>3
<1>2. CASE s.input_queue = <<>>
  BY <1>2 DEF Started
<1>3. QED
  BY <1>1, <1>2

\* A served item has one cycle less to go.
LEMMA KeptServed ==
  ASSUME NEW D, NEW s, NEW t, StageOK(s, D), Kept(s, t)
  PROVE  \/ /\ s.state = "Busy" /\ s.current_item[1].remaining_cycles > 1 /\ t.state = "Busy"
            /\ t.current_item[1].remaining_cycles = s.current_item[1].remaining_cycles - 1
            /\ t.stats.busy = s.stats.busy + 1
         \/ /\ s.state = "Busy" /\ s.current_item[1].remaining_cycles <= 1 /\ ~MayLeave(s)
            /\ t.state = "Stalled" /\ t.current_item[1].remaining_cycles = 0
            /\ t.stats.busy = s.stats.busy + 1
         \/ /\ s.state = "Stalled" /\ ~MayLeave(s) /\ t.state = "Stalled"
            /\ t.current_item = s.current_item /\ t.stats.busy = s.stats.busy
<1> DEFINE cur == s.current_item[1]
<1>1. cur \in Item(D) /\ cur.remaining_cycles \in Nat
  BY CurrentItem DEF Kept
<1>4. CASE /\ s.state = "Busy" /\ cur.remaining_cycles > 1 /\ t.state = "Busy"
           /\ t.current_item = <<[cur EXCEPT !.remaining_cycles = @ - 1]>>
           /\ t.stats.busy = s.stats.busy + 1
  <2> DEFINE item == [cur EXCEPT !.remaining_cycles = @ - 1]
  <2>1. item.remaining_cycles = cur.remaining_cycles - 1
    BY <1>1 DEF Item
  <2>2. t.current_item = <<item>>
    BY <1>4
  <2> HIDE DEF item
  <2>3. t.current_item[1].remaining_cycles = cur.remaining_cycles - 1
    BY <2>1, <2>2
  <2>4. QED
    BY <1>4, <2>3
<1>5. CASE /\ s.state = "Busy" /\ cur.remaining_cycles <= 1 /\ ~MayLeave(s)
           /\ t.state = "Stalled"
           /\ t.current_item = <<[cur EXCEPT !.remaining_cycles = 0]>>
           /\ t.stats.busy = s.stats.busy + 1
  <2> DEFINE item == [cur EXCEPT !.remaining_cycles = 0]
  <2>1. item.remaining_cycles = 0
    BY <1>1 DEF Item
  <2>2. t.current_item = <<item>>
    BY <1>5
  <2> HIDE DEF item
  <2>3. t.current_item[1].remaining_cycles = 0
    BY <2>1, <2>2
  <2>4. QED
    BY <1>5, <2>3
<1>6. QED
  BY <1>4, <1>5 DEF Kept

\* on_tick keeps a stage sound.
LEMMA SoundTick ==
  ASSUME UnlimitedAssumption, NEW D, NEW s, Sound(s, D)
  PROVE  Sound(OnTick(s).stage, D)
<1> DEFINE t == OnTick(s).stage
           gone == OnTick(s).left
<1>1. StageOK(s, D) /\ s \in Stage(D)
  BY DEF Sound, StageOK
<1>2. Ticked(s, t, gone) /\ t \in Stage(D)
  BY <1>1, OnTickEffect
<1> HIDE DEF t, gone
<1>3. /\ Len(t.current_item) = IF t.state = "Idle" THEN 0 ELSE 1
      /\ Len(t.input_queue) <= Len(s.input_queue)
  BY <1>1, <1>2, TickedContents
<1>4. /\ Len(t.input_queue) \in Nat /\ Len(s.input_queue) \in Nat
      /\ s.latency_cycles \in Nat
      /\ s.state # "Idle" => s.current_item[1].remaining_cycles \in Nat
  <2>1. t.input_queue \in Seq(Item(D))
    BY <1>2 DEF Stage
  <2>2. QED
    BY <2>1, SoundType
<1>5. /\ t.latency_cycles = s.latency_cycles /\ t.max_queue_depth = s.max_queue_depth
      /\ t.has_next = s.has_next
  BY <1>2 DEF Ticked
<1>6. s.max_queue_depth # Unlimited => Len(s.input_queue) <= s.max_queue_depth
  BY DEF Sound, StageOK
<1>7. t.max_queue_depth # Unlimited => Len(t.input_queue) <= t.max_queue_depth
  <2>1. s.max_queue_depth \in Nat \cup {Unlimited}
    BY SoundType
  <2>2. QED
    BY <1>3, <1>4, <1>5, <1>6, <2>1
<1>8. s.max_queue_depth = 0 => s.input_queue = <<>> /\ s.state = "Idle"
  <2> SUFFICES ASSUME s.max_queue_depth = 0  PROVE s.input_queue = <<>> /\ s.state = "Idle"
    OBVIOUS
  <2>1. s.max_queue_depth # Unlimited
    BY DEF UnlimitedAssumption
  <2>2. Len(s.input_queue) = 0
    BY <1>4, <1>6, <2>1
  <2>3. s.input_queue \in Seq(Item(D))
    BY <1>1 DEF Stage
  <2>4. QED
    BY <2>2, <2>3 DEF Sound
<1>9. CASE Started(s, t)
  <2>1. /\ t.state \in {"Idle", "Busy"}
        /\ t.state = "Busy" => /\ t.current_item[1].remaining_cycles = s.latency_cycles
                               /\ s.input_queue # <<>>
    BY <1>1, <1>9, StartedFresh
  <2>2. StageOK(t, D)
    BY <1>2, <1>3, <1>7, <2>1 DEF StageOK
  <2>3. t.max_queue_depth = 0 => t.state = "Idle"
    BY <1>5, <1>8, <2>1
  <2>4. t.state = "Busy" =>
          /\ t.current_item[1].remaining_cycles <= t.latency_cycles
          /\ t.latency_cycles # 0 => t.current_item[1].remaining_cycles >= 1
    BY <1>4, <1>5, <2>1
  <2>5. QED
    BY <2>2, <2>3, <2>4 DEF Sound, t
<1>10. CASE Kept(s, t)
  <2>1. s.state # "Idle" /\ t.state # "Idle"
    BY <1>10 DEF Kept
  <2>2. t.state = "Stalled" => t.has_next /\ t.current_item[1].remaining_cycles = 0
    <3>1. ~MayLeave(s) => s.has_next
      BY <1>1 DEF MayLeave, Stage
    <3>2. QED
      BY <1>1, <1>5, <1>10, <3>1, KeptServed DEF StageOK
  <2>3. t.state = "Busy" =>
          /\ t.current_item[1].remaining_cycles <= t.latency_cycles
          /\ t.latency_cycles # 0 => t.current_item[1].remaining_cycles >= 1
    <3>1. t.state = "Busy" =>
            /\ s.state = "Busy" /\ s.current_item[1].remaining_cycles > 1
            /\ t.current_item[1].remaining_cycles = s.current_item[1].remaining_cycles - 1
      BY <1>1, <1>10, KeptServed
    <3>2. s.state = "Busy" => s.current_item[1].remaining_cycles <= s.latency_cycles
      BY DEF Sound
    <3>3. QED
      BY <1>4, <1>5, <3>1, <3>2
  <2>4. StageOK(t, D)
    BY <1>2, <1>3, <1>7, <2>1, <2>2 DEF StageOK
  <2>5. t.max_queue_depth = 0 => t.state = "Idle"
    BY <1>5, <1>8, <2>1
  <2>6. QED
    BY <2>3, <2>4, <2>5 DEF Sound, t
<1>11. QED
  BY <1>2, <1>9, <1>10 DEF Ticked, Left, t

\* An arriving item keeps a stage sound.
LEMMA SoundReceive ==
  ASSUME NEW D, NEW s, Sound(s, D), NEW data \in D
  PROVE  Sound(Receive(s, data), D)
<1> DEFINE t == Receive(s, data)
<1>1. StageOK(s, D) /\ t \in Stage(D) /\ Received(s, t, data)
  BY ReceiveEffect DEF Sound
<1> HIDE DEF t
<1>2. /\ s.input_queue \in Seq(Item(D)) /\ t.input_queue \in Seq(Item(D))
      /\ Len(s.input_queue) \in Nat /\ s.max_queue_depth \in Nat \cup {Unlimited}
  <2>1. t.input_queue \in Seq(Item(D))
    BY <1>1 DEF Stage
  <2>2. QED
    BY <2>1, SoundType
<1>3. s.max_queue_depth # Unlimited => Len(t.input_queue) <= s.max_queue_depth
  <2>1. CASE CanAccept(s)
    <3>1. Len(t.input_queue) <= Len(s.input_queue) + 1
      BY <1>1, <1>2 DEF Received
    <3>2. Len(t.input_queue) \in Nat
      BY <1>2
    <3>3. QED
      BY <1>2, <2>1, <3>1, <3>2 DEF CanAccept
  <2>2. CASE ~CanAccept(s)
    BY <1>1, <2>2 DEF Received, StageOK
  <2>3. QED
    BY <2>1, <2>2
<1>4. QED
  BY <1>1, <1>3 DEF Sound, StageOK, Received, t

\* A ready signal keeps a stage sound.
LEMMA SoundSignal ==
  ASSUME NEW D, NEW s, Sound(s, D), NEW ready \in BOOLEAN
  PROVE  Sound(SignalReady(s, ready), D)
BY SignalEffect DEF Sound, StageOK

\* A new stage is sound.
LEMMA SoundNew ==
  ASSUME NEW D, NEW latency \in Nat, NEW depth \in Nat \cup {Unlimited}, NEW next \in BOOLEAN
  PROVE  Sound(NewStage(latency, depth, next), D)
<1> DEFINE t == NewStage(latency, depth, next)
<1>1. /\ t \in Stage(D) /\ t.state = "Idle" /\ t.current_item = <<>> /\ t.input_queue = <<>>
      /\ t.max_queue_depth = depth
  <2>1. t \in Stage(D)
    BY NewStageEffect
  <2>2. QED
    BY <2>1 DEF NewStage
<1> HIDE DEF t
<1>2. Len(t.current_item) = 0 /\ Len(t.input_queue) = 0
  BY <1>1
<1>3. t.max_queue_depth # Unlimited => Len(t.input_queue) <= t.max_queue_depth
  BY <1>1, <1>2
<1>4. Sound(t, D)
  BY <1>1, <1>2, <1>3 DEF Sound, StageOK
<1>5. QED
  BY <1>4 DEF t

\* What the counters of a stage say of the items in it.
Numbered(s) ==
  /\ s.item_counter = s.stats.received - s.stats.dropped
  /\ s.item_counter = s.stats.processed + Len(Contents(s))
  /\ \A k \in 1..Len(Contents(s)) : Contents(s)[k].id = s.stats.processed + k - 1

\* on_tick numbers items consecutively and counts those that leave.
LEMMA NumberedTick ==
  ASSUME NEW D, NEW s, Sound(s, D), Numbered(s)
  PROVE  /\ Numbered(OnTick(s).stage)
         /\ OnTick(s).stage.stats.processed = s.stats.processed + Len(OnTick(s).left)
<1> DEFINE t == OnTick(s).stage
           gone == OnTick(s).left
<1>1. StageOK(s, D) /\ s \in Stage(D)
  BY DEF Sound, StageOK
<1>2. Ticked(s, t, gone) /\ t \in Stage(D)
  BY <1>1, OnTickEffect
<1> HIDE DEF t, gone
<1>3. /\ Len(gone) \in {0, 1} /\ Len(Contents(s)) = Len(gone) + Len(Contents(t))
      /\ \A k \in 1..Len(Contents(t)) : Alike(Contents(t)[k], Contents(s)[k + Len(gone)])
      /\ Len(gone) = 1 => s.state # "Idle"
      /\ Len(t.current_item) = IF t.state = "Idle" THEN 0 ELSE 1
  BY <1>1, <1>2, TickedContents
<1>4. /\ s.stats.processed \in Nat /\ t.stats.processed \in Nat
      /\ Len(Contents(t)) \in Nat /\ Len(Contents(s)) \in Nat
  BY <1>1, <1>2, <1>3, StatsCount, ContentsShape, SoundType
<1>5. t.stats.processed = s.stats.processed + Len(gone)
  <2>1. CASE gone = <<>> /\ t.stats.processed = s.stats.processed
    BY <1>4, <2>1
  <2>2. CASE Left(s, t, gone)
    <3>1. t.stats.processed = s.stats.processed + 1 /\ s.state # "Idle"
      BY <2>2 DEF Left
    <3>2. s.current_item = <<s.current_item[1]>>
      BY <1>1, <3>1, CurrentItem
    <3>3. \E item : gone = <<item>>
      BY <2>2, <3>2 DEF Left
    <3>4. QED
      BY <3>1, <3>3
  <2>3. QED
    BY <1>2, <2>1, <2>2 DEF Ticked
<1>6. t.item_counter = t.stats.received - t.stats.dropped
  BY <1>2 DEF Ticked, Numbered
<1>7. t.item_counter = t.stats.processed + Len(Contents(t))
  <2>1. t.item_counter = s.stats.processed + Len(Contents(s))
    BY <1>2 DEF Ticked, Numbered
  <2>2. QED
    BY <1>3, <1>4, <1>5, <2>1
<1>8. ASSUME NEW k \in 1..Len(Contents(t))
      PROVE  Contents(t)[k].id = t.stats.processed + k - 1
  <2>1. k + Len(gone) \in 1..Len(Contents(s))
    BY <1>3, <1>4
  <2>2. Contents(t)[k].id = s.stats.processed + (k + Len(gone)) - 1
    BY <1>3, <2>1 DEF Numbered, Alike
  <2>3. QED
    BY <1>3, <1>4, <1>5, <2>2
<1>9. QED
  BY <1>5, <1>6, <1>7, <1>8 DEF Numbered, t, gone

\* An accepted item comes last.
LEMMA ReceivedContents ==
  ASSUME NEW D, NEW s, Sound(s, D), NEW data \in D
  PROVE  LET t == Receive(s, data)
             n == Len(Contents(s))
         IN  \/ ~CanAccept(s) /\ Contents(t) = Contents(s)
             \/ /\ CanAccept(s)
                /\ Len(Contents(t)) = n + 1
                /\ \A k \in 1..n : Contents(t)[k] = Contents(s)[k]
                /\ Contents(t)[n + 1] =
                     [id |-> s.item_counter, data |-> data,
                      remaining_cycles |-> s.latency_cycles, cycle |-> Cycles(s),
                      ahead |-> n, ready_at |-> s.ready_cycles]
<1> DEFINE t == Receive(s, data)
           n == Len(Contents(s))
           item == [id |-> s.item_counter, data |-> data,
                    remaining_cycles |-> s.latency_cycles, cycle |-> Cycles(s),
                    ahead |-> n, ready_at |-> s.ready_cycles]
           c == s.current_item
           q == s.input_queue
<1>1. t.current_item = c /\ \/ ~CanAccept(s) /\ t.input_queue = q
                            \/ CanAccept(s) /\ t.input_queue = Append(q, item)
  BY ReceiveEffect DEF Sound, Received
<1>2. Contents(t) = t.current_item \o t.input_queue /\ Contents(s) = c \o q
  BY DEF Contents
<1>3. c \in Seq(Item(D)) /\ q \in Seq(Item(D))
  BY SoundType
<1> HIDE DEF item, c, q, t
<1>4. CASE ~CanAccept(s)
  BY <1>1, <1>2, <1>4 DEF t
<1>5. CASE CanAccept(s)
  <2>1. t.input_queue = Append(q, item) /\ Contents(t) = c \o Append(q, item) /\ n = Len(c \o q)
    BY <1>1, <1>2, <1>5
  <2>2. q \in Seq(Item(D) \cup {item}) /\ c \in Seq(Item(D) \cup {item})
    BY <1>3
  <2>3. Append(q, item) \in Seq(Item(D) \cup {item})
    BY <2>2
  <2>4. Len(c \o Append(q, item)) = n + 1
    BY <2>1, <2>2, <2>3
  <2>5. (c \o Append(q, item))[n + 1] = item
    BY <2>1, <2>2, <2>3
  <2>6. \A k \in 1..n : (c \o Append(q, item))[k] = (c \o q)[k]
    BY <2>1, <2>2, <2>3
  <2>7. QED
    BY <1>2, <1>5, <2>1, <2>4, <2>5, <2>6 DEF t, item
<1>6. QED
  BY <1>4, <1>5

\* An arriving item gets the next number.
LEMMA NumberedReceive ==
  ASSUME NEW D, NEW s, Sound(s, D), NEW data \in D, Numbered(s)
  PROVE  Numbered(Receive(s, data))
<1> DEFINE t == Receive(s, data)
           n == Len(Contents(s))
<1>1. Received(s, t, data) /\ t \in Stage(D) /\ s \in Stage(D)
  BY ReceiveEffect DEF Sound, StageOK
<1>2. \/ ~CanAccept(s) /\ Contents(t) = Contents(s)
      \/ /\ CanAccept(s) /\ Len(Contents(t)) = n + 1
         /\ \A k \in 1..n : Contents(t)[k] = Contents(s)[k]
         /\ Contents(t)[n + 1].id = s.item_counter
  <2> DEFINE item == [id |-> s.item_counter, data |-> data,
                      remaining_cycles |-> s.latency_cycles, cycle |-> Cycles(s),
                      ahead |-> n, ready_at |-> s.ready_cycles]
  <2>1. item.id = s.item_counter
    OBVIOUS
  <2>2. \/ ~CanAccept(s) /\ Contents(t) = Contents(s)
        \/ /\ CanAccept(s) /\ Len(Contents(t)) = n + 1
           /\ \A k \in 1..n : Contents(t)[k] = Contents(s)[k]
           /\ Contents(t)[n + 1] = item
    BY ReceivedContents
  <2> HIDE DEF item
  <2>3. QED
    BY <2>1, <2>2
<1> HIDE DEF t
<1>3. /\ n \in Nat /\ s.stats.processed \in Nat /\ s.stats.received \in Nat
      /\ s.stats.dropped \in Nat /\ s.item_counter \in Nat
  BY <1>1, StatsCount, SoundType, ContentsShape
<1>4. ASSUME ~CanAccept(s)  PROVE Numbered(t)
  <2>1. /\ t.item_counter = s.item_counter /\ t.stats.received = s.stats.received + 1
        /\ t.stats.dropped = s.stats.dropped + 1 /\ t.stats.processed = s.stats.processed
        /\ Contents(t) = Contents(s)
    BY <1>1, <1>2, <1>4 DEF Received
  <2>2. s.item_counter = s.stats.received - s.stats.dropped
    BY DEF Numbered
  <2>3. \A a, b \in Nat : (a + 1) - (b + 1) = a - b
    OBVIOUS
  <2>4. t.item_counter = t.stats.received - t.stats.dropped
    BY <1>3, <2>1, <2>2, <2>3
  <2>5. QED
    BY <2>1, <2>4 DEF Numbered
<1>5. ASSUME CanAccept(s)  PROVE Numbered(t)
  <2>1. /\ t.item_counter = s.item_counter + 1 /\ t.stats.received = s.stats.received + 1
        /\ t.stats.dropped = s.stats.dropped /\ t.stats.processed = s.stats.processed
    BY <1>1, <1>5 DEF Received
  <2>2. /\ s.item_counter = s.stats.received - s.stats.dropped
        /\ s.item_counter = s.stats.processed + n
        /\ \A k \in 1..n : Contents(s)[k].id = s.stats.processed + k - 1
    BY DEF Numbered
  <2>3. \A k \in 1..(n + 1) : Contents(t)[k].id = t.stats.processed + k - 1
    <3>1. \A k \in 1..(n + 1) : k = n + 1 \/ k \in 1..n
      BY <1>3
    <3>2. Contents(t)[n + 1].id = t.stats.processed + (n + 1) - 1
      BY <1>2, <1>3, <1>5, <2>1, <2>2
    <3>3. QED
      BY <1>2, <1>5, <2>1, <2>2, <3>1, <3>2
  <2>4. t.item_counter = t.stats.received - t.stats.dropped
    BY <1>3, <2>1, <2>2
  <2>5. t.item_counter = t.stats.processed + Len(Contents(t)) /\ Len(Contents(t)) = n + 1
    <3>1. Len(Contents(t)) = n + 1
      BY <1>2, <1>5
    <3>2. (s.stats.processed + n) + 1 = s.stats.processed + (n + 1)
      BY <1>3
    <3>3. QED
      BY <2>1, <2>2, <3>1, <3>2
  <2>6. QED
    BY <2>3, <2>4, <2>5 DEF Numbered
<1>6. QED
  BY <1>4, <1>5 DEF t

\* Products with a natural number, one more and one less.
LEMMA OneMore ==
  ASSUME NEW a \in Nat, NEW w \in Nat
  PROVE  /\ a * w \in Nat /\ (a + 1) * w = a * w + w
         /\ 0 * w = 0 /\ a - 1 \in Nat => a * w = (a - 1) * w + w
OBVIOUS

\* BusyCyclesAreWork, of one stage.
Utilized(s) ==
  s.stats.busy =
    CASE s.state = "Idle"    -> s.stats.processed * Work(s)
      [] s.state = "Stalled" -> (s.stats.processed + 1) * Work(s)
      [] s.state = "Busy"    -> s.stats.processed * Work(s)
                                  + s.latency_cycles - s.current_item[1].remaining_cycles

\* on_tick counts a busy cycle for each cycle of work done.
LEMMA UtilizedTick ==
  ASSUME NEW D, NEW s, Sound(s, D), Utilized(s)
  PROVE  Utilized(OnTick(s).stage)
<1> DEFINE t == OnTick(s).stage
           gone == OnTick(s).left
           r == s.current_item[1].remaining_cycles
           lat == s.latency_cycles
           p == s.stats.processed
           w == Work(s)
<1>1. StageOK(s, D) /\ s \in Stage(D)
  BY DEF Sound, StageOK
<1>2. Ticked(s, t, gone) /\ t \in Stage(D)
  BY <1>1, OnTickEffect
<1> HIDE DEF t, gone
<1>3. t.latency_cycles = lat /\ Work(t) = w
  BY <1>2 DEF Ticked, Work
<1>4. /\ lat \in Nat /\ w \in Nat /\ p \in Nat /\ s.stats.busy \in Nat
      /\ s.state # "Idle" => r \in Nat
      /\ w = (IF lat = 0 THEN 1 ELSE lat)
      /\ s.state \in {"Idle", "Busy", "Stalled"}
  BY <1>1, SoundType, StatsCount DEF Work
<1>5. (p + 1) * w = p * w + w /\ p * w \in Nat /\ (p + 1) * w \in Nat
  BY <1>4, OneMore
<1>6. s.state = "Busy" => r <= lat /\ (lat # 0 => r >= 1)
  BY DEF Sound
<1>7. /\ s.state = "Idle" => s.stats.busy = p * w
      /\ s.state = "Stalled" => s.stats.busy = (p + 1) * w
      /\ s.state = "Busy" => s.stats.busy = p * w + lat - r
  BY <1>4 DEF Utilized
<1>8. s.state = "Busy" /\ r <= 1 => s.stats.busy + 1 = (p + 1) * w
  BY <1>4, <1>5, <1>6, <1>7
<1>9. ASSUME NEW n \in Nat, t.stats.processed = n, t.stats.busy = n * w, Started(s, t)
      PROVE  Utilized(t)
  <2>1. /\ t.state \in {"Idle", "Busy"}
        /\ t.state = "Busy" => t.current_item[1].remaining_cycles = lat
    BY <1>1, <1>9, StartedFresh
  <2>2. n * w \in Nat
    BY <1>4
  <2>3. n * w + lat - lat = n * w
    BY <1>4, <2>2
  <2>4. QED
    BY <1>3, <1>9, <2>1, <2>3 DEF Utilized
<1>10. ASSUME s.state = "Idle", Started(s, t), t.stats.processed = p,
              t.stats.busy = s.stats.busy
       PROVE  Utilized(t)
  BY <1>4, <1>7, <1>9, <1>10
<1>11. ASSUME Left(s, t, gone)  PROVE Utilized(t)
  <2>1. Started(s, t) /\ t.stats.processed = p + 1
    BY <1>11 DEF Left
  <2>2. t.stats.busy = (p + 1) * w
    <3>1. CASE s.state = "Busy" /\ r <= 1 /\ t.stats.busy = s.stats.busy + 1
      BY <1>8, <3>1
    <3>2. CASE s.state = "Stalled" /\ t.stats.busy = s.stats.busy
      BY <1>7, <3>2
    <3>3. QED
      BY <1>11, <3>1, <3>2 DEF Left
  <2>3. p + 1 \in Nat
    BY <1>4
  <2>4. QED
    BY <1>9, <2>1, <2>2, <2>3
<1>12. ASSUME Kept(s, t), t.stats.processed = p  PROVE Utilized(t)
  <2>1. CASE /\ s.state = "Busy" /\ r > 1 /\ t.state = "Busy"
             /\ t.current_item[1].remaining_cycles = r - 1
             /\ t.stats.busy = s.stats.busy + 1
    <3>1. t.stats.busy = p * w + lat - (r - 1)
      <4>1. \A b \in Nat, l, x \in Nat : b + l - x + 1 = b + l - (x - 1)
        OBVIOUS
      <4>2. p * w \in Nat /\ lat \in Nat /\ r \in Nat
        BY <1>4, <1>5, <2>1
      <4>3. t.stats.busy = p * w + lat - r + 1
        BY <1>7, <2>1
      <4> HIDE DEF p, w, lat, r
      <4>4. QED
        BY <4>1, <4>2, <4>3
    <3>2. QED
      BY <1>3, <1>12, <2>1, <3>1 DEF Utilized
  <2>2. CASE /\ s.state = "Busy" /\ r <= 1 /\ t.state = "Stalled"
             /\ t.stats.busy = s.stats.busy + 1
    BY <1>3, <1>8, <1>12, <2>2 DEF Utilized
  <2>3. CASE s.state = "Stalled" /\ t.state = "Stalled" /\ t.stats.busy = s.stats.busy
    BY <1>3, <1>7, <1>12, <2>3 DEF Utilized
  <2>4. QED
    BY <1>1, <1>12, <2>1, <2>2, <2>3, KeptServed
<1>13. Utilized(t)
  BY <1>2, <1>10, <1>11, <1>12 DEF Ticked
<1>14. QED
  BY <1>13 DEF t

\* The ticks in which downstream is ready that the current item needs to leave, or,
\* of an idle stage, that its next one will need.
Needed(s) ==
  CASE s.state = "Idle"    -> 1 + Work(s)
    [] s.state = "Busy"    -> IF s.current_item[1].remaining_cycles = 0 THEN 1
                              ELSE s.current_item[1].remaining_cycles
    [] s.state = "Stalled" -> 1

\* Every item is on schedule: what it has waited for and what it still has to wait
\* for is within the bound of OnTime, and a current item has been in the stage for
\* as long as it was served.
Scheduled(s, item, k) ==
  /\ item.cycle <= Cycles(s)
  /\ s.ready_cycles + Needed(s) + (k - 1) * Work(s)
       <= item.ready_at + 1 + (item.ahead + 1) * Work(s)

Timely(s) ==
  /\ \A k \in 1..Len(Contents(s)) : Scheduled(s, Contents(s)[k], k)
  /\ s.state = "Busy" =>
       s.current_item[1].cycle + 1 + s.latency_cycles
         <= Cycles(s) + s.current_item[1].remaining_cycles
  /\ s.state = "Stalled" => s.current_item[1].cycle + 1 + Work(s) <= Cycles(s)

\* OnTime, of one item that leaves stage s.
LeftOnTime(s, item) ==
  /\ Cycles(s) - item.cycle >= Work(s) + 1
  /\ s.ready_cycles - item.ready_at <= 1 + (item.ahead + 1) * Work(s)

\* A stage needs between 1 and 1 + latency cycles for its current item.
LEMMA NeededType ==
  ASSUME NEW D, NEW s, Sound(s, D)
  PROVE  Needed(s) \in Nat /\ Needed(s) >= 1 /\ Needed(s) <= 1 + Work(s)
<1>1. /\ Work(s) \in Nat /\ Work(s) >= 1 /\ s.latency_cycles \in Nat
      /\ s.state \in {"Idle", "Busy", "Stalled"}
      /\ s.state # "Idle" => s.current_item[1].remaining_cycles \in Nat
      /\ s.latency_cycles <= Work(s)
  BY SoundType DEF Work
<1>2. s.state = "Busy" => s.current_item[1].remaining_cycles <= s.latency_cycles
  BY DEF Sound
<1>3. CASE s.state = "Idle"
  BY <1>1, <1>3 DEF Needed
<1>4. CASE s.state = "Busy"
  BY <1>1, <1>2, <1>4 DEF Needed
<1>5. CASE s.state = "Stalled"
  BY <1>1, <1>5 DEF Needed
<1>6. QED
  BY <1>1, <1>3, <1>4, <1>5

\* In a tick with downstream ready every item comes one tick closer to leaving.
LEMMA NeededTick ==
  ASSUME NEW D, NEW s, Sound(s, D), NEW t \in Stage(D), NEW gone, Ticked(s, t, gone)
  PROVE  /\ Len(gone) = 0 /\ Contents(t) # <<>> =>
              Needed(t) + (IF MayLeave(s) THEN 1 ELSE 0) <= Needed(s)
         /\ Len(gone) = 1 => Needed(s) = 1 /\ MayLeave(s)
         /\ Len(gone) = 1 /\ Contents(t) # <<>> => Needed(t) = Work(s)
<1> DEFINE r == s.current_item[1].remaining_cycles
           w == Work(s)
<1>1. StageOK(s, D) /\ s \in Stage(D)
  BY DEF Sound, StageOK
<1>2. /\ w \in Nat /\ w >= 1 /\ s.latency_cycles \in Nat
      /\ s.state \in {"Idle", "Busy", "Stalled"}
      /\ s.state # "Idle" => r \in Nat
      /\ w = (IF s.latency_cycles = 0 THEN 1 ELSE s.latency_cycles)
  BY SoundType DEF Work
<1>3. Work(t) = w
  BY DEF Ticked, Work
<1>4. ASSUME Started(s, t), Contents(t) # <<>>  PROVE Needed(t) = w
  <2>1. t.state # "Idle"
    <3> SUFFICES ASSUME t.state = "Idle"  PROVE FALSE
      OBVIOUS
    <3>1. t.current_item = <<>> /\ t.input_queue = <<>>
      BY <1>4 DEF Started
    <3>2. QED
      BY <1>4, <3>1 DEF Contents
  <2>2. t.state = "Busy" /\ t.current_item[1].remaining_cycles = s.latency_cycles
    BY <1>1, <1>4, <2>1, StartedFresh
  <2>3. QED
    BY <1>2, <2>2 DEF Needed
<1>5. Len(<<>>) = 0 /\ \A item : Len(<<item>>) = 1
  OBVIOUS
<1>6. ASSUME s.state = "Idle", Started(s, t), gone = <<>>
      PROVE  /\ Len(gone) = 0
             /\ Contents(t) # <<>> => Needed(t) + (IF MayLeave(s) THEN 1 ELSE 0) <= Needed(s)
  <2>1. Needed(s) = 1 + w
    BY <1>6 DEF Needed
  <2>2. QED
    BY <1>2, <1>4, <1>5, <1>6, <2>1
<1>7. ASSUME Kept(s, t), gone = <<>>
      PROVE  /\ Len(gone) = 0
             /\ Needed(t) + (IF MayLeave(s) THEN 1 ELSE 0) <= Needed(s)
  <2>1. CASE /\ s.state = "Busy" /\ r > 1 /\ t.state = "Busy"
             /\ t.current_item[1].remaining_cycles = r - 1
    <3>1. r \in Nat
      BY <1>2, <2>1
    <3>2. Needed(s) = r /\ Needed(t) = r - 1
      BY <2>1, <3>1 DEF Needed
    <3>3. QED
      BY <1>5, <1>7, <3>1, <3>2
  <2>2. CASE /\ s.state = "Busy" /\ r <= 1 /\ ~MayLeave(s) /\ t.state = "Stalled"
    <3>1. Needed(s) = 1
      BY <1>2, <2>2 DEF Needed
    <3>2. Needed(t) = 1
      BY <2>2 DEF Needed
    <3>3. QED
      BY <1>5, <1>7, <2>2, <3>1, <3>2
  <2>3. CASE s.state = "Stalled" /\ ~MayLeave(s) /\ t.state = "Stalled"
    BY <1>5, <1>7, <2>3 DEF Needed
  <2>4. QED
    BY <1>1, <1>7, <2>1, <2>2, <2>3, KeptServed
<1>8. ASSUME Left(s, t, gone)
      PROVE  /\ Len(gone) = 1 /\ Needed(s) = 1 /\ MayLeave(s)
             /\ Contents(t) # <<>> => Needed(t) = w
  <2>1. MayLeave(s) /\ Started(s, t) /\ s.state # "Idle"
    BY <1>8 DEF Left
  <2>2. \E item : gone = <<item>>
    BY <1>1, <1>8, <2>1, CurrentItem DEF Left
  <2>3. Needed(s) = 1
    <3>1. CASE s.state = "Busy" /\ r <= 1
      BY <1>2, <3>1 DEF Needed
    <3>2. CASE s.state = "Stalled"
      BY <3>2 DEF Needed
    <3>3. QED
      BY <1>8, <3>1, <3>2 DEF Left
  <2>4. QED
    BY <1>4, <1>5, <2>1, <2>2, <2>3
<1>9. \/ s.state = "Idle" /\ Started(s, t) /\ gone = <<>>
      \/ Kept(s, t) /\ gone = <<>>
      \/ Left(s, t, gone)
  BY DEF Ticked
<1>10. CASE Len(gone) = 0
  <2>1. ~Left(s, t, gone)
    BY <1>8, <1>10
  <2>2. QED
    BY <1>6, <1>7, <1>9, <1>10, <2>1
<1>11. CASE Len(gone) = 1
  BY <1>6, <1>7, <1>8, <1>9, <1>11
<1>12. QED
  <2>1. Len(gone) = 0 \/ Len(gone) = 1
    BY <1>6, <1>7, <1>8, <1>9
  <2>2. QED
    BY <1>10, <1>11, <2>1

\* What is left of a served item, and of a started one, tells how long it has been
\* in the stage.
LEMMA TimelyTick ==
  ASSUME NEW D, NEW s, Sound(s, D), Timely(s)
  PROVE  /\ Timely(OnTick(s).stage)
         /\ \A k \in DOMAIN OnTick(s).left : LeftOnTime(OnTick(s).stage, OnTick(s).left[k])
<1> DEFINE t == OnTick(s).stage
           gone == OnTick(s).left
           r == s.current_item[1].remaining_cycles
           w == Work(s)
           step == IF MayLeave(s) THEN 1 ELSE 0
<1>1. StageOK(s, D) /\ s \in Stage(D)
  BY DEF Sound, StageOK
<1>2. Ticked(s, t, gone) /\ t \in Stage(D)
  BY <1>1, OnTickEffect
<1>3. Sound(t, D)
  <2>1. QED
    BY SoundTick, UnlimitedAssumption
<1> HIDE DEF t, gone
<1>4. /\ Len(gone) \in {0, 1} /\ Len(Contents(s)) = Len(gone) + Len(Contents(t))
      /\ \A k \in 1..Len(Contents(t)) : Alike(Contents(t)[k], Contents(s)[k + Len(gone)])
      /\ Len(gone) = 1 => Alike(gone[1], Contents(s)[1]) /\ s.state # "Idle"
      /\ gone \in Seq(Item(D))
  BY <1>1, <1>2, TickedContents
<1>5. /\ Len(Contents(s)) \in Nat /\ Contents(s) \in Seq(Item(D))
      /\ Len(Contents(t)) \in Nat /\ Contents(t) \in Seq(Item(D))
  BY <1>1, <1>2, <1>3, SoundType, ContentsShape
<1>6. /\ Work(t) = w /\ w \in Nat /\ w >= 1
      /\ t.ready_cycles = s.ready_cycles + step /\ step \in Nat /\ step \in {0, 1}
      /\ Cycles(t) = Cycles(s) + 1 /\ Cycles(s) \in Nat /\ s.ready_cycles \in Nat
      /\ t.latency_cycles = s.latency_cycles /\ s.latency_cycles \in Nat
  BY <1>1, <1>2, SoundType, StatsCount DEF Ticked, Work
<1>7. /\ Needed(s) \in Nat /\ Needed(t) \in Nat
      /\ Len(gone) = 0 /\ Contents(t) # <<>> => Needed(t) + step <= Needed(s)
      /\ Len(gone) = 1 => Needed(s) = 1 /\ step = 1
      /\ Len(gone) = 1 /\ Contents(t) # <<>> => Needed(t) = w
  BY <1>2, <1>3, NeededType, NeededTick
<1>8. ASSUME NEW k \in 1..Len(Contents(s))
      PROVE  LET item == Contents(s)[k]
             IN  /\ item.cycle \in Nat /\ item.ready_at \in Nat /\ item.ahead \in Nat
                 /\ item.cycle <= Cycles(s)
                 /\ s.ready_cycles + Needed(s) + (k - 1) * w
                      <= item.ready_at + 1 + (item.ahead + 1) * w
                 /\ (item.ahead + 1) * w \in Nat
  <2>1. Contents(s)[k] \in Item(D)
    BY <1>5
  <2>2. Contents(s)[k].ahead + 1 \in Nat
    BY <2>1 DEF Item
  <2>3. (Contents(s)[k].ahead + 1) * w \in Nat
    BY <1>6, <2>2
  <2>4. QED
    BY <2>1, <2>3 DEF Item, Timely, Scheduled
<1>9. ASSUME NEW k \in 1..Len(Contents(t))  PROVE Scheduled(t, Contents(t)[k], k)
  <2> DEFINE item == Contents(s)[k + Len(gone)]
             bound == (item.ahead + 1) * w
             before == (k - 1) * w
  <2>1. k + Len(gone) \in 1..Len(Contents(s)) /\ k \in Nat /\ k - 1 \in Nat
    BY <1>4, <1>5
  <2>2. /\ item.cycle \in Nat /\ item.ready_at \in Nat /\ item.cycle <= Cycles(s)
        /\ s.ready_cycles + Needed(s) + (k + Len(gone) - 1) * w <= item.ready_at + 1 + bound
        /\ bound \in Nat
    BY <1>8, <2>1
  <2>3. Contents(t) # <<>>
    BY <1>5, <2>1
  <2>4. before \in Nat /\ k * w = before + w
    BY <1>6, <2>1, OneMore
  <2> HIDE DEF bound, before, item
  <2>5. t.ready_cycles + Needed(t) + before <= item.ready_at + 1 + bound
    <3>1. CASE Len(gone) = 0
      <4>1. k + 0 - 1 = k - 1
        BY <2>1
      <4>2. s.ready_cycles + Needed(s) + before <= item.ready_at + 1 + bound
        BY <2>2, <3>1, <4>1 DEF before
      <4>3. Needed(t) + step <= Needed(s)
        BY <1>7, <2>3, <3>1
      <4> HIDE DEF step
      <4>4. /\ s.ready_cycles \in Nat /\ step \in Nat /\ before \in Nat
            /\ Needed(t) \in Nat /\ Needed(s) \in Nat
            /\ item.ready_at \in Nat /\ bound \in Nat
            /\ t.ready_cycles = s.ready_cycles + step
        BY <1>6, <1>7, <2>2, <2>4 DEF step
      <4>5. \A a, b, c, d, e, f, g \in Nat :
              a + b + c <= d + 1 + e /\ f + g <= b => (a + g) + f + c <= d + 1 + e
        OBVIOUS
      <4>6. QED
        BY <4>2, <4>3, <4>4, <4>5
    <3>2. CASE Len(gone) = 1
      <4>1. k + 1 - 1 = k
        BY <2>1
      <4>2. s.ready_cycles + 1 + (before + w) <= item.ready_at + 1 + bound
        BY <1>7, <2>2, <2>4, <3>2, <4>1
      <4>3. Needed(t) = w /\ t.ready_cycles = s.ready_cycles + 1
        BY <1>6, <1>7, <2>3, <3>2
      <4>4. w \in Nat /\ before \in Nat /\ s.ready_cycles \in Nat
        BY <1>6, <2>4
      <4> HIDE DEF w
      <4>5. (s.ready_cycles + 1) + w + before = s.ready_cycles + 1 + (before + w)
        BY <4>4
      <4>6. QED
        BY <4>2, <4>3, <4>5
    <3>3. QED
      BY <1>4, <3>1, <3>2
  <2>6. Alike(Contents(t)[k], item)
    BY <1>4 DEF item
  <2>7. item.cycle <= Cycles(t)
    BY <1>6, <2>2
  <2>8. QED
    BY <1>6, <2>5, <2>6, <2>7 DEF Scheduled, Alike, bound, before
<1>10. s.state # "Idle" => /\ s.current_item[1] = Contents(s)[1] /\ 1 \in 1..Len(Contents(s))
                           /\ s.current_item[1].cycle \in Nat /\ r \in Nat
  <2>1. s.state # "Idle" => /\ Contents(s)[1] = s.current_item[1]
                            /\ Len(Contents(s)) = Len(s.input_queue) + 1
                            /\ Len(s.input_queue) \in Nat
    BY <1>1, SoundType, ContentsShape
  <2>2. s.state # "Idle" => 1 \in 1..Len(Contents(s))
    BY <2>1
  <2>3. QED
    BY <1>8, <2>1, <2>2, SoundType
<1>11. t.state # "Idle" =>
         /\ t.current_item[1].cycle = Contents(s)[1 + Len(gone)].cycle
         /\ t.current_item[1].cycle \in Nat /\ t.current_item[1].cycle <= Cycles(s)
  <2> SUFFICES ASSUME t.state # "Idle"
               PROVE  /\ t.current_item[1].cycle = Contents(s)[1 + Len(gone)].cycle
                      /\ t.current_item[1].cycle \in Nat
                      /\ t.current_item[1].cycle <= Cycles(s)
    OBVIOUS
  <2>1. /\ Contents(t)[1] = t.current_item[1] /\ Len(Contents(t)) = Len(t.input_queue) + 1
        /\ Len(t.input_queue) \in Nat
    BY <1>2, <1>3, SoundType, ContentsShape
  <2>2. 1 \in 1..Len(Contents(t)) /\ 1 + Len(gone) \in 1..Len(Contents(s))
    BY <1>4, <1>5, <2>1
  <2>3. QED
    BY <1>4, <1>8, <2>1, <2>2 DEF Alike
<1>12. s.state = "Busy" => /\ r <= s.latency_cycles /\ (s.latency_cycles # 0 => r >= 1)
                           /\ s.current_item[1].cycle + 1 + s.latency_cycles <= Cycles(s) + r
  BY DEF Timely, Sound
<1>13. s.state = "Busy" /\ r <= 1 => s.current_item[1].cycle + 1 + w <= Cycles(s) + 1
  <2>1. w = (IF s.latency_cycles = 0 THEN 1 ELSE s.latency_cycles)
    BY DEF Work
  <2> SUFFICES ASSUME s.state = "Busy", r <= 1
               PROVE  s.current_item[1].cycle + 1 + w <= Cycles(s) + 1
    OBVIOUS
  <2>2. /\ s.current_item[1].cycle + 1 + s.latency_cycles <= Cycles(s) + r
        /\ r <= s.latency_cycles /\ (s.latency_cycles # 0 => r >= 1)
        /\ r \in Nat /\ s.current_item[1].cycle \in Nat
    BY <1>10, <1>12
  <2> HIDE DEF r, w
  <2>3. CASE s.latency_cycles = 0
    <3>1. r = 0 /\ w = 1
      BY <2>1, <2>2, <2>3
    <3>2. QED
      BY <1>6, <2>2, <2>3, <3>1
  <2>4. CASE s.latency_cycles # 0
    <3>1. r = 1 /\ w = s.latency_cycles
      BY <2>1, <2>2, <2>4
    <3>2. QED
      BY <1>6, <2>2, <2>4, <3>1
  <2>5. QED
    BY <2>3, <2>4
<1>14. s.state = "Stalled" => s.current_item[1].cycle + 1 + w <= Cycles(s)
  BY DEF Timely
<1>15. ASSUME Started(s, t)
       PROVE  /\ t.state # "Stalled"
              /\ t.state = "Busy" => t.current_item[1].cycle + 1 + t.latency_cycles
                                       <= Cycles(t) + t.current_item[1].remaining_cycles
  <2>1. /\ t.state \in {"Idle", "Busy"}
        /\ t.state = "Busy" => t.current_item[1].remaining_cycles = s.latency_cycles
    BY <1>1, <1>15, StartedFresh
  <2>2. QED
    BY <1>6, <1>11, <2>1
<1>16. ASSUME Kept(s, t), gone = <<>>
       PROVE  /\ t.state = "Busy" => t.current_item[1].cycle + 1 + t.latency_cycles
                                       <= Cycles(t) + t.current_item[1].remaining_cycles
              /\ t.state = "Stalled" => t.current_item[1].cycle + 1 + w <= Cycles(t)
  <2>1. s.state # "Idle" /\ t.state # "Idle" /\ Len(gone) = 0
    BY <1>16 DEF Kept
  <2>2. t.current_item[1].cycle = s.current_item[1].cycle
    BY <1>10, <1>11, <2>1
  <2>3. CASE /\ s.state = "Busy" /\ t.state = "Busy"
             /\ t.current_item[1].remaining_cycles = r - 1
    <3>1. /\ s.current_item[1].cycle + 1 + s.latency_cycles <= Cycles(s) + r
          /\ r \in Nat /\ s.current_item[1].cycle \in Nat
      BY <1>10, <1>12, <2>3
    <3> HIDE DEF r
    <3>2. s.current_item[1].cycle + 1 + s.latency_cycles <= (Cycles(s) + 1) + (r - 1)
      BY <1>6, <3>1
    <3>3. QED
      BY <1>6, <2>2, <2>3, <3>2
  <2>4. CASE s.state = "Busy" /\ r <= 1 /\ t.state = "Stalled"
    BY <1>6, <1>10, <1>13, <2>2, <2>4
  <2>5. CASE s.state = "Stalled" /\ t.state = "Stalled"
    BY <1>6, <1>10, <1>14, <2>2, <2>5
  <2>6. QED
    BY <1>1, <1>16, <2>3, <2>4, <2>5, KeptServed
<1>17. Timely(t)
  <2>1. Started(s, t) \/ (Kept(s, t) /\ gone = <<>>)
    BY <1>2 DEF Ticked, Left
  <2>2. QED
    BY <1>6, <1>9, <1>15, <1>16, <2>1 DEF Timely
<1>18. ASSUME Len(gone) = 1  PROVE LeftOnTime(t, gone[1])
  <2> DEFINE item == Contents(s)[1]
             bound == (item.ahead + 1) * w
  <2>1. Alike(gone[1], item) /\ s.state # "Idle" /\ item = s.current_item[1]
    BY <1>4, <1>10, <1>18
  <2>2. item.cycle + 1 + w <= Cycles(t)
    <3>1. Left(s, t, gone)
      <4>1. gone # <<>>
        BY <1>18
      <4>2. QED
        BY <1>2, <4>1 DEF Ticked
    <3>2. CASE s.state = "Busy" /\ r <= 1
      BY <1>6, <1>13, <2>1, <3>2
    <3>3. CASE s.state = "Stalled"
      BY <1>6, <1>10, <1>14, <2>1, <3>3
    <3>4. QED
      BY <3>1, <3>2, <3>3 DEF Left
  <2>3. /\ item.ready_at \in Nat /\ bound \in Nat /\ item.cycle \in Nat
        /\ s.ready_cycles + 1 + (1 - 1) * w <= item.ready_at + 1 + bound
    BY <1>7, <1>8, <1>10, <1>18, <2>1
  <2>4. (1 - 1) * w = 0
    BY <1>6
  <2>5. t.ready_cycles = s.ready_cycles + 1
    BY <1>6, <1>7, <1>18
  <2>6. t.ready_cycles - item.ready_at <= 1 + bound
    <3> HIDE DEF bound, item
    <3>1. QED
      BY <1>6, <2>3, <2>4, <2>5
  <2>7. Cycles(t) - item.cycle >= w + 1
    <3> HIDE DEF bound, item
    <3>1. QED
      BY <1>6, <2>2, <2>3
  <2>8. QED
    BY <1>6, <2>1, <2>6, <2>7 DEF LeftOnTime, Alike
<1>19. \A k \in DOMAIN gone : LeftOnTime(t, gone[k])
  <2>1. \A k \in DOMAIN gone : k = 1 /\ Len(gone) = 1
    BY <1>4
  <2>2. QED
    BY <1>18, <2>1
<1>20. QED
  BY <1>17, <1>19 DEF t, gone

\* An arriving item waits for no more than the work ahead of it.
LEMMA TimelyReceive ==
  ASSUME NEW D, NEW s, Sound(s, D), NEW data \in D, Timely(s)
  PROVE  Timely(Receive(s, data))
<1> DEFINE t == Receive(s, data)
           n == Len(Contents(s))
           w == Work(s)
<1>1. Received(s, t, data) /\ t \in Stage(D) /\ s \in Stage(D)
  BY ReceiveEffect DEF Sound, StageOK
<1>2. \/ ~CanAccept(s) /\ Contents(t) = Contents(s)
      \/ /\ CanAccept(s) /\ Len(Contents(t)) = n + 1
         /\ \A k \in 1..n : Contents(t)[k] = Contents(s)[k]
         /\ Contents(t)[n + 1].cycle = Cycles(s)
         /\ Contents(t)[n + 1].ahead = n
         /\ Contents(t)[n + 1].ready_at = s.ready_cycles
  <2> DEFINE item == [id |-> s.item_counter, data |-> data,
                      remaining_cycles |-> s.latency_cycles, cycle |-> Cycles(s),
                      ahead |-> n, ready_at |-> s.ready_cycles]
  <2>1. item.cycle = Cycles(s) /\ item.ahead = n /\ item.ready_at = s.ready_cycles
    OBVIOUS
  <2>2. \/ ~CanAccept(s) /\ Contents(t) = Contents(s)
        \/ /\ CanAccept(s) /\ Len(Contents(t)) = n + 1
           /\ \A k \in 1..n : Contents(t)[k] = Contents(s)[k]
           /\ Contents(t)[n + 1] = item
    BY ReceivedContents
  <2> HIDE DEF item
  <2>3. QED
    BY <2>1, <2>2
<1> HIDE DEF t
<1>3. /\ Work(t) = w /\ Needed(t) = Needed(s) /\ Cycles(t) = Cycles(s)
      /\ t.ready_cycles = s.ready_cycles /\ t.latency_cycles = s.latency_cycles
      /\ t.state = s.state /\ t.current_item = s.current_item
  BY <1>1 DEF Received, Work, Needed
<1>4. /\ n \in Nat /\ w \in Nat /\ Needed(s) \in Nat /\ Needed(s) <= 1 + w
      /\ Cycles(s) \in Nat /\ s.ready_cycles \in Nat
  BY <1>1, SoundType, ContentsShape, NeededType, StatsCount
<1>5. ASSUME NEW k \in 1..Len(Contents(t))  PROVE Scheduled(t, Contents(t)[k], k)
  <2>1. CASE k \in 1..n /\ Contents(t)[k] = Contents(s)[k]
    BY <1>3, <2>1 DEF Timely, Scheduled
  <2>2. CASE /\ k = n + 1
             /\ Contents(t)[k].cycle = Cycles(s) /\ Contents(t)[k].ahead = n
             /\ Contents(t)[k].ready_at = s.ready_cycles
    <3>1. (n + 1) * w = n * w + w /\ n * w \in Nat
      BY <1>4, OneMore
    <3>2. k - 1 = n
      BY <1>4, <2>2
    <3>3. \A a, b, c, d \in Nat : b <= 1 + d => a + b + c <= a + 1 + (c + d)
      OBVIOUS
    <3>4. s.ready_cycles + Needed(s) + n * w <= s.ready_cycles + 1 + (n * w + w)
      BY <1>4, <3>1, <3>3
    <3>5. QED
      BY <1>3, <1>4, <2>2, <3>1, <3>2, <3>4 DEF Scheduled
  <2>3. k \in 1..n \/ (k = n + 1 /\ CanAccept(s))
    BY <1>2, <1>4
  <2>4. QED
    BY <1>2, <2>1, <2>2, <2>3
<1>6. Timely(t)
  BY <1>3, <1>5 DEF Timely
<1>7. QED
  BY <1>6 DEF t

\* All of it.
StageInv(s, D) == Sound(s, D) /\ Numbered(s) /\ Utilized(s) /\ Timely(s)

\* on_tick keeps the whole invariant of a stage.
LEMMA StageTick ==
  ASSUME NEW D, NEW s, StageInv(s, D)
  PROVE  StageInv(OnTick(s).stage, D)
<1>1. Sound(OnTick(s).stage, D)
  BY SoundTick, UnlimitedAssumption DEF StageInv
<1>2. QED
  BY <1>1, NumberedTick, UtilizedTick, TimelyTick DEF StageInv

\* An arriving item keeps the whole invariant of a stage.
LEMMA StageReceive ==
  ASSUME NEW D, NEW s, StageInv(s, D), NEW data \in D
  PROVE  StageInv(Receive(s, data), D)
<1> DEFINE t == Receive(s, data)
<1>1. Received(s, t, data)
  BY ReceiveEffect DEF StageInv, Sound
<1>2. Sound(t, D) /\ Numbered(t) /\ Timely(t)
  BY SoundReceive, NumberedReceive, TimelyReceive DEF StageInv
<1> HIDE DEF t
<1>3. Utilized(t)
  <2>1. Utilized(s)
    BY DEF StageInv
  <2>2. QED
    BY <1>1, <2>1 DEF Received, Utilized, Work
<1>4. StageInv(t, D)
  BY <1>2, <1>3 DEF StageInv
<1>5. QED
  BY <1>4 DEF t

\* A ready signal keeps the whole invariant of a stage.
LEMMA StageSignal ==
  ASSUME NEW D, NEW s, StageInv(s, D), NEW ready \in BOOLEAN
  PROVE  StageInv(SignalReady(s, ready), D)
<1> DEFINE t == SignalReady(s, ready)
<1>1. /\ t.latency_cycles = s.latency_cycles /\ t.state = s.state
      /\ t.current_item = s.current_item /\ t.input_queue = s.input_queue
      /\ t.item_counter = s.item_counter /\ t.stats = s.stats
      /\ t.ready_cycles = s.ready_cycles
  BY SignalEffect DEF StageInv, Sound
<1>2. Sound(t, D)
  BY SoundSignal DEF StageInv
<1> HIDE DEF t
<1>3. Contents(t) = Contents(s) /\ Cycles(t) = Cycles(s) /\ Work(t) = Work(s)
      /\ Needed(t) = Needed(s)
  BY <1>1 DEF Contents, Cycles, Work, Needed
<1>4. Numbered(t)
  BY <1>1, <1>3 DEF StageInv, Numbered
<1>5. Utilized(t)
  BY <1>1, <1>3 DEF StageInv, Utilized
<1>6. Timely(t)
  BY <1>1, <1>3 DEF StageInv, Timely, Scheduled
<1>7. StageInv(t, D)
  BY <1>2, <1>4, <1>5, <1>6 DEF StageInv
<1>8. QED
  BY <1>7 DEF t

\* A new stage satisfies the whole invariant.
LEMMA StageNew ==
  ASSUME NEW D, NEW latency \in Nat, NEW depth \in Nat \cup {Unlimited}, NEW next \in BOOLEAN
  PROVE  StageInv(NewStage(latency, depth, next), D)
<1> DEFINE t == NewStage(latency, depth, next)
<1>1. /\ t.state = "Idle" /\ t.current_item = <<>> /\ t.input_queue = <<>>
      /\ t.item_counter = 0 /\ t.stats = NoStats /\ t.latency_cycles = latency
  BY DEF NewStage
<1>2. Sound(t, D)
  BY SoundNew
<1> HIDE DEF t
<1>3. Contents(t) = <<>> /\ Len(Contents(t)) = 0 /\ Work(t) \in Nat
  BY <1>1 DEF Contents, Work
<1>4. /\ t.stats.received = 0 /\ t.stats.dropped = 0 /\ t.stats.processed = 0
      /\ t.stats.busy = 0
  BY <1>1 DEF NoStats
<1>5. Numbered(t)
  BY <1>1, <1>3, <1>4 DEF Numbered
<1>6. Utilized(t)
  BY <1>1, <1>3, <1>4 DEF Utilized
<1>7. Timely(t)
  BY <1>1, <1>3 DEF Timely
<1>8. StageInv(t, D)
  BY <1>2, <1>5, <1>6, <1>7 DEF StageInv
<1>9. QED
  BY <1>8 DEF t

\* An item does not change whether there is a next stage.
LEMMA KeepsNext ==
  ASSUME NEW D, NEW s, StageInv(s, D), NEW data \in D
  PROVE  Receive(s, data).has_next = s.has_next
<1>1. StageOK(s, D)
  BY DEF StageInv, Sound
<1>2. Received(s, Receive(s, data), data)
  BY <1>1, ReceiveEffect
<1>3. QED
  BY <1>2 DEF Received

\* A stage of some data is one of any more.
LEMMA StageMore ==
  ASSUME NEW D, NEW E, D \subseteq E, NEW s, StageInv(s, D)
  PROVE  StageInv(s, E)
<1>1. Item(D) \subseteq Item(E)
  BY DEF Item
<1>2. Seq(Item(D)) \subseteq Seq(Item(E))
  BY <1>1
<1>3. Stage(D) \subseteq Stage(E)
  BY <1>2 DEF Stage
<1>4. QED
  BY <1>3 DEF StageInv, Sound, StageOK

-------------------------------------------------------------------------------
(* The items of a stage by their data. *)

\* One datum for each item that leaves.
LEMMA DataOfType ==
  ASSUME NEW D, NEW items \in Seq(Item(D))
  PROVE  DataOf(items) \in Seq(D) /\ Len(DataOf(items)) = Len(items)
<1>1. Len(items) \in Nat /\ DOMAIN items = 1..Len(items)
  OBVIOUS
<1>2. ASSUME NEW k \in 1..Len(items)  PROVE items[k].data \in D
  <2>1. items[k] \in Item(D)
    BY <1>1
  <2>2. QED
    BY <2>1 DEF Item
<1>3. QED
  BY <1>1, <1>2 DEF DataOf


\* What leaves in a tick was at the head of the contents.
LEMMA TickedData ==
  ASSUME NEW D, NEW s, Sound(s, D)
  PROVE  LET t == OnTick(s).stage gone == OnTick(s).left
         IN  DataOf(Contents(s)) = DataOf(gone) \o DataOf(Contents(t))
<1> DEFINE t == OnTick(s).stage
           gone == OnTick(s).left
           c == DataOf(Contents(s))
           l == DataOf(gone)
           d == DataOf(Contents(t))
<1>1. StageOK(s, D) /\ s \in Stage(D) /\ t \in Stage(D) /\ Ticked(s, t, gone)
      /\ Sound(t, D)
  BY OnTickEffect, SoundType, SoundTick, UnlimitedAssumption DEF Sound
<1> HIDE DEF t, gone
<1>2. /\ gone \in Seq(Item(D)) /\ Len(gone) \in {0, 1}
      /\ Len(Contents(s)) = Len(gone) + Len(Contents(t))
      /\ Len(gone) = 1 => Contents(s) # <<>> /\ Alike(gone[1], Contents(s)[1])
      /\ \A k \in 1..Len(Contents(t)) : Alike(Contents(t)[k], Contents(s)[k + Len(gone)])
  BY <1>1, TickedContents
<1>3. /\ Contents(s) \in Seq(Item(D)) /\ DOMAIN Contents(s) = 1..Len(Contents(s))
      /\ Contents(t) \in Seq(Item(D)) /\ DOMAIN Contents(t) = 1..Len(Contents(t))
      /\ Len(Contents(s)) \in Nat /\ Len(Contents(t)) \in Nat
  BY <1>1, ContentsShape, SoundType
<1>4. /\ c \in Seq(D) /\ l \in Seq(D) /\ d \in Seq(D)
      /\ Len(c) = Len(Contents(s)) /\ Len(l) = Len(gone) /\ Len(d) = Len(Contents(t))
  BY <1>2, <1>3, DataOfType
<1>5. /\ \A k \in 1..Len(c) : c[k] = Contents(s)[k].data
      /\ \A k \in 1..Len(l) : l[k] = gone[k].data
      /\ \A k \in 1..Len(d) : d[k] = Contents(t)[k].data
  BY <1>2, <1>3, <1>4 DEF DataOf
<1> HIDE DEF c, l, d
<1>6. /\ \A k \in 1..Len(l) : l[k] = c[k]
      /\ \A k \in 1..Len(d) : d[k] = c[k + Len(l)]
  <2>1. ASSUME NEW k \in 1..Len(l)  PROVE k = 1 /\ Len(gone) = 1 /\ 1 \in 1..Len(c)
    <3>1. Len(gone) = 1 /\ k = 1
      <4>1. Len(gone) \in {0, 1} /\ k \in 1..Len(gone)
        BY <1>2, <1>4, <2>1
      <4>2. QED
        BY <4>1
    <3>2. Len(c) \in Nat /\ Len(c) >= 1
      BY <1>2, <1>3, <1>4, <3>1
    <3>3. QED
      BY <3>1, <3>2
  <2>2. \A k \in 1..Len(d) : k + Len(l) \in 1..Len(c)
    BY <1>2, <1>3, <1>4
  <2>3. ASSUME NEW k \in 1..Len(d)  PROVE d[k] = c[k + Len(l)]
    <3>1. c[k + Len(l)] = Contents(s)[k + Len(l)].data
      BY <1>5, <2>2
    <3>2. d[k] = Contents(t)[k].data
      BY <1>5
    <3>3. Contents(t)[k].data = Contents(s)[k + Len(l)].data
      BY <1>2, <1>4 DEF Alike
    <3>4. QED
      BY <3>1, <3>2, <3>3
  <2>4. \A k \in 1..Len(l) : l[k] = c[k]
    BY <1>2, <1>5, <2>1 DEF Alike
  <2>5. QED
    BY <2>3, <2>4
<1>7. c = l \o d
  <2>1. Len(c) = Len(l) + Len(d)
    BY <1>2, <1>4
  <2>2. l \o d \in Seq(D) /\ Len(l \o d) = Len(l) + Len(d)
    BY <1>4, ConcatProperties
  <2>3. ASSUME NEW k \in 1..Len(c)  PROVE c[k] = (l \o d)[k]
    <3>1. CASE k \in 1..Len(l)
      BY <1>4, <1>6, <3>1
    <3>2. CASE k \notin 1..Len(l)
      <4>1. k - Len(l) \in 1..Len(d) /\ (k - Len(l)) + Len(l) = k
        BY <1>4, <2>1, <3>2
      <4>2. (l \o d)[k] = d[k - Len(l)]
        BY <1>4, <3>2, <4>1
      <4>3. QED
        BY <1>6, <4>1, <4>2
    <3>3. QED
      BY <3>1, <3>2
  <2>4. QED
    BY <1>4, <2>1, <2>2, <2>3, SeqEqual
<1>8. QED
  BY <1>7 DEF c, l, d, t, gone

\* An item goes to the end of the contents or is dropped.
LEMMA ReceivedData ==
  ASSUME NEW D, NEW s, Sound(s, D), NEW data \in D
  PROVE  DataOf(Contents(Receive(s, data))) \in
           {DataOf(Contents(s)), DataOf(Contents(s)) \o <<data>>}
<1> DEFINE t == Receive(s, data)
           c == DataOf(Contents(s))
           d == DataOf(Contents(t))
<1>1. s \in Stage(D) /\ Sound(t, D) /\ t \in Stage(D)
  BY SoundReceive, SoundType
<1>2. \/ Contents(t) = Contents(s)
      \/ /\ Len(Contents(t)) = Len(Contents(s)) + 1
         /\ \A k \in 1..Len(Contents(s)) : Contents(t)[k] = Contents(s)[k]
         /\ Contents(t)[Len(Contents(s)) + 1].data = data
  <2> DEFINE item == [id |-> s.item_counter, data |-> data,
                      remaining_cycles |-> s.latency_cycles, cycle |-> Cycles(s),
                      ahead |-> Len(Contents(s)), ready_at |-> s.ready_cycles]
  <2>1. item.data = data
    OBVIOUS
  <2> HIDE DEF item
  <2>2. \/ Contents(t) = Contents(s)
        \/ /\ Len(Contents(t)) = Len(Contents(s)) + 1
           /\ \A k \in 1..Len(Contents(s)) : Contents(t)[k] = Contents(s)[k]
           /\ Contents(t)[Len(Contents(s)) + 1] = item
    BY ReceivedContents DEF item
  <2>3. QED
    BY <2>1, <2>2
<1> HIDE DEF t
<1>3. /\ Contents(s) \in Seq(Item(D)) /\ DOMAIN Contents(s) = 1..Len(Contents(s))
      /\ Contents(t) \in Seq(Item(D)) /\ DOMAIN Contents(t) = 1..Len(Contents(t))
      /\ Len(Contents(s)) \in Nat /\ Len(Contents(t)) \in Nat
  BY <1>1, ContentsShape, SoundType
<1>4. /\ c \in Seq(D) /\ d \in Seq(D)
      /\ Len(c) = Len(Contents(s)) /\ Len(d) = Len(Contents(t))
  BY <1>3, DataOfType
<1>5. /\ \A k \in 1..Len(c) : c[k] = Contents(s)[k].data
      /\ \A k \in 1..Len(d) : d[k] = Contents(t)[k].data
  BY <1>3, <1>4 DEF DataOf
<1>6. CASE Contents(t) = Contents(s)
  BY <1>6 DEF t
<1>7. CASE /\ Len(Contents(t)) = Len(Contents(s)) + 1
           /\ \A k \in 1..Len(Contents(s)) : Contents(t)[k] = Contents(s)[k]
           /\ Contents(t)[Len(Contents(s)) + 1].data = data
  <2>1. /\ Len(d) = Len(c) + 1 /\ \A k \in 1..Len(c) : d[k] = c[k]
        /\ d[Len(c) + 1] = data
    BY <1>3, <1>4, <1>5, <1>7
  <2> HIDE DEF c, d
  <2>2. /\ Len(c \o <<data>>) = Len(c) + 1 /\ c \o <<data>> \in Seq(D)
        /\ \A k \in 1..Len(c) : (c \o <<data>>)[k] = c[k]
        /\ (c \o <<data>>)[Len(c) + 1] = data
    BY <1>4
  <2>3. \A k \in 1..Len(d) : k \in 1..Len(c) \/ k = Len(c) + 1
    BY <1>4, <2>1
  <2>4. \A k \in 1..Len(d) : d[k] = (c \o <<data>>)[k]
    BY <2>1, <2>2, <2>3
  <2>5. d = c \o <<data>>
    BY <1>4, <2>1, <2>2, <2>4
  <2>6. QED
    BY <2>5 DEF c, d, t
<1>8. QED
  BY <1>2, <1>6, <1>7

-------------------------------------------------------------------------------
(* Chains of stages. *)

\* The stages keep their invariant, and so does what is between them.
Wired ==
  /\ synchronous \in BOOLEAN /\ offered \in Nat
  /\ DOMAIN stage = Stages
  /\ \A i \in Stages : /\ StageInv(stage[i], 0..(offered - 1))
                       /\ stage[i].has_next = (i < FinalStage)
  /\ wire \in [Stages -> Seq(0..(offered - 1))]
  /\ wire[1] = <<>>
  /\ done \in Seq(0..(offered - 1))

\* Stages are numbered from 1 without gaps, and there is at least one.
LEMMA StagesType ==
  ASSUME ChainAssumption, synchronous \in BOOLEAN
  PROVE  /\ FinalStage \in Nat /\ FinalStage >= 1 /\ 1 \in Stages /\ FinalStage \in Stages
         /\ Stages \subseteq Nat
BY DEF ChainAssumption, FinalStage, Stages

\* The tick of a stage of the chain.
LEMMA ChainTicked ==
  ASSUME Wired, NEW i \in Stages
  PROVE  LET s == stage[i] t == OnTick(s).stage l == OnTick(s).left D == 0..(offered - 1)
         IN  /\ StageOK(s, D) /\ Sound(s, D) /\ t \in Stage(D) /\ Ticked(s, t, l)
             /\ l \in Seq(Item(D)) /\ Len(l) \in {0, 1}
<1>1. StageInv(stage[i], 0..(offered - 1))
  BY DEF Wired
<1>2. StageOK(stage[i], 0..(offered - 1)) /\ Sound(stage[i], 0..(offered - 1))
  BY <1>1 DEF StageInv, Sound
<1>3. QED
  BY <1>2, OnTickEffect, TickedContents

\* create_stages and init wire the stages up.
LEMMA WiredInit == ChainAssumption /\ Init => Wired
<1> SUFFICES ASSUME ChainAssumption, Init  PROVE Wired
  OBVIOUS
<1>1. PICK latency \in [Stages -> Latencies], depth \in Depths :
        stage = [i \in Stages |-> NewStage(latency[i], depth, i < FinalStage)]
  BY DEF Init
<1>2. synchronous \in BOOLEAN /\ offered = 0 /\ done = <<>> /\ wire = [i \in Stages |-> <<>>]
  BY DEF Init, None
<1>3. /\ FinalStage \in Nat /\ 1 \in Stages /\ Stages \subseteq Nat
  BY <1>2, StagesType
<1>4. ASSUME NEW i \in Stages
      PROVE  /\ StageInv(stage[i], 0..(offered - 1))
             /\ stage[i].has_next = (i < FinalStage)
  <2> DEFINE next == i < FinalStage
             E == 0..(offered - 1)
  <2>1. latency[i] \in Nat /\ depth \in Nat \cup {Unlimited}
    BY DEF ChainAssumption
  <2>2. next \in BOOLEAN
    OBVIOUS
  <2>3. stage[i] = NewStage(latency[i], depth, next)
    BY <1>1
  <2> HIDE DEF next, E
  <2>4. stage[i].has_next = next
    <3>1. NewStage(latency[i], depth, next).has_next = next
      BY DEF NewStage
    <3>2. QED
      BY <2>3, <3>1, Zenon
  <2>5. StageInv(NewStage(latency[i], depth, next), E)
    BY <2>1, <2>2, StageNew
  <2>6. StageInv(stage[i], E)
    BY <2>3, <2>5, Zenon
  <2>7. QED
    BY <2>4, <2>6, Zenon DEF next, E
<1>5. <<>> \in Seq(0..(offered - 1))
  OBVIOUS
<1>6. QED
  BY <1>1, <1>2, <1>3, <1>4, <1>5 DEF Wired

\* Every step keeps the stages' own invariants and the types of the wires.
LEMMA WiredStep == ChainAssumption /\ Wired /\ [Next]_vars => Wired'
<1> SUFFICES ASSUME ChainAssumption, Wired, [Next]_vars  PROVE Wired'
  OBVIOUS
<1> DEFINE D == 0..(offered - 1)
<1>1. /\ synchronous \in BOOLEAN /\ offered \in Nat /\ DOMAIN stage = Stages
      /\ wire \in [Stages -> Seq(D)] /\ wire[1] = <<>> /\ done \in Seq(D)
      /\ \A i \in Stages : /\ StageInv(stage[i], D) /\ StageOK(stage[i], D)
                           /\ stage[i].has_next = (i < FinalStage)
  BY DEF Wired, StageInv, Sound
<1>2. /\ FinalStage \in Nat /\ FinalStage >= 1 /\ 1 \in Stages /\ FinalStage \in Stages
      /\ Stages \subseteq Nat
  BY <1>1, StagesType
<1>3. UNCHANGED synchronous => FinalStage' = FinalStage /\ Stages' = Stages
  BY DEF FinalStage, Stages
<1>4. CASE InitNodes
  <2>1. /\ UNCHANGED synchronous /\ offered' = 0 /\ done' = <<>>
        /\ wire' = [i \in Stages |-> <<>>]
        /\ stage' = [i \in Stages |-> InitStage(stage[i])]
    BY <1>4 DEF InitNodes, None
  <2>2. ASSUME NEW i \in Stages
        PROVE  StageInv(stage'[i], 0..(offered' - 1)) /\ stage'[i].has_next = (i < FinalStage)
    <3> DEFINE s == stage[i]
    <3>1. /\ s.latency_cycles \in Nat /\ s.max_queue_depth \in Nat \cup {Unlimited}
          /\ s.has_next \in BOOLEAN
      BY <1>1 DEF StageOK, Stage
    <3>2. stage'[i] = NewStage(s.latency_cycles, s.max_queue_depth, s.has_next)
      BY <2>1 DEF InitStage
    <3>3. stage'[i].has_next = s.has_next
      BY <3>2 DEF NewStage
    <3> DEFINE E == 0..(offered' - 1)
    <3> HIDE DEF E
    <3>4. StageInv(NewStage(s.latency_cycles, s.max_queue_depth, s.has_next), E)
      BY <3>1, StageNew
    <3>5. StageInv(stage'[i], E)
      BY <3>2, <3>4, Zenon
    <3>6. QED
      BY <1>1, <3>3, <3>5 DEF E
  <2>3. <<>> \in Seq(0..(offered' - 1))
    OBVIOUS
  <2>4. QED
    BY <1>1, <1>2, <1>3, <2>1, <2>2, <2>3 DEF Wired
<1>5. CASE Offer
  <2> DEFINE E == 0..(offered' - 1)
  <2>1. /\ UNCHANGED <<synchronous, wire, done>> /\ offered' = offered + 1
        /\ stage' = [stage EXCEPT ![1] = Receive(stage[1], offered)]
    BY <1>5 DEF Offer
  <2>2. D \subseteq E /\ offered \in E /\ offered' \in Nat
    BY <1>1, <2>1
  <2> HIDE DEF E
  <2>3. ASSUME NEW i \in Stages
        PROVE  StageInv(stage'[i], E) /\ stage'[i].has_next = (i < FinalStage)
    <3>1. StageInv(stage[i], E)
      BY <1>1, <2>2, StageMore
    <3>2. CASE i = 1
      <4>1. stage'[i] = Receive(stage[i], offered)
        BY <1>1, <1>2, <2>1, <3>2
      <4>2. StageInv(stage'[i], E)
        BY <2>2, <3>1, <4>1, StageReceive
      <4>3. stage'[i].has_next = stage[i].has_next
        BY <2>2, <3>1, <4>1, KeepsNext
      <4>4. QED
        BY <1>1, <4>2, <4>3
    <3>3. CASE i # 1
      BY <1>1, <2>1, <3>1, <3>3
    <3>4. QED
      BY <3>2, <3>3
  <2>4. wire' \in [Stages -> Seq(E)] /\ done' \in Seq(E)
    <3> HIDE DEF D
    <3>1. \A q \in Seq(D) : q \in Seq(E)
      BY <2>2
    <3>2. QED
      BY <1>1, <2>1, <3>1
  <2>5. QED
    BY <1>1, <1>3, <2>1, <2>2, <2>3, <2>4 DEF Wired, E
<1>6. ASSUME NEW j \in Stages, Deliver(j)  PROVE Wired'
  <2>1. /\ UNCHANGED <<synchronous, offered, done>> /\ wire[j] # <<>>
        /\ stage' = [stage EXCEPT ![j] = Receive(stage[j], Head(wire[j]))]
        /\ wire' = [wire EXCEPT ![j] = Tail(wire[j])]
    BY <1>6 DEF Deliver
  <2>2. Head(wire[j]) \in D /\ Tail(wire[j]) \in Seq(D) /\ j # 1
    BY <1>1, <2>1
  <2>3. wire' \in [Stages -> Seq(D)] /\ wire'[1] = <<>>
    BY <1>1, <1>2, <2>1, <2>2
  <2>4. ASSUME NEW i \in Stages
        PROVE  StageInv(stage'[i], D) /\ stage'[i].has_next = (i < FinalStage)
    <3>1. CASE i = j
      <4>1. stage'[i] = Receive(stage[i], Head(wire[j]))
        BY <1>1, <2>1, <3>1
      <4>2. StageInv(stage'[i], D)
        BY <1>1, <2>2, <4>1, StageReceive
      <4>3. stage'[i].has_next = stage[i].has_next
        BY <1>1, <2>2, <4>1, KeepsNext
      <4>4. QED
        BY <1>1, <4>2, <4>3
    <3>2. CASE i # j
      BY <1>1, <2>1, <3>2
    <3>3. QED
      BY <3>1, <3>2
  <2>5. QED
    BY <1>1, <1>3, <2>1, <2>3, <2>4 DEF Wired
<1>7. ASSUME NEW j \in Stages, NEW ready \in BOOLEAN, Signal(j, ready)  PROVE Wired'
  <2>1. /\ UNCHANGED <<synchronous, offered, done, wire>>
        /\ stage' = [stage EXCEPT ![j] = SignalReady(stage[j], ready)]
    BY <1>7 DEF Signal
  <2>2. ASSUME NEW i \in Stages
        PROVE  StageInv(stage'[i], D) /\ stage'[i].has_next = (i < FinalStage)
    <3>1. CASE i = j
      <4>1. stage'[i] = SignalReady(stage[i], ready)
        BY <1>1, <2>1, <3>1
      <4>2. StageInv(stage'[i], D)
        BY <1>1, <4>1, StageSignal
      <4>3. stage'[i].has_next = stage[i].has_next
        BY <1>1, <4>1, SignalEffect
      <4>4. QED
        BY <1>1, <4>2, <4>3
    <3>2. CASE i # j
      BY <1>1, <2>1, <3>2
    <3>3. QED
      BY <3>1, <3>2
  <2>3. QED
    BY <1>1, <1>3, <2>1, <2>2 DEF Wired
<1>8. CASE TickAll
  <2>1. /\ UNCHANGED <<synchronous, offered>>
        /\ stage' = [i \in Stages |-> OnTick(stage[i]).stage]
        /\ left' = [i \in Stages |-> OnTick(stage[i]).left]
        /\ wire' = [i \in Stages |->
             IF i = 1 THEN <<>> ELSE wire[i] \o Output(stage[i - 1], OnTick(stage[i - 1]).left)]
        /\ done' = done \o DataOf(left'[FinalStage])
    BY <1>8, <1>2 DEF TickAll, Stages
  <2>2. ASSUME NEW i \in Stages
        PROVE  /\ OnTick(stage[i]).left \in Seq(Item(D))
               /\ DataOf(OnTick(stage[i]).left) \in Seq(D)
               /\ Output(stage[i], OnTick(stage[i]).left) \in Seq(D)
    <3>1. OnTick(stage[i]).left \in Seq(Item(D))
      BY ChainTicked
    <3>2. DataOf(OnTick(stage[i]).left) \in Seq(D)
      BY <3>1, DataOfType
    <3>3. <<>> \in Seq(D)
      OBVIOUS
    <3>4. Output(stage[i], OnTick(stage[i]).left) \in {<<>>, DataOf(OnTick(stage[i]).left)}
      BY DEF Output
    <3>5. QED
      BY <3>1, <3>2, <3>3, <3>4
  <2>3. ASSUME NEW i \in Stages
        PROVE  StageInv(stage'[i], D) /\ stage'[i].has_next = (i < FinalStage)
    <3>1. stage'[i] = OnTick(stage[i]).stage
      BY <2>1
    <3>2. StageInv(stage'[i], D)
      BY <1>1, <3>1, StageTick
    <3>3. stage'[i].has_next = stage[i].has_next
      BY <3>1, ChainTicked DEF Ticked
    <3>4. QED
      BY <1>1, <3>2, <3>3
  <2>4. ASSUME NEW i \in Stages  PROVE wire'[i] \in Seq(D)
    <3>1. CASE i = 1
      BY <2>1, <3>1
    <3>2. CASE i # 1
      <4>1. i - 1 \in Stages
        BY <1>2, <3>2 DEF Stages
      <4>2. wire'[i] = wire[i] \o Output(stage[i - 1], OnTick(stage[i - 1]).left)
        BY <2>1, <3>2
      <4>3. QED
        BY <1>1, <2>2, <4>1, <4>2
    <3>3. QED
      BY <3>1, <3>2
  <2>5. done' \in Seq(D)
    BY <1>1, <1>2, <2>1, <2>2
  <2>6. wire' \in [Stages -> Seq(D)] /\ wire'[1] = <<>>
    BY <1>2, <2>1, <2>4
  <2>7. QED
    BY <1>1, <1>3, <2>1, <2>3, <2>5, <2>6 DEF Wired
<1>9. CASE UNCHANGED vars
  BY <1>3, <1>9 DEF vars, Wired
<1>10. QED
  BY <1>4, <1>5, <1>6, <1>7, <1>8, <1>9 DEF Next

\* Types: over any mix of items, signals and ticks no queue outgrows its depth and
\* only a stage with a next one stalls.
THEOREM TypeCorrect == Spec => []TypeOK
<1> USE ChainAssumption
<1>1. Init => Wired
  BY WiredInit
<1>2. Wired /\ [Next]_vars => Wired'
  BY WiredStep
<1>3. Wired => TypeOK
  BY DEF Wired, TypeOK, StageInv, Sound
<1>4. QED
  BY <1>1, <1>2, <1>3, PTL DEF Spec

\* BusyCyclesAreWork: the utilization is exact for every latency.
THEOREM UtilizationIsExact == Spec => []BusyCyclesAreWork
<1> USE ChainAssumption
<1>1. Init => Wired
  BY WiredInit
<1>2. Wired /\ [Next]_vars => Wired'
  BY WiredStep
<1>3. Wired => BusyCyclesAreWork
  BY DEF Wired, BusyCyclesAreWork, StageInv, Utilized
<1>4. QED
  BY <1>1, <1>2, <1>3, PTL DEF Spec

-------------------------------------------------------------------------------
(* OnTime. *)

\* What leaves in a tick is on time when it leaves; any other step forgets it.
LeftTimely == \A i \in Stages : \A k \in DOMAIN left[i] : LeftOnTime(stage[i], left[i][k])

\* What leaves the last stage has been there no longer than its promise.
LEMMA LeftTimelyStep == ChainAssumption /\ Wired /\ LeftTimely /\ [Next]_vars => LeftTimely'
<1> SUFFICES ASSUME ChainAssumption, Wired, LeftTimely, [Next]_vars  PROVE LeftTimely'
  OBVIOUS
<1>1. UNCHANGED synchronous => Stages' = Stages
  BY DEF FinalStage, Stages
<1>2. ASSUME UNCHANGED synchronous, left' = None  PROVE LeftTimely'
  BY <1>1, <1>2 DEF LeftTimely, None
<1>3. CASE TickAll
  <2>1. /\ UNCHANGED synchronous
        /\ stage' = [i \in Stages |-> OnTick(stage[i]).stage]
        /\ left' = [i \in Stages |-> OnTick(stage[i]).left]
    BY <1>3 DEF TickAll
  <2>2. ASSUME NEW i \in Stages
        PROVE  \A k \in DOMAIN left'[i] : LeftOnTime(stage'[i], left'[i][k])
    <3>1. Sound(stage[i], 0..(offered - 1)) /\ Timely(stage[i])
      BY DEF Wired, StageInv
    <3>2. \A k \in DOMAIN OnTick(stage[i]).left :
            LeftOnTime(OnTick(stage[i]).stage, OnTick(stage[i]).left[k])
      BY <3>1, TimelyTick
    <3>3. stage'[i] = OnTick(stage[i]).stage /\ left'[i] = OnTick(stage[i]).left
      BY <2>1
    <3>4. QED
      BY <3>2, <3>3
  <2>3. QED
    BY <1>1, <2>1, <2>2 DEF LeftTimely
<1>4. CASE UNCHANGED vars
  BY <1>1, <1>4 DEF vars, LeftTimely
<1>5. QED
  BY <1>2, <1>3, <1>4 DEF Next, InitNodes, Offer, Deliver, Signal

\* OnTime: no item leaves early, and none is late beyond what it found ahead of it
\* and the ticks in which downstream was not ready.
THEOREM ItemsAreOnTime == Spec => []OnTime
<1> USE ChainAssumption
<1>1. Init => Wired /\ LeftTimely
  <2>1. Init => \A i \in Stages : left[i] = <<>>
    BY DEF Init, None
  <2>2. QED
    BY <2>1, WiredInit DEF LeftTimely
<1>2. Wired /\ LeftTimely /\ [Next]_vars => Wired' /\ LeftTimely'
  BY WiredStep, LeftTimelyStep
<1>3. Wired /\ LeftTimely => OnTime
  BY DEF LeftTimely, LeftOnTime, OnTime
<1>4. QED
  BY <1>1, <1>2, <1>3, PTL DEF Spec

-------------------------------------------------------------------------------
(* Accounted: the order of what is in the stages and between them. *)

\* Being older distributes over concatenation.
LEMMA OlderConcat ==
  ASSUME NEW D \in SUBSET Nat, NEW a \in Seq(D), NEW b \in Seq(D), NEW c \in Seq(D)
  PROVE  /\ Older(a \o b, c) <=> Older(a, c) /\ Older(b, c)
         /\ Older(c, a \o b) <=> Older(c, a) /\ Older(c, b)
<1>1. /\ Len(a) \in Nat /\ Len(b) \in Nat /\ DOMAIN a = 1..Len(a) /\ DOMAIN b = 1..Len(b)
      /\ DOMAIN (a \o b) = 1..(Len(a) + Len(b)) /\ DOMAIN c = 1..Len(c)
  OBVIOUS
<1>2. /\ \A k \in DOMAIN a : k \in DOMAIN (a \o b) /\ (a \o b)[k] = a[k]
      /\ \A k \in DOMAIN b : k + Len(a) \in DOMAIN (a \o b) /\ (a \o b)[k + Len(a)] = b[k]
  BY <1>1
<1>3. \A k \in DOMAIN (a \o b) : k \in DOMAIN a \/ \E m \in DOMAIN b : k = m + Len(a)
  <2> SUFFICES ASSUME NEW k \in DOMAIN (a \o b), k \notin DOMAIN a
               PROVE  \E m \in DOMAIN b : k = m + Len(a)
    OBVIOUS
  <2>1. k - Len(a) \in DOMAIN b /\ k = (k - Len(a)) + Len(a)
    BY <1>1
  <2>2. QED
    BY <2>1
<1>4. QED
  BY <1>2, <1>3 DEF Older

\* A concatenation ascends if its parts do and the first is the older.
LEMMA AscendingConcat ==
  ASSUME NEW D \in SUBSET Nat, NEW a \in Seq(D), NEW b \in Seq(D)
  PROVE  Ascending(a \o b) <=> Ascending(a) /\ Ascending(b) /\ Older(a, b)
<1>1. /\ Len(a) \in Nat /\ Len(b) \in Nat /\ DOMAIN a = 1..Len(a) /\ DOMAIN b = 1..Len(b)
      /\ DOMAIN (a \o b) = 1..(Len(a) + Len(b))
  OBVIOUS
<1>2. /\ \A k \in DOMAIN a : k \in DOMAIN (a \o b) /\ (a \o b)[k] = a[k]
      /\ \A k \in DOMAIN b : k + Len(a) \in DOMAIN (a \o b) /\ (a \o b)[k + Len(a)] = b[k]
  BY <1>1
<1>3. \A k \in DOMAIN (a \o b) : k \in DOMAIN a \/ \E m \in DOMAIN b : k = m + Len(a)
  <2> SUFFICES ASSUME NEW k \in DOMAIN (a \o b), k \notin DOMAIN a
               PROVE  \E m \in DOMAIN b : k = m + Len(a)
    OBVIOUS
  <2>1. k - Len(a) \in DOMAIN b /\ k = (k - Len(a)) + Len(a)
    BY <1>1
  <2>2. QED
    BY <2>1
<1>4. ASSUME Ascending(a \o b)  PROVE Ascending(a) /\ Ascending(b) /\ Older(a, b)
  <2>1. Ascending(a)
    BY <1>2, <1>4 DEF Ascending
  <2>2. Ascending(b)
    <3> SUFFICES ASSUME NEW k \in DOMAIN b, NEW m \in DOMAIN b, k < m  PROVE b[k] < b[m]
      BY DEF Ascending
    <3>1. k + Len(a) < m + Len(a)
      BY <1>1
    <3>2. QED
      BY <1>2, <1>4, <3>1 DEF Ascending
  <2>3. Older(a, b)
    <3> SUFFICES ASSUME NEW k \in DOMAIN a, NEW m \in DOMAIN b  PROVE a[k] < b[m]
      BY DEF Older
    <3>1. k < m + Len(a)
      BY <1>1
    <3>2. QED
      BY <1>2, <1>4, <3>1 DEF Ascending
  <2>4. QED
    BY <2>1, <2>2, <2>3
<1>5. ASSUME Ascending(a), Ascending(b), Older(a, b)  PROVE Ascending(a \o b)
  <2> SUFFICES ASSUME NEW k \in DOMAIN (a \o b), NEW m \in DOMAIN (a \o b), k < m
               PROVE  (a \o b)[k] < (a \o b)[m]
    BY DEF Ascending
  <2>1. CASE k \in DOMAIN a /\ m \in DOMAIN a
    BY <1>2, <1>5, <2>1 DEF Ascending
  <2>2. CASE k \in DOMAIN a /\ m \notin DOMAIN a
    BY <1>2, <1>3, <1>5, <2>2 DEF Older
  <2>3. CASE k \notin DOMAIN a
    <3>1. m \notin DOMAIN a
      BY <1>1, <2>3
    <3>2. PICK x \in DOMAIN b, y \in DOMAIN b : k = x + Len(a) /\ m = y + Len(a)
      BY <1>3, <2>3, <3>1
    <3>3. x < y
      BY <1>1, <3>2
    <3>4. QED
      BY <1>2, <1>5, <3>2, <3>3 DEF Ascending
  <2>4. QED
    BY <2>1, <2>2, <2>3
<1>6. QED
  BY <1>4, <1>5

\* What left a stage is on the wire or was received by the next one.
Linked ==
  \A i \in Stages :
    stage[i].stats.received + Len(wire[i]) =
      IF i = 1 THEN offered ELSE stage[i - 1].stats.processed

\* A new stage's counters are zero.
LEMMA NewStats ==
  ASSUME NEW latency, NEW depth, NEW next
  PROVE  NewStage(latency, depth, next).stats = NoStats
BY DEF NewStage

\* A new stage has the queue depth it was built with.
LEMMA NewDepth ==
  ASSUME NEW latency, NEW depth, NEW next
  PROVE  NewStage(latency, depth, next).max_queue_depth = depth
BY DEF NewStage

\* A new stage holds no item.
LEMMA NewIsEmpty ==
  ASSUME NEW latency, NEW depth, NEW next
  PROVE  /\ NewStage(latency, depth, next).current_item = <<>>
         /\ NewStage(latency, depth, next).input_queue = <<>>
BY DEF NewStage

\* The chain starts with consistent counters.
LEMMA LinkedInit == ChainAssumption /\ Init => Linked
<1> SUFFICES ASSUME ChainAssumption, Init, NEW i \in Stages
             PROVE  stage[i].stats.received + Len(wire[i]) =
                      IF i = 1 THEN offered ELSE stage[i - 1].stats.processed
  BY DEF Linked
<1>1. \A j \in Stages : stage[j].stats.received = 0 /\ stage[j].stats.processed = 0
  BY DEF Init, NewStage, NoStats
<1>2. wire[i] = <<>> /\ offered = 0
  BY DEF Init, None
<1>3. i # 1 => i - 1 \in Stages
  BY StagesType DEF Init, Stages
<1>4. QED
  BY <1>1, <1>2, <1>3

\* Every step keeps the counters of neighbouring stages consistent.
LEMMA LinkedStep == ChainAssumption /\ Wired /\ Linked /\ [Next]_vars => Linked'
<1> SUFFICES ASSUME ChainAssumption, Wired, Linked, [Next]_vars  PROVE Linked'
  OBVIOUS
<1> DEFINE D == 0..(offered - 1)
<1>1. /\ synchronous \in BOOLEAN /\ offered \in Nat /\ DOMAIN stage = Stages
      /\ wire \in [Stages -> Seq(D)] /\ wire[1] = <<>>
  BY DEF Wired
<1>2. \A i \in Stages : /\ StageInv(stage[i], D) /\ Sound(stage[i], D) /\ Numbered(stage[i])
                        /\ StageOK(stage[i], D) /\ stage[i] \in Stage(D)
                        /\ stage[i].has_next = (i < FinalStage)
  BY SoundType DEF Wired, StageInv, Sound
<1>3. /\ 1 \in Stages /\ Stages \subseteq Nat /\ \A i \in Stages : i # 1 => i - 1 \in Stages
      /\ FinalStage \in Nat
  BY <1>1, StagesType DEF Stages
<1>4. UNCHANGED synchronous => Stages' = Stages
  BY DEF FinalStage, Stages
<1>5. \A i \in Stages : /\ Len(wire[i]) \in Nat /\ stage[i].stats.received \in Nat
                        /\ stage[i].stats.processed \in Nat
  <2> SUFFICES ASSUME NEW i \in Stages
               PROVE  /\ Len(wire[i]) \in Nat /\ stage[i].stats.received \in Nat
                      /\ stage[i].stats.processed \in Nat
    OBVIOUS
  <2>1. wire[i] \in Seq(D) /\ stage[i] \in Stage(D)
    BY <1>1, <1>2
  <2> HIDE DEF D
  <2>2. stage[i].stats.received \in Nat /\ stage[i].stats.processed \in Nat
    BY <2>1, StatsCount
  <2>3. QED
    BY <2>1, <2>2
<1>6. \A i \in Stages : stage[i].stats.received + Len(wire[i]) =
                          IF i = 1 THEN offered ELSE stage[i - 1].stats.processed
  BY DEF Linked
<1> HIDE DEF D
<1>7. CASE InitNodes
  <2>1. /\ UNCHANGED synchronous /\ offered' = 0 /\ wire' = None
        /\ \A i \in Stages : stage'[i] = InitStage(stage[i])
    BY <1>7 DEF InitNodes
  <2>2. \A i \in Stages : stage'[i].stats.received = 0 /\ stage'[i].stats.processed = 0
    <3>1. \A i \in Stages : stage'[i].stats = NoStats
      BY <2>1, NewStats DEF InitStage
    <3>2. QED
      BY <3>1 DEF NoStats
  <2>3. \A i \in Stages : Len(wire'[i]) = 0
    BY <2>1 DEF None
  <2>4. \A i \in Stages : stage'[i].stats.received + Len(wire'[i]) =
                            IF i = 1 THEN offered' ELSE stage'[i - 1].stats.processed
    <3> SUFFICES ASSUME NEW i \in Stages
                 PROVE  stage'[i].stats.received + Len(wire'[i]) =
                          IF i = 1 THEN offered' ELSE stage'[i - 1].stats.processed
      OBVIOUS
    <3>1. stage'[i].stats.received = 0 /\ Len(wire'[i]) = 0 /\ offered' = 0
      BY <2>1, <2>2, <2>3
    <3>2. i # 1 => stage'[i - 1].stats.processed = 0
      BY <1>3, <2>2
    <3>3. QED
      BY <3>1, <3>2
  <2>5. QED
    BY <1>4, <2>1, <2>4 DEF Linked
<1>8. ASSUME UNCHANGED synchronous,
             NEW E, NEW j \in Stages, NEW data \in E, StageInv(stage[j], E),
             stage' = [stage EXCEPT ![j] = Receive(stage[j], data)]
      PROVE  /\ stage'[j].stats.received = stage[j].stats.received + 1
             /\ \A i \in Stages : /\ i # j => stage'[i] = stage[i]
                                  /\ stage'[i].stats.processed = stage[i].stats.processed
  <2>1. stage'[j] = Receive(stage[j], data)
    BY <1>1, <1>8
  <2>2. Received(stage[j], stage'[j], data)
    <3>1. StageOK(stage[j], E)
      BY <1>8 DEF StageInv, Sound
    <3>2. Received(stage[j], Receive(stage[j], data), data)
      BY <1>8, <3>1, ReceiveEffect
    <3>3. QED
      BY <2>1, <3>2
  <2>3. /\ stage'[j].stats.received = stage[j].stats.received + 1
        /\ stage'[j].stats.processed = stage[j].stats.processed
    BY <2>2 DEF Received
  <2>4. \A i \in Stages : i # j => stage'[i] = stage[i]
    BY <1>1, <1>8
  <2>5. QED
    BY <2>3, <2>4
<1>9. CASE Offer
  <2> DEFINE E == 0..offered
  <2>1. /\ UNCHANGED <<synchronous, wire>> /\ offered' = offered + 1
        /\ stage' = [stage EXCEPT ![1] = Receive(stage[1], offered)]
    BY <1>9 DEF Offer
  <2>2. StageInv(stage[1], E) /\ offered \in E
    <3>1. D \subseteq E /\ offered \in E
      BY <1>1 DEF D
    <3>2. StageInv(stage[1], D)
      BY <1>2, <1>3
    <3> HIDE DEF E
    <3>3. QED
      BY <3>1, <3>2, StageMore
  <2> HIDE DEF E
  <2>3. /\ stage'[1].stats.received = stage[1].stats.received + 1
        /\ \A i \in Stages : /\ i # 1 => stage'[i] = stage[i]
                             /\ stage'[i].stats.processed = stage[i].stats.processed
    BY <1>3, <1>8, <2>1, <2>2
  <2>4. ASSUME NEW i \in Stages
        PROVE  stage'[i].stats.received + Len(wire'[i]) =
                 IF i = 1 THEN offered' ELSE stage'[i - 1].stats.processed
    BY <1>1, <1>3, <1>5, <1>6, <2>1, <2>3
  <2>5. QED
    BY <1>4, <2>1, <2>4 DEF Linked
<1>10. ASSUME NEW j \in Stages, Deliver(j)  PROVE Linked'
  <2>1. /\ UNCHANGED <<synchronous, offered>> /\ wire[j] # <<>>
        /\ stage' = [stage EXCEPT ![j] = Receive(stage[j], Head(wire[j]))]
        /\ wire' = [wire EXCEPT ![j] = Tail(wire[j])]
    BY <1>10 DEF Deliver
  <2>2. Head(wire[j]) \in D /\ Len(Tail(wire[j])) = Len(wire[j]) - 1
    BY <1>1, <2>1
  <2>3. /\ stage'[j].stats.received = stage[j].stats.received + 1
        /\ \A i \in Stages : /\ i # j => stage'[i] = stage[i]
                             /\ stage'[i].stats.processed = stage[i].stats.processed
    BY <1>2, <1>8, <2>1, <2>2
  <2>4. \A i \in Stages : Len(wire'[i]) = IF i = j THEN Len(wire[i]) - 1 ELSE Len(wire[i])
    BY <1>1, <2>1, <2>2
  <2>5. ASSUME NEW i \in Stages
        PROVE  stage'[i].stats.received + Len(wire'[i]) =
                 IF i = 1 THEN offered' ELSE stage'[i - 1].stats.processed
    <3>1. stage'[i].stats.received + Len(wire'[i]) = stage[i].stats.received + Len(wire[i])
      <4>1. CASE i = j
        <5>1. \A a, b \in Nat : (a + 1) + (b - 1) = a + b
          OBVIOUS
        <5>2. /\ stage'[i].stats.received = stage[i].stats.received + 1
              /\ Len(wire'[i]) = Len(wire[i]) - 1
          BY <2>3, <2>4, <4>1
        <5>3. QED
          BY <1>5, <5>1, <5>2
      <4>2. CASE i # j
        BY <2>3, <2>4, <4>2
      <4>3. QED
        BY <4>1, <4>2
    <3>2. QED
      BY <1>3, <1>6, <2>1, <2>3, <3>1
  <2>6. QED
    BY <1>4, <2>1, <2>5 DEF Linked
<1>11. ASSUME NEW j \in Stages, NEW ready \in BOOLEAN, Signal(j, ready)  PROVE Linked'
  <2>1. /\ UNCHANGED <<synchronous, offered, wire>>
        /\ stage' = [stage EXCEPT ![j] = SignalReady(stage[j], ready)]
    BY <1>11 DEF Signal
  <2>2. SignalReady(stage[j], ready).stats = stage[j].stats
    BY <1>2, SignalEffect
  <2>3. \A i \in Stages : stage'[i].stats = stage[i].stats
    BY <1>1, <2>1, <2>2
  <2>4. ASSUME NEW i \in Stages
        PROVE  stage'[i].stats.received + Len(wire'[i]) =
                 IF i = 1 THEN offered' ELSE stage'[i - 1].stats.processed
    BY <1>3, <1>6, <2>1, <2>3
  <2>5. QED
    BY <1>4, <2>1, <2>4 DEF Linked
<1>12. CASE TickAll
  <2>1. /\ UNCHANGED <<synchronous, offered>>
        /\ \A i \in Stages : stage'[i] = OnTick(stage[i]).stage
        /\ \A i \in Stages :
             wire'[i] = IF i = 1 THEN <<>>
                        ELSE wire[i] \o Output(stage[i - 1], OnTick(stage[i - 1]).left)
    BY <1>12, <1>3 DEF TickAll
  <2>2. ASSUME NEW i \in Stages
        PROVE  /\ stage'[i].stats.received = stage[i].stats.received
               /\ stage'[i].stats.processed =
                    stage[i].stats.processed + Len(OnTick(stage[i]).left)
    <3>1. stage'[i].stats.received = stage[i].stats.received
      BY <2>1, ChainTicked DEF Ticked
    <3>2. QED
      BY <1>2, <2>1, <3>1, NumberedTick
  <2>3. ASSUME NEW i \in Stages, i # 1
        PROVE  Len(wire'[i]) = Len(wire[i]) + Len(OnTick(stage[i - 1]).left)
    <3> DEFINE l == OnTick(stage[i - 1]).left
    <3>1. i - 1 \in Stages /\ i - 1 < FinalStage
      BY <1>3, <2>3 DEF Stages
    <3>2. stage[i - 1].has_next
      BY <1>2, <3>1
    <3>3. l \in Seq(Item(D))
      BY <3>1, ChainTicked DEF D
    <3> HIDE DEF l
    <3>4. DataOf(l) \in Seq(D) /\ Len(DataOf(l)) = Len(l)
      BY <3>3, DataOfType
    <3>5. wire'[i] = wire[i] \o DataOf(l)
      BY <2>1, <2>3, <3>2 DEF Output, l
    <3>6. Len(wire'[i]) = Len(wire[i]) + Len(l)
      <4>1. wire[i] \in Seq(D)
        BY <1>1
      <4>2. Len(wire[i] \o DataOf(l)) = Len(wire[i]) + Len(DataOf(l))
        BY <3>4, <4>1, ConcatProperties
      <4>3. QED
        BY <3>4, <3>5, <4>2
    <3>7. QED
      BY <3>6 DEF l
  <2>4. ASSUME NEW i \in Stages
        PROVE  stage'[i].stats.received + Len(wire'[i]) =
                 IF i = 1 THEN offered' ELSE stage'[i - 1].stats.processed
    <3>1. CASE i = 1
      BY <1>1, <1>3, <1>6, <2>1, <2>2, <3>1
    <3>2. CASE i # 1
      <4> DEFINE n == Len(OnTick(stage[i - 1]).left)
      <4>1. i - 1 \in Stages /\ n \in Nat
        BY <1>3, <3>2, ChainTicked
      <4>2. /\ stage'[i].stats.received = stage[i].stats.received
            /\ Len(wire'[i]) = Len(wire[i]) + n
            /\ stage'[i - 1].stats.processed = stage[i - 1].stats.processed + n
        BY <2>2, <2>3, <3>2, <4>1
      <4> HIDE DEF n
      <4>3. QED
        BY <1>5, <1>6, <3>2, <4>1, <4>2
    <3>3. QED
      BY <3>1, <3>2
  <2>5. QED
    BY <1>4, <2>1, <2>4 DEF Linked
<1>13. CASE UNCHANGED vars
  BY <1>4, <1>13 DEF vars, Linked
<1>14. QED
  BY <1>7, <1>9, <1>10, <1>11, <1>12, <1>13 DEF Next

\* The items are in the order in which they were offered.
InOrder ==
  /\ Ascending(done)
  /\ \A i \in Stages :
       /\ Ascending(Line(i)) /\ Older(done, Line(i))
       /\ \A j \in Stages : i < j => Older(Line(j), Line(i))

\* What is in and before a stage are items that were offered.
LEMMA LineType ==
  ASSUME Wired, NEW i \in Stages
  PROVE  LET D == 0..(offered - 1)
         IN  /\ DataOf(Contents(stage[i])) \in Seq(D) /\ wire[i] \in Seq(D)
             /\ Line(i) \in Seq(D)
<1> DEFINE D == 0..(offered - 1)
<1>1. Sound(stage[i], D) /\ wire[i] \in Seq(D)
  BY DEF Wired, StageInv
<1> HIDE DEF D
<1>2. Contents(stage[i]) \in Seq(Item(D))
  BY <1>1, SoundType, ContentsShape
<1>3. DataOf(Contents(stage[i])) \in Seq(D)
  BY <1>2, DataOfType
<1>4. Line(i) \in Seq(D)
  BY <1>1, <1>3 DEF Line
<1>5. QED
  BY <1>1, <1>3, <1>4 DEF D

\* A sequence over a set is one over any larger set.
LEMMA SeqOfMore ==
  ASSUME NEW D, NEW E, D \subseteq E, NEW s \in Seq(D)
  PROVE  s \in Seq(E)
OBVIOUS

\* Nothing is older than, and not older than, nothing.
LEMMA EmptyOrder ==
  ASSUME NEW s
  PROVE  Ascending(<<>>) /\ Older(<<>>, s) /\ Older(s, <<>>)
BY DEF Ascending, Older

\* One item is in order.
LEMMA SingleOrder == \A x \in Nat : Ascending(<<x>>)
BY DEF Ascending

\* A delivery puts the first item of the wire at the end of the contents or drops it.
LEMMA DeliveredOrder ==
  ASSUME NEW D \in SUBSET Nat, NEW c \in Seq(D), NEW w \in Seq(D), w # <<>>,
         NEW l, l = c \o Tail(w) \/ l = (c \o <<Head(w)>>) \o Tail(w)
  PROVE  /\ l \in Seq(D)
         /\ Ascending(c \o w) => Ascending(l)
         /\ \A x \in Seq(D) : /\ Older(x, c \o w) => Older(x, l)
                              /\ Older(c \o w, x) => Older(l, x)
<1> DEFINE h == <<Head(w)>>
           r == Tail(w)
<1>1. h \in Seq(D) /\ r \in Seq(D) /\ w = h \o r
  OBVIOUS
<1> HIDE DEF h, r
<1>2. c \o h \in Seq(D) /\ l \in {c \o r, (c \o h) \o r}
  BY <1>1 DEF h, r
<1>3. l \in Seq(D)
  <2>1. c \o r \in Seq(D)
    BY <1>1
  <2>2. (c \o h) \o r \in Seq(D)
    BY <1>1, <1>2
  <2>3. QED
    BY <1>2, <2>1, <2>2
<1>4. Ascending(c \o w) => Ascending(l)
  <2>1. Ascending(c \o w) => /\ Ascending(c) /\ Ascending(h) /\ Ascending(r)
                             /\ Older(c, h) /\ Older(c, r) /\ Older(h, r)
    <3>1. Ascending(c \o w) => Ascending(c) /\ Ascending(w) /\ Older(c, w)
      BY AscendingConcat
    <3>2. Ascending(w) => Ascending(h) /\ Ascending(r) /\ Older(h, r)
      BY <1>1, AscendingConcat
    <3>3. Older(c, w) => Older(c, h) /\ Older(c, r)
      BY <1>1, OlderConcat
    <3>4. QED
      BY <3>1, <3>2, <3>3
  <2>2. Ascending(c) /\ Ascending(r) /\ Older(c, r) => Ascending(c \o r)
    BY <1>1, AscendingConcat
  <2>3. Ascending(c) /\ Ascending(h) /\ Older(c, h) => Ascending(c \o h)
    BY <1>1, AscendingConcat
  <2>4. Older(c, r) /\ Older(h, r) => Older(c \o h, r)
    BY <1>1, OlderConcat
  <2>5. Ascending(c \o h) /\ Ascending(r) /\ Older(c \o h, r) => Ascending((c \o h) \o r)
    BY <1>1, <1>2, AscendingConcat
  <2>6. QED
    BY <1>2, <2>1, <2>2, <2>3, <2>4, <2>5
<1>5. ASSUME NEW x \in Seq(D)
      PROVE  /\ Older(x, c \o w) => Older(x, l)
             /\ Older(c \o w, x) => Older(l, x)
  <2>1. /\ Older(x, c \o w) <=> Older(x, c) /\ Older(x, w)
        /\ Older(c \o w, x) <=> Older(c, x) /\ Older(w, x)
    BY OlderConcat
  <2>2. /\ Older(x, w) <=> Older(x, h) /\ Older(x, r)
        /\ Older(w, x) <=> Older(h, x) /\ Older(r, x)
    BY <1>1, OlderConcat
  <2>3. /\ Older(x, c \o r) <=> Older(x, c) /\ Older(x, r)
        /\ Older(c \o r, x) <=> Older(c, x) /\ Older(r, x)
    BY <1>1, OlderConcat
  <2>4. /\ Older(x, c \o h) <=> Older(x, c) /\ Older(x, h)
        /\ Older(c \o h, x) <=> Older(c, x) /\ Older(h, x)
    BY <1>1, OlderConcat
  <2>5. /\ Older(x, (c \o h) \o r) <=> Older(x, c \o h) /\ Older(x, r)
        /\ Older((c \o h) \o r, x) <=> Older(c \o h, x) /\ Older(r, x)
    <3> DEFINE ch == c \o h
    <3>1. ch \in Seq(D)
      BY <1>2
    <3> HIDE DEF ch
    <3>2. /\ Older(x, ch \o r) <=> Older(x, ch) /\ Older(x, r)
          /\ Older(ch \o r, x) <=> Older(ch, x) /\ Older(r, x)
      BY <1>1, <3>1, OlderConcat
    <3>3. QED
      BY <3>2 DEF ch
  <2>6. QED
    BY <1>2, <2>1, <2>2, <2>3, <2>4, <2>5
<1>6. QED
  BY <1>3, <1>4, <1>5

\* A tick moves what leaves each stage to the end of what is on its way to the next:
\* l, r and w are what leaves, what stays and the wire before the tick.
TickedLine(l, r, w, i) == IF i = 1 THEN r[i] \o <<>> ELSE r[i] \o (w[i] \o l[i - 1])

\* When every stage hands what left it to the next one's wire, the line stays in order.
LEMMA TickedOrder ==
  ASSUME NEW D \in SUBSET Nat, NEW F \in Nat, F >= 1,
         NEW l \in [1..F -> Seq(D)], NEW r \in [1..F -> Seq(D)], NEW w \in [1..F -> Seq(D)],
         NEW d \in Seq(D), Ascending(d),
         \A i \in 1..F : /\ Ascending((l[i] \o r[i]) \o w[i])
                         /\ Older(d, (l[i] \o r[i]) \o w[i])
                         /\ \A j \in 1..F : i < j =>
                              Older((l[j] \o r[j]) \o w[j], (l[i] \o r[i]) \o w[i])
  PROVE  /\ Ascending(d \o l[F])
         /\ \A i \in 1..F :
              /\ Ascending(TickedLine(l, r, w, i))
              /\ Older(d \o l[F], TickedLine(l, r, w, i))
              /\ \A j \in 1..F : i < j =>
                   Older(TickedLine(l, r, w, j), TickedLine(l, r, w, i))
<1>a. \A a, b, c \in Seq(D) : /\ Older(a \o b, c) <=> Older(a, c) /\ Older(b, c)
                              /\ Older(c, a \o b) <=> Older(c, a) /\ Older(c, b)
  BY OlderConcat
<1>1. \A i \in 1..F : l[i] \in Seq(D) /\ r[i] \in Seq(D) /\ w[i] \in Seq(D)
                       /\ l[i] \o r[i] \in Seq(D) /\ (l[i] \o r[i]) \o w[i] \in Seq(D)
  OBVIOUS
<1>2. \A i \in 1..F : i # 1 => i - 1 \in 1..F
  OBVIOUS
<1>3. ASSUME NEW x \in Seq(D), NEW i \in 1..F
      PROVE  /\ Older(x, (l[i] \o r[i]) \o w[i]) =>
                  Older(x, l[i]) /\ Older(x, r[i]) /\ Older(x, w[i])
             /\ Older((l[i] \o r[i]) \o w[i], x) =>
                  Older(l[i], x) /\ Older(r[i], x) /\ Older(w[i], x)
  <2>1. /\ Older(x, (l[i] \o r[i]) \o w[i]) <=> Older(x, l[i] \o r[i]) /\ Older(x, w[i])
        /\ Older((l[i] \o r[i]) \o w[i], x) <=> Older(l[i] \o r[i], x) /\ Older(w[i], x)
    <3>1. l[i] \o r[i] \in Seq(D) /\ w[i] \in Seq(D)
      BY <1>1
    <3>2. QED
      BY <3>1, <1>a
  <2>2. /\ Older(x, l[i] \o r[i]) <=> Older(x, l[i]) /\ Older(x, r[i])
        /\ Older(l[i] \o r[i], x) <=> Older(l[i], x) /\ Older(r[i], x)
    BY <1>1, <1>a
  <2>3. QED
    BY <2>1, <2>2
<1>4. ASSUME NEW i \in 1..F
      PROVE  /\ Ascending(l[i]) /\ Ascending(r[i]) /\ Ascending(w[i])
             /\ Older(l[i], r[i]) /\ Older(l[i], w[i]) /\ Older(r[i], w[i])
             /\ Older(d, l[i]) /\ Older(d, r[i]) /\ Older(d, w[i])
  <2>1. Ascending(l[i] \o r[i]) /\ Ascending(w[i]) /\ Older(l[i] \o r[i], w[i])
    BY <1>1, AscendingConcat
  <2>2. Ascending(l[i]) /\ Ascending(r[i]) /\ Older(l[i], r[i])
    BY <1>1, <2>1, AscendingConcat
  <2>3. Older(l[i], w[i]) /\ Older(r[i], w[i])
    BY <1>1, <2>1, <1>a
  <2>4. QED
    BY <1>3, <2>1, <2>2, <2>3
<1>5. ASSUME NEW i \in 1..F, NEW j \in 1..F, i < j
      PROVE  /\ Older(l[j], l[i]) /\ Older(l[j], r[i]) /\ Older(l[j], w[i])
             /\ Older(r[j], l[i]) /\ Older(r[j], r[i]) /\ Older(r[j], w[i])
             /\ Older(w[j], l[i]) /\ Older(w[j], r[i]) /\ Older(w[j], w[i])
  <2>1. Older((l[j] \o r[j]) \o w[j], (l[i] \o r[i]) \o w[i])
    BY <1>5
  <2>2. /\ Older(l[j], (l[i] \o r[i]) \o w[i]) /\ Older(r[j], (l[i] \o r[i]) \o w[i])
        /\ Older(w[j], (l[i] \o r[i]) \o w[i])
    BY <1>1, <1>3, <2>1
  <2>3. QED
    BY <1>1, <1>3, <2>2
<1>6. ASSUME NEW i \in 1..F
      PROVE  /\ TickedLine(l, r, w, i) \in Seq(D)
             /\ i = 1 => TickedLine(l, r, w, i) = r[i]
             /\ i # 1 => /\ TickedLine(l, r, w, i) = r[i] \o (w[i] \o l[i - 1])
                         /\ l[i - 1] \in Seq(D) /\ w[i] \o l[i - 1] \in Seq(D)
  <2>1. r[i] \o <<>> = r[i]
    BY <1>1
  <2>2. i # 1 => l[i - 1] \in Seq(D) /\ w[i] \o l[i - 1] \in Seq(D)
                 /\ r[i] \o (w[i] \o l[i - 1]) \in Seq(D)
    BY <1>1, <1>2
  <2>3. QED
    BY <1>1, <2>1, <2>2 DEF TickedLine
<1>7. ASSUME NEW x \in Seq(D), NEW i \in 1..F
      PROVE  /\ Older(x, r[i]) /\ (i # 1 => Older(x, w[i]) /\ Older(x, l[i - 1])) =>
                  Older(x, TickedLine(l, r, w, i))
             /\ Older(r[i], x) /\ (i # 1 => Older(w[i], x) /\ Older(l[i - 1], x)) =>
                  Older(TickedLine(l, r, w, i), x)
  <2>1. CASE i = 1
    BY <1>6, <2>1
  <2>2. CASE i # 1
    <3> DEFINE u == w[i]
               v == l[i - 1]
               q == r[i]
    <3>1. /\ u \in Seq(D) /\ v \in Seq(D) /\ q \in Seq(D) /\ u \o v \in Seq(D)
          /\ TickedLine(l, r, w, i) = q \o (u \o v)
      BY <1>1, <1>6, <2>2
    <3> HIDE DEF u, v, q
    <3>2. /\ Older(x, u \o v) <=> Older(x, u) /\ Older(x, v)
          /\ Older(u \o v, x) <=> Older(u, x) /\ Older(v, x)
      BY <1>a, <3>1
    <3>3. /\ Older(x, q \o (u \o v)) <=> Older(x, q) /\ Older(x, u \o v)
          /\ Older(q \o (u \o v), x) <=> Older(q, x) /\ Older(u \o v, x)
      <4> DEFINE z == u \o v
      <4>1. z \in Seq(D)
        BY <3>1
      <4> HIDE DEF z
      <4>2. Older(x, q \o z) <=> Older(x, q) /\ Older(x, z)
        BY <1>a, <3>1, <4>1
      <4>3. Older(q \o z, x) <=> Older(q, x) /\ Older(z, x)
        BY <1>a, <3>1, <4>1
      <4>4. QED
        BY <4>2, <4>3 DEF z
    <3>4. /\ Older(x, q) /\ Older(x, u) /\ Older(x, v) => Older(x, TickedLine(l, r, w, i))
          /\ Older(q, x) /\ Older(u, x) /\ Older(v, x) => Older(TickedLine(l, r, w, i), x)
      BY <3>1, <3>2, <3>3
    <3>5. QED
      BY <2>2, <3>4 DEF u, v, q
  <2>3. QED
    BY <2>1, <2>2
<1>8. F \in 1..F /\ l[F] \in Seq(D)
  BY <1>1
<1>9. Ascending(d \o l[F])
  BY <1>4, <1>8, AscendingConcat
<1>10. ASSUME NEW i \in 1..F
       PROVE  Ascending(TickedLine(l, r, w, i)) /\ Older(d \o l[F], TickedLine(l, r, w, i))
  <2>1. CASE i = 1
    <3>1. Older(d, r[i]) /\ Older(l[F], r[i])
      BY <1>4, <1>5, <1>8, <2>1
    <3>2. r[i] \in Seq(D) /\ Ascending(r[i])
      BY <1>1, <1>4
    <3>3. Older(d \o l[F], r[i])
      BY <1>8, <3>1, <3>2, <1>a
    <3>4. QED
      BY <1>6, <2>1, <3>2, <3>3
  <2>2. CASE i # 1
    <3>1. /\ i - 1 \in 1..F /\ i - 1 < i /\ l[i - 1] \in Seq(D)
      BY <1>1, <1>2, <2>2
    <3>2. Older(w[i], l[i - 1]) /\ Older(r[i], l[i - 1])
      BY <1>5, <3>1
    <3>3. Ascending(w[i] \o l[i - 1])
      BY <1>1, <1>4, <3>1, <3>2, AscendingConcat
    <3>4. Older(r[i], w[i] \o l[i - 1])
      <4>1. r[i] \in Seq(D) /\ w[i] \in Seq(D) /\ Older(r[i], w[i])
        BY <1>1, <1>4
      <4>2. QED
        BY <3>1, <3>2, <4>1, <1>a
    <3>5. Ascending(r[i] \o (w[i] \o l[i - 1]))
      BY <1>1, <1>4, <1>6, <2>2, <3>3, <3>4, AscendingConcat
    <3>6. Older(d, TickedLine(l, r, w, i))
      BY <1>4, <1>7, <3>1
    <3>7. Older(l[F], r[i]) /\ Older(l[F], w[i]) /\ Older(l[F], l[i - 1])
      <4>1. i - 1 < F
        BY <1>8, <2>2
      <4>2. Older(l[F], l[i - 1])
        BY <1>5, <1>8, <3>1, <4>1
      <4>3. i = F => Older(l[F], r[i]) /\ Older(l[F], w[i])
        BY <1>4
      <4>4. i < F => Older(l[F], r[i]) /\ Older(l[F], w[i])
        BY <1>5, <1>8
      <4>5. i = F \/ i < F
        OBVIOUS
      <4>6. QED
        BY <4>2, <4>3, <4>4, <4>5
    <3>8. Older(l[F], TickedLine(l, r, w, i))
      BY <1>7, <1>8, <3>7
    <3>9. Older(d \o l[F], TickedLine(l, r, w, i))
      <4>1. TickedLine(l, r, w, i) \in Seq(D)
        BY <1>6
      <4>2. QED
        BY <1>8, <3>6, <3>8, <4>1, <1>a
    <3>10. QED
      BY <1>6, <2>2, <3>5, <3>9
  <2>3. QED
    BY <2>1, <2>2
<1>11. ASSUME NEW i \in 1..F, NEW j \in 1..F, i < j
       PROVE  Older(TickedLine(l, r, w, j), TickedLine(l, r, w, i))
  <2>1. /\ j # 1 /\ j - 1 \in 1..F /\ l[j - 1] \in Seq(D)
        /\ i = j - 1 \/ i < j - 1
    BY <1>1, <1>2, <1>11
  <2>2. Older(r[j], TickedLine(l, r, w, i)) /\ Older(w[j], TickedLine(l, r, w, i))
    <3>1. i # 1 => Older(r[j], l[i - 1]) /\ Older(w[j], l[i - 1])
      <4>1. i # 1 => i - 1 \in 1..F /\ i - 1 < j
        BY <1>2, <1>11
      <4>2. QED
        BY <1>5, <4>1
    <3>2. QED
      BY <1>1, <1>5, <1>7, <1>11, <3>1
  <2>3. Older(l[j - 1], TickedLine(l, r, w, i))
    <3>1. Older(l[j - 1], r[i]) /\ Older(l[j - 1], w[i])
      BY <1>4, <1>5, <2>1
    <3>2. i # 1 => Older(l[j - 1], l[i - 1])
      <4>1. i # 1 => i - 1 \in 1..F /\ i - 1 < j - 1
        BY <1>2, <1>11
      <4>2. QED
        BY <1>5, <2>1, <4>1
    <3>3. QED
      BY <1>7, <2>1, <3>1, <3>2
  <2>4. QED
    BY <1>6, <1>7, <2>1, <2>2, <2>3
<1>12. QED
  BY <1>9, <1>10, <1>11

\* What is between the stages in the next state.
NextLine(i) == DataOf(Contents(stage'[i])) \o wire'[i]

\* Every step keeps the items in the order in which they were offered.
LEMMA InOrderStep == ChainAssumption /\ Wired /\ InOrder /\ [Next]_vars => InOrder'
<1> SUFFICES ASSUME ChainAssumption, Wired, InOrder, [Next]_vars  PROVE InOrder'
  OBVIOUS
<1> DEFINE D == 0..(offered - 1)
           C(i) == DataOf(Contents(stage[i]))
<1>1. /\ synchronous \in BOOLEAN /\ offered \in Nat /\ DOMAIN stage = Stages
      /\ wire \in [Stages -> Seq(D)] /\ wire[1] = <<>> /\ done \in Seq(D)
  BY DEF Wired
<1>2. \A i \in Stages : C(i) \in Seq(D) /\ wire[i] \in Seq(D) /\ Line(i) \in Seq(D)
                         /\ Line(i) = C(i) \o wire[i]
  BY LineType DEF Line
<1>3. \A i \in Stages : Sound(stage[i], D) /\ StageInv(stage[i], D)
                         /\ stage[i].has_next = (i < FinalStage)
  BY DEF Wired, StageInv
<1>4. /\ 1 \in Stages /\ Stages \subseteq Nat /\ \A i \in Stages : i # 1 => i - 1 \in Stages
      /\ FinalStage \in Nat /\ FinalStage >= 1 /\ FinalStage \in Stages
  BY <1>1, StagesType DEF Stages
<1>5. /\ Ascending(done)
      /\ \A i \in Stages :
           /\ Ascending(Line(i)) /\ Older(done, Line(i))
           /\ \A j \in Stages : i < j => Older(Line(j), Line(i))
  BY DEF InOrder
<1>6. D \in SUBSET Nat /\ \A x \in D : x < offered
  BY <1>1
<1>7. UNCHANGED synchronous => Stages' = Stages
  BY DEF FinalStage, Stages
<1>8. ASSUME UNCHANGED synchronous, Ascending(done'),
             \A i \in Stages :
               /\ Ascending(NextLine(i)) /\ Older(done', NextLine(i))
               /\ \A j \in Stages : i < j => Older(NextLine(j), NextLine(i))
      PROVE  InOrder'
  BY <1>7, <1>8 DEF InOrder, NextLine, Line
<1> HIDE DEF D, C
<1>9. CASE InitNodes
  <2>1. /\ UNCHANGED synchronous /\ done' = <<>> /\ wire' = None
        /\ \A i \in Stages : stage'[i] = InitStage(stage[i])
    BY <1>9 DEF InitNodes
  <2>2. ASSUME NEW i \in Stages  PROVE NextLine(i) = <<>>
    <3>1. Contents(stage'[i]) = <<>>
      <4>1. stage'[i].current_item = <<>> /\ stage'[i].input_queue = <<>>
        BY <2>1, NewIsEmpty DEF InitStage
      <4>2. QED
        BY <4>1 DEF Contents
    <3>2. wire'[i] = <<>>
      BY <2>1 DEF None
    <3>3. QED
      BY <3>1, <3>2 DEF NextLine, DataOf
  <2>3. QED
    BY <1>8, <2>1, <2>2, EmptyOrder
<1>10. CASE Offer
  <2> DEFINE E == 0..offered
  <2>1. /\ UNCHANGED <<synchronous, wire, done>>
        /\ stage' = [stage EXCEPT ![1] = Receive(stage[1], offered)]
    BY <1>10 DEF Offer
  <2>2. E \in SUBSET Nat /\ D \subseteq E /\ offered \in E /\ offered \in Nat
    BY <1>1 DEF D
  <2> HIDE DEF E
  <2>3. ASSUME NEW s \in Seq(D)  PROVE s \in Seq(E) /\ Older(s, <<offered>>)
    <3>1. s \in Seq(E)
      BY <2>2, SeqOfMore
    <3>2. \A k \in DOMAIN s : s[k] < offered
      <4>1. \A k \in DOMAIN s : s[k] \in D
        OBVIOUS
      <4>2. QED
        BY <1>6, <4>1
    <3>3. QED
      BY <3>1, <3>2 DEF Older
  <2>4. /\ \A i \in Stages : i # 1 => NextLine(i) = Line(i)
        /\ NextLine(1) \in {Line(1), Line(1) \o <<offered>>}
    <3>1. \A i \in Stages : i # 1 => NextLine(i) = Line(i)
      BY <1>1, <2>1 DEF NextLine, Line
    <3>2. stage'[1] = Receive(stage[1], offered)
      BY <1>1, <1>4, <2>1
    <3>3. Sound(stage[1], E)
      <4>1. StageInv(stage[1], D)
        BY <1>3, <1>4
      <4>2. StageInv(stage[1], E)
        BY <2>2, <4>1, StageMore
      <4>3. QED
        BY <4>2 DEF StageInv
    <3>4. DataOf(Contents(stage'[1])) \in {C(1), C(1) \o <<offered>>}
      BY <2>2, <3>2, <3>3, ReceivedData DEF C
    <3>5. C(1) \in Seq(E) /\ C(1) \o <<>> = C(1)
          /\ (C(1) \o <<offered>>) \o <<>> = C(1) \o <<offered>>
      <4>1. C(1) \in Seq(E)
        BY <1>2, <1>4, <2>3
      <4>2. <<offered>> \in Seq(E)
        BY <2>2
      <4>3. C(1) \o <<offered>> \in Seq(E)
        BY <4>1, <4>2
      <4>4. QED
        BY <4>1, <4>3
    <3>6. Line(1) = C(1) /\ NextLine(1) = DataOf(Contents(stage'[1])) \o <<>>
      BY <1>1, <1>2, <1>4, <2>1, <3>5 DEF NextLine
    <3>7. NextLine(1) \in {Line(1), Line(1) \o <<offered>>}
      BY <3>4, <3>5, <3>6
    <3>8. QED
      BY <3>1, <3>7
  <2>5. /\ <<offered>> \in Seq(E) /\ Ascending(<<offered>>)
        /\ \A i \in Stages : Line(i) \in Seq(E) /\ Older(Line(i), <<offered>>)
        /\ done \in Seq(E) /\ Older(done, <<offered>>)
    <3>1. <<offered>> \in Seq(E)
      BY <2>2
    <3>2. Ascending(<<offered>>)
      BY <2>2, SingleOrder
    <3>3. QED
      BY <1>1, <1>2, <2>3, <3>1, <3>2
  <2>6. /\ Ascending(Line(1) \o <<offered>>)
        /\ Older(done, Line(1) \o <<offered>>)
        /\ \A j \in Stages : 1 < j => Older(Line(j), Line(1) \o <<offered>>)
    <3>1. Ascending(Line(1) \o <<offered>>)
      BY <1>4, <1>5, <2>2, <2>5, AscendingConcat
    <3>2. Older(done, Line(1) \o <<offered>>)
      BY <1>4, <1>5, <2>2, <2>5, OlderConcat
    <3>3. ASSUME NEW j \in Stages, 1 < j  PROVE Older(Line(j), Line(1) \o <<offered>>)
      <4>1. Older(Line(j), Line(1)) /\ Line(j) \in Seq(E) /\ Line(1) \in Seq(E)
            /\ Older(Line(j), <<offered>>)
        BY <1>4, <1>5, <2>5, <3>3
      <4>2. QED
        BY <2>2, <2>5, <4>1, OlderConcat
    <3>4. QED
      BY <3>1, <3>2, <3>3
  <2>7. \A i \in Stages : i >= 1
    BY DEF Stages
  <2>8. \A i, j \in Stages : i < j => j # 1
    BY <1>4, <2>7
  <2>9. ASSUME NEW i \in Stages
        PROVE  /\ Ascending(NextLine(i)) /\ Older(done', NextLine(i))
               /\ \A j \in Stages : i < j => Older(NextLine(j), NextLine(i))
    <3>1. CASE i = 1
      BY <1>5, <2>1, <2>4, <2>6, <2>8, <3>1
    <3>2. CASE i # 1
      BY <1>5, <2>1, <2>4, <2>8, <3>2
    <3>3. QED
      BY <3>1, <3>2
  <2>10. QED
    BY <1>5, <1>8, <2>1, <2>9
<1>11. ASSUME NEW j \in Stages, Deliver(j)  PROVE InOrder'
  <2>1. /\ UNCHANGED <<synchronous, done>> /\ wire[j] # <<>>
        /\ stage' = [stage EXCEPT ![j] = Receive(stage[j], Head(wire[j]))]
        /\ wire' = [wire EXCEPT ![j] = Tail(wire[j])]
    BY <1>11 DEF Deliver
  <2>2. /\ stage'[j] = Receive(stage[j], Head(wire[j])) /\ wire'[j] = Tail(wire[j])
        /\ \A i \in Stages : i # j => NextLine(i) = Line(i)
    BY <1>1, <2>1 DEF NextLine, Line
  <2>3. NextLine(j) \in {C(j) \o Tail(wire[j]), (C(j) \o <<Head(wire[j])>>) \o Tail(wire[j])}
    <3>1. Head(wire[j]) \in D
      BY <1>2, <2>1
    <3>2. DataOf(Contents(stage'[j])) \in {C(j), C(j) \o <<Head(wire[j])>>}
      BY <1>3, <2>2, <3>1, ReceivedData DEF C
    <3>3. QED
      BY <2>2, <3>2 DEF NextLine
  <2>4. /\ NextLine(j) \in Seq(D) /\ Ascending(NextLine(j))
        /\ \A x \in Seq(D) : /\ Older(x, Line(j)) => Older(x, NextLine(j))
                             /\ Older(Line(j), x) => Older(NextLine(j), x)
    <3> DEFINE l == NextLine(j)
               c == C(j)
               w == wire[j]
    <3>1. /\ c \in Seq(D) /\ w \in Seq(D) /\ w # <<>> /\ Line(j) = c \o w
          /\ l = c \o Tail(w) \/ l = (c \o <<Head(w)>>) \o Tail(w)
      BY <1>2, <2>1, <2>3
    <3> HIDE DEF l, c, w
    <3>2. /\ l \in Seq(D)
          /\ Ascending(c \o w) => Ascending(l)
          /\ \A x \in Seq(D) : /\ Older(x, c \o w) => Older(x, l)
                               /\ Older(c \o w, x) => Older(l, x)
      <4>1. D \in SUBSET Nat
        BY <1>6
      <4>2. QED
        BY <3>1, <4>1, DeliveredOrder
    <3>3. QED
      BY <1>5, <3>1, <3>2 DEF l
  <2>5. ASSUME NEW i \in Stages
        PROVE  /\ Ascending(NextLine(i)) /\ Older(done', NextLine(i))
               /\ \A k \in Stages : i < k => Older(NextLine(k), NextLine(i))
    <3>1. Ascending(NextLine(i))
      BY <1>5, <2>2, <2>4
    <3>2. Older(done', NextLine(i))
      BY <1>1, <1>5, <2>1, <2>2, <2>4
    <3>3. ASSUME NEW k \in Stages, i < k  PROVE Older(NextLine(k), NextLine(i))
      <4>1. Older(Line(k), Line(i)) /\ i # k /\ Line(k) \in Seq(D) /\ Line(i) \in Seq(D)
        BY <1>2, <1>4, <1>5, <3>3
      <4>2. CASE i = j
        BY <2>2, <2>4, <4>1, <4>2
      <4>3. CASE k = j
        BY <2>2, <2>4, <4>1, <4>3
      <4>4. CASE i # j /\ k # j
        BY <2>2, <4>1, <4>4
      <4>5. QED
        BY <4>2, <4>3, <4>4
    <3>4. QED
      BY <3>1, <3>2, <3>3
  <2>6. QED
    BY <1>5, <1>8, <2>1, <2>5
<1>12. ASSUME NEW j \in Stages, NEW ready \in BOOLEAN, Signal(j, ready)  PROVE InOrder'
  <2>1. /\ UNCHANGED <<synchronous, wire, done>>
        /\ stage' = [stage EXCEPT ![j] = SignalReady(stage[j], ready)]
    BY <1>12 DEF Signal
  <2>2. Contents(SignalReady(stage[j], ready)) = Contents(stage[j])
    <3>1. StageOK(stage[j], D)
      BY <1>3 DEF Sound
    <3>2. /\ SignalReady(stage[j], ready).current_item = stage[j].current_item
          /\ SignalReady(stage[j], ready).input_queue = stage[j].input_queue
      BY <3>1, SignalEffect
    <3>3. QED
      BY <3>2 DEF Contents
  <2>3. \A i \in Stages : Contents(stage'[i]) = Contents(stage[i])
    BY <1>1, <2>1, <2>2
  <2>4. \A i \in Stages : NextLine(i) = Line(i)
    BY <2>1, <2>3 DEF NextLine, Line
  <2>5. QED
    BY <1>5, <1>8, <2>1, <2>4
<1>13. CASE TickAll
  <2> DEFINE F == FinalStage
             l == [i \in 1..F |-> DataOf(OnTick(stage[i]).left)]
             r == [i \in 1..F |-> DataOf(Contents(OnTick(stage[i]).stage))]
             w == [i \in 1..F |-> wire[i]]
  <2>1. /\ UNCHANGED synchronous
        /\ \A i \in Stages : stage'[i] = OnTick(stage[i]).stage
        /\ \A i \in Stages :
             wire'[i] = IF i = 1 THEN <<>>
                        ELSE wire[i] \o Output(stage[i - 1], OnTick(stage[i - 1]).left)
        /\ done' = done \o DataOf(OnTick(stage[FinalStage]).left)
    BY <1>4, <1>13 DEF TickAll
  <2>2. Stages = 1..F
    BY DEF Stages
  <2>3. ASSUME NEW i \in Stages
        PROVE  /\ l[i] \in Seq(D) /\ r[i] \in Seq(D) /\ w[i] \in Seq(D)
               /\ Line(i) = (l[i] \o r[i]) \o w[i]
    <3>1. OnTick(stage[i]).left \in Seq(Item(D))
      BY ChainTicked DEF D
    <3>2. DataOf(OnTick(stage[i]).left) \in Seq(D)
      BY <3>1, DataOfType
    <3>3. Sound(OnTick(stage[i]).stage, D)
      BY <1>3, SoundTick, UnlimitedAssumption
    <3>4. Contents(OnTick(stage[i]).stage) \in Seq(Item(D))
      BY <3>3, SoundType, ContentsShape
    <3>5. DataOf(Contents(OnTick(stage[i]).stage)) \in Seq(D)
      BY <3>4, DataOfType
    <3>6. C(i) = DataOf(OnTick(stage[i]).left) \o DataOf(Contents(OnTick(stage[i]).stage))
      BY <1>3, TickedData DEF C
    <3>7. /\ l[i] = DataOf(OnTick(stage[i]).left) /\ w[i] = wire[i]
          /\ r[i] = DataOf(Contents(OnTick(stage[i]).stage))
      BY <2>2
    <3>8. QED
      BY <1>2, <3>2, <3>5, <3>6, <3>7
  <2>4. /\ l \in [1..F -> Seq(D)] /\ r \in [1..F -> Seq(D)] /\ w \in [1..F -> Seq(D)]
    BY <2>2, <2>3
  <2>5. ASSUME NEW i \in Stages  PROVE NextLine(i) = TickedLine(l, r, w, i)
    <3>1. DataOf(Contents(stage'[i])) = r[i]
      BY <2>1, <2>2
    <3>2. CASE i = 1
      <4>1. wire'[i] = <<>>
        BY <2>1, <3>2
      <4> HIDE DEF l, r, w
      <4>2. QED
        BY <3>1, <3>2, <4>1 DEF NextLine, TickedLine
    <3>3. CASE i # 1
      <4>1. i - 1 \in Stages /\ i - 1 < FinalStage
        BY <1>4, <3>3 DEF Stages
      <4>2. stage[i - 1].has_next
        BY <1>3, <4>1
      <4>3. Output(stage[i - 1], OnTick(stage[i - 1]).left) = l[i - 1]
        BY <2>2, <4>1, <4>2 DEF Output
      <4>4. wire'[i] = w[i] \o l[i - 1]
        BY <2>1, <2>2, <3>3, <4>3
      <4> HIDE DEF l, r, w
      <4>5. QED
        BY <3>1, <3>3, <4>4 DEF NextLine, TickedLine
    <3>4. QED
      BY <3>2, <3>3
  <2>6. done' = done \o l[F]
    BY <1>4, <2>1, <2>2
  <2> HIDE DEF F, l, r, w
  <2>7. /\ F \in Nat /\ F >= 1
    BY <1>4 DEF F
  <2>8. \A i \in 1..F : /\ Ascending((l[i] \o r[i]) \o w[i])
                        /\ Older(done, (l[i] \o r[i]) \o w[i])
                        /\ \A j \in 1..F : i < j =>
                              Older((l[j] \o r[j]) \o w[j], (l[i] \o r[i]) \o w[i])
    BY <1>5, <2>2, <2>3
  <2>9. /\ Ascending(done \o l[F])
        /\ \A i \in 1..F :
              /\ Ascending(TickedLine(l, r, w, i))
              /\ Older(done \o l[F], TickedLine(l, r, w, i))
              /\ \A j \in 1..F : i < j =>
                   Older(TickedLine(l, r, w, j), TickedLine(l, r, w, i))
    BY <1>1, <1>5, <1>6, <2>4, <2>7, <2>8, TickedOrder
  <2>10. QED
    BY <1>8, <2>1, <2>2, <2>5, <2>6, <2>9
<1>14. CASE UNCHANGED vars
  <2>1. UNCHANGED <<synchronous, done>> /\ \A i \in Stages : NextLine(i) = Line(i)
    BY <1>14 DEF vars, NextLine, Line
  <2>2. QED
    BY <1>5, <1>8, <2>1
<1>15. QED
  BY <1>9, <1>10, <1>11, <1>12, <1>13, <1>14 DEF Next

\* An empty chain is in order.
LEMMA InOrderInit == ChainAssumption /\ Init => InOrder
<1> SUFFICES ASSUME ChainAssumption, Init  PROVE InOrder
  OBVIOUS
<1>1. done = <<>> /\ wire = None
  BY DEF Init
<1>2. ASSUME NEW i \in Stages  PROVE Line(i) = <<>>
  <2>1. stage[i].current_item = <<>> /\ stage[i].input_queue = <<>>
    <3>1. PICK latency \in [Stages -> Latencies], depth \in Depths :
            stage = [j \in Stages |-> NewStage(latency[j], depth, j < FinalStage)]
      BY DEF Init
    <3>2. QED
      BY <3>1 DEF NewStage
  <2>2. Contents(stage[i]) = <<>> /\ wire[i] = <<>>
    BY <1>1, <2>1 DEF Contents, None
  <2>3. QED
    BY <2>2 DEF Line, DataOf
<1>3. QED
  BY <1>1, <1>2, EmptyOrder DEF InOrder

\* Accounted: first in, first out, without loss, from the offers to what is done.
THEOREM ItemsAreAccounted == Spec => []Accounted
<1> USE ChainAssumption
<1> DEFINE Inv == Wired /\ Linked /\ InOrder
<1>1. Init => Inv
  BY WiredInit, LinkedInit, InOrderInit
<1>2. Inv /\ [Next]_vars => Inv'
  BY WiredStep, LinkedStep, InOrderStep
<1>3. Inv => Accounted
  <2> SUFFICES ASSUME Wired, Linked, InOrder  PROVE Accounted
    OBVIOUS
  <2>1. ASSUME NEW i \in Stages
        PROVE  LET s == stage[i] inside == Contents(s)
               IN  /\ s.item_counter = s.stats.received - s.stats.dropped
                   /\ s.item_counter = s.stats.processed + Len(inside)
                   /\ \A k \in DOMAIN inside : inside[k].id = s.stats.processed + k - 1
                   /\ s.stats.received + Len(wire[i]) =
                        IF i = 1 THEN offered ELSE stage[i - 1].stats.processed
    <3>1. Sound(stage[i], 0..(offered - 1)) /\ Numbered(stage[i])
      BY DEF Wired, StageInv
    <3>2. DOMAIN Contents(stage[i]) = 1..Len(Contents(stage[i]))
      BY <3>1, SoundType, ContentsShape
    <3>3. QED
      BY <3>1, <3>2 DEF Numbered, Linked
  <2>2. QED
    BY <2>1 DEF Accounted, InOrder
<1> HIDE DEF Inv
<1>4. QED
  BY <1>1, <1>2, <1>3, PTL DEF Spec

-------------------------------------------------------------------------------
(* BackpressureWorks: a synchronous driver. *)

\* Every set of natural numbers that has a member has a least one.
LEMMA Least ==
  ASSUME NEW S \in SUBSET Nat, S # {}
  PROVE  \E m \in S : \A n \in S : m <= n
<1> DEFINE R == OpToRel(<, Nat)
<1>1. IsWellFoundedOn(R, Nat)
  BY NatLessThanWellFounded
<1>2. \A x, y \in Nat : x < y => <<x, y>> \in R
  BY DEF R, OpToRel
<1> HIDE DEF R
<1>3. \E x \in S : \A y \in S : ~(<<y, x>> \in R)
  BY <1>1, WFMin, Zenon
<1>4. PICK x \in S : \A y \in S : ~(<<y, x>> \in R)
  BY <1>3
<1>5. \A y \in S : ~(y < x)
  BY <1>2, <1>4
<1>6. \A y \in S : x <= y
  BY <1>5
<1>7. QED
  BY <1>6

\* All stages are as deep, the second and later ones never drop, and at most one
\* item is on its way to each, which has room for it.
InStep ==
  synchronous =>
    /\ \A i, j \in Stages : stage[i].max_queue_depth = stage[j].max_queue_depth
    /\ \A i \in Stages : i # 1 =>
         /\ stage[i].stats.dropped = 0
         /\ Len(wire[i]) <= 1
         /\ wire[i] # <<>> => CanAccept(stage[i])

\* A synchronous chain starts in step.
LEMMA InStepInit == ChainAssumption /\ Init => InStep
<1> SUFFICES ASSUME Init  PROVE InStep
  OBVIOUS
<1>1. PICK latency \in [Stages -> Latencies], depth \in Depths :
        stage = [j \in Stages |-> NewStage(latency[j], depth, j < FinalStage)]
  BY DEF Init
<1>2. \A i \in Stages : /\ stage[i].max_queue_depth = depth
                        /\ stage[i].stats = NoStats
  BY <1>1 DEF NewStage
<1>3. \A i \in Stages : wire[i] = <<>>
  BY DEF Init, None
<1>4. QED
  BY <1>2, <1>3 DEF InStep, NoStats

\* Under the synchronous driver the signals stay in step with the queues.
LEMMA InStepStep == ChainAssumption /\ Wired /\ InStep /\ [Next]_vars => InStep'
<1> SUFFICES ASSUME ChainAssumption, Wired, InStep, [Next]_vars, synchronous'
             PROVE  InStep'
  BY DEF InStep
<1> DEFINE D == 0..(offered - 1)
<1>1. /\ offered \in Nat /\ DOMAIN stage = Stages
      /\ wire \in [Stages -> Seq(D)] /\ wire[1] = <<>>
  BY DEF Wired
<1>2. \A i \in Stages : Sound(stage[i], D) /\ StageInv(stage[i], D) /\ StageOK(stage[i], D)
                        /\ stage[i].has_next = (i < FinalStage)
  BY DEF Wired, StageInv, Sound
<1>3. UNCHANGED synchronous /\ Stages' = Stages /\ synchronous /\ synchronous \in BOOLEAN
  BY DEF Next, InitNodes, Offer, Deliver, Signal, TickAll, vars, FinalStage, Stages, Wired
<1>4. /\ 1 \in Stages /\ Stages \subseteq Nat /\ \A i \in Stages : i # 1 => i - 1 \in Stages
      /\ FinalStage \in Nat /\ \A i \in Stages : i >= 1 /\ i <= FinalStage
  BY <1>3, StagesType DEF Stages
<1>5. /\ \A i, j \in Stages : stage[i].max_queue_depth = stage[j].max_queue_depth
      /\ \A i \in Stages : i # 1 =>
           /\ stage[i].stats.dropped = 0
           /\ Len(wire[i]) <= 1
           /\ wire[i] # <<>> => CanAccept(stage[i])
  BY <1>3 DEF InStep
<1>6. ASSUME \A i \in Stages : stage'[i].max_queue_depth = stage[i].max_queue_depth,
             \A i \in Stages : i # 1 => /\ stage'[i].stats.dropped = 0
                                        /\ Len(wire'[i]) <= 1
                                        /\ wire'[i] # <<>> => CanAccept(stage'[i])
      PROVE  InStep'
  <2>1. \A i, j \in Stages' : stage'[i].max_queue_depth = stage'[j].max_queue_depth
    BY <1>3, <1>5, <1>6
  <2>2. ASSUME NEW i \in Stages', i # 1
        PROVE  /\ stage'[i].stats.dropped = 0
               /\ Len(wire'[i]) <= 1
               /\ wire'[i] # <<>> => CanAccept(stage'[i])
    <3>1. i \in Stages
      BY <1>3
    <3>2. QED
      BY <1>6, <2>2, <3>1
  <2>3. QED
    BY <2>1, <2>2 DEF InStep
<1>7. ASSUME NEW E, NEW j \in Stages, NEW data \in E, StageInv(stage[j], E),
             stage' = [stage EXCEPT ![j] = Receive(stage[j], data)]
      PROVE  /\ \A i \in Stages : /\ i # j => stage'[i] = stage[i]
                                  /\ stage'[i].max_queue_depth = stage[i].max_queue_depth
             /\ CanAccept(stage[j]) => stage'[j].stats.dropped = stage[j].stats.dropped
  <2>1. stage'[j] = Receive(stage[j], data) /\ \A i \in Stages : i # j => stage'[i] = stage[i]
    BY <1>1, <1>7
  <2>2. Received(stage[j], stage'[j], data)
    <3>1. StageOK(stage[j], E)
      BY <1>7 DEF StageInv, Sound
    <3>2. Received(stage[j], Receive(stage[j], data), data)
      BY <1>7, <3>1, ReceiveEffect
    <3>3. QED
      BY <2>1, <3>2
  <2>3. QED
    BY <2>1, <2>2 DEF Received
<1> HIDE DEF D
<1>8. CASE InitNodes
  <2>1. wire' = None /\ \A i \in Stages : stage'[i] = InitStage(stage[i])
    BY <1>8 DEF InitNodes
  <2>2. \A i \in Stages : stage'[i].stats = NoStats
    BY <2>1, NewStats DEF InitStage
  <2>3. \A i \in Stages : stage'[i].max_queue_depth = stage[i].max_queue_depth
    BY <2>1, NewDepth DEF InitStage
  <2>4. \A i \in Stages : wire'[i] = <<>> /\ Len(wire'[i]) <= 1
    BY <2>1 DEF None
  <2>5. \A i \in Stages : stage'[i].stats.dropped = 0
    BY <2>2 DEF NoStats
  <2>6. QED
    BY <1>6, <2>3, <2>4, <2>5
<1>9. CASE Offer
  <2> DEFINE E == 0..offered
  <2>1. /\ UNCHANGED wire /\ stage' = [stage EXCEPT ![1] = Receive(stage[1], offered)]
    BY <1>9 DEF Offer
  <2>2. StageInv(stage[1], E) /\ offered \in E
    <3>1. D \subseteq E /\ offered \in E
      BY <1>1 DEF D
    <3>2. StageInv(stage[1], D)
      BY <1>2, <1>4
    <3> HIDE DEF E
    <3>3. QED
      BY <3>1, <3>2, StageMore
  <2> HIDE DEF E
  <2>3. \A i \in Stages : /\ i # 1 => stage'[i] = stage[i]
                          /\ stage'[i].max_queue_depth = stage[i].max_queue_depth
    BY <1>4, <1>7, <2>1, <2>2
  <2>4. QED
    BY <1>5, <1>6, <2>1, <2>3
<1>10. ASSUME NEW j \in Stages, Deliver(j)  PROVE InStep'
  <2>1. /\ wire[j] # <<>> /\ wire' = [wire EXCEPT ![j] = Tail(wire[j])]
        /\ stage' = [stage EXCEPT ![j] = Receive(stage[j], Head(wire[j]))]
    BY <1>10 DEF Deliver
  <2>2. Head(wire[j]) \in D /\ j # 1
    BY <1>1, <2>1
  <2>3. Tail(wire[j]) = <<>>
    <3>1. wire[j] \in Seq(D) /\ Len(wire[j]) <= 1
      BY <1>1, <1>5, <2>2
    <3>2. QED
      BY <2>1, <3>1
  <2>4. /\ \A i \in Stages : /\ i # j => stage'[i] = stage[i]
                             /\ stage'[i].max_queue_depth = stage[i].max_queue_depth
        /\ CanAccept(stage[j]) => stage'[j].stats.dropped = stage[j].stats.dropped
    BY <1>2, <1>7, <2>1, <2>2
  <2>5. CanAccept(stage[j]) /\ stage[j].stats.dropped = 0
    BY <1>5, <2>1, <2>2
  <2>6. \A i \in Stages : wire'[i] = IF i = j THEN <<>> ELSE wire[i]
    BY <1>1, <2>1, <2>3
  <2>7. ASSUME NEW i \in Stages, i # 1
        PROVE  /\ stage'[i].stats.dropped = 0 /\ Len(wire'[i]) <= 1
               /\ wire'[i] # <<>> => CanAccept(stage'[i])
    <3>1. CASE i = j
      BY <2>4, <2>5, <2>6, <3>1
    <3>2. CASE i # j
      BY <1>5, <2>4, <2>6, <2>7, <3>2
    <3>3. QED
      BY <3>1, <3>2
  <2>8. QED
    BY <1>6, <2>4, <2>7
<1>11. ASSUME NEW j \in Stages, NEW ready \in BOOLEAN, Signal(j, ready)  PROVE InStep'
  <2> DEFINE t == SignalReady(stage[j], ready)
  <2>1. UNCHANGED wire /\ stage' = [stage EXCEPT ![j] = t]
    BY <1>11 DEF Signal
  <2>2. /\ t.max_queue_depth = stage[j].max_queue_depth
        /\ t.input_queue = stage[j].input_queue /\ t.stats = stage[j].stats
    BY <1>2, SignalEffect
  <2> HIDE DEF t
  <2>3. \A i \in Stages : /\ stage'[i].max_queue_depth = stage[i].max_queue_depth
                          /\ stage'[i].input_queue = stage[i].input_queue
                          /\ stage'[i].stats = stage[i].stats
    BY <1>1, <2>1, <2>2
  <2>4. \A i \in Stages : CanAccept(stage'[i]) <=> CanAccept(stage[i])
    BY <2>3 DEF CanAccept
  <2>5. QED
    BY <1>5, <1>6, <2>1, <2>3, <2>4
<1>12. CASE TickAll
  <2>1. /\ UpToDate
        /\ \A i \in Stages : stage'[i] = OnTick(stage[i]).stage
        /\ \A i \in Stages :
             wire'[i] = IF i = 1 THEN <<>>
                        ELSE wire[i] \o Output(stage[i - 1], OnTick(stage[i - 1]).left)
    BY <1>3, <1>4, <1>12 DEF TickAll
  <2>2. ASSUME NEW i \in Stages
        PROVE  /\ stage'[i].max_queue_depth = stage[i].max_queue_depth
               /\ stage'[i].stats.dropped = stage[i].stats.dropped
               /\ CanAccept(stage[i]) => CanAccept(stage'[i])
    <3>1. /\ stage'[i].max_queue_depth = stage[i].max_queue_depth
          /\ stage'[i].stats.dropped = stage[i].stats.dropped
      BY <2>1, ChainTicked DEF Ticked
    <3>2. Len(stage'[i].input_queue) <= Len(stage[i].input_queue)
      BY <2>1, ChainTicked, TickedContents
    <3>3. /\ Len(stage'[i].input_queue) \in Nat /\ Len(stage[i].input_queue) \in Nat
          /\ stage[i].max_queue_depth \in Nat \cup {Unlimited}
      <4>1. Sound(stage'[i], D)
        BY <1>2, <2>1, SoundTick, UnlimitedAssumption
      <4>2. QED
        BY <1>2, <4>1, SoundType
    <3>4. QED
      BY <3>1, <3>2, <3>3 DEF CanAccept
  <2>3. ASSUME NEW i \in Stages, i # 1
        PROVE  Len(wire'[i]) <= 1 /\ (wire'[i] # <<>> => CanAccept(stage'[i]))
    <3> DEFINE s == stage[i - 1]
               l == OnTick(s).left
    <3>1. i - 1 \in Stages /\ i - 1 \in 1..(FinalStage - 1) /\ i - 1 < FinalStage
          /\ (i - 1) + 1 = i
      BY <1>4, <2>3
    <3>2. /\ wire[i] = <<>> /\ s.downstream_ready = CanAccept(stage[i]) /\ s.has_next
      <4>1. wire[i] = <<>>
        BY <2>1 DEF UpToDate, None
      <4>2. stage[i - 1].downstream_ready = CanAccept(stage[(i - 1) + 1])
        BY <2>1, <3>1 DEF UpToDate
      <4>3. QED
        BY <1>2, <3>1, <4>1, <4>2
    <3>3. /\ l \in Seq(Item(D)) /\ Len(l) \in {0, 1}
          /\ Len(l) = 1 => MayLeave(s)
      <4>1. StageOK(s, D) /\ OnTick(s).stage \in Stage(D) /\ Ticked(s, OnTick(s).stage, l)
            /\ l \in Seq(Item(D)) /\ Len(l) \in {0, 1}
        BY <3>1, ChainTicked DEF D
      <4>2. Len(l) = 1 => MayLeave(s)
        BY <4>1, TickedContents
      <4>3. QED
        BY <4>1, <4>2
    <3> HIDE DEF l
    <3>4. DataOf(l) \in Seq(D) /\ Len(DataOf(l)) = Len(l)
      BY <3>3, DataOfType
    <3>5. wire'[i] = <<>> \o DataOf(l)
      BY <2>1, <2>3, <3>2 DEF Output, l
    <3>6. wire'[i] = DataOf(l)
      BY <3>4, <3>5
    <3>7. Len(wire'[i]) <= 1
      <4>1. Len(l) <= 1
        <5>1. \A n \in {0, 1} : n <= 1
          OBVIOUS
        <5>2. QED
          BY <3>3, <5>1, Zenon
      <4>2. QED
        BY <3>4, <3>6, <4>1
    <3>8. wire'[i] # <<>> => Len(l) = 1
      BY <3>3, <3>4, <3>6
    <3>9. wire'[i] # <<>> => CanAccept(stage'[i])
      BY <2>2, <3>2, <3>3, <3>8 DEF MayLeave
    <3>10. QED
      BY <3>7, <3>9
  <2>4. QED
    BY <1>5, <1>6, <2>2, <2>3
<1>13. CASE UNCHANGED vars
  BY <1>5, <1>6, <1>13 DEF vars
<1>14. QED
  BY <1>8, <1>9, <1>10, <1>11, <1>12, <1>13 DEF Next

\* A stage with something to do works on it, if it is not held back.
LEMMA StageProgress ==
  ASSUME NEW D, NEW s, Sound(s, D), Contents(s) # <<>>, s.state # "Stalled" \/ MayLeave(s)
  PROVE  Progressed(s, OnTick(s).stage)
<1> DEFINE t == OnTick(s).stage
           gone == OnTick(s).left
<1>1. StageOK(s, D) /\ s \in Stage(D) /\ Ticked(s, t, gone)
  BY OnTickEffect, SoundType DEF Sound
<1> HIDE DEF t, gone
<1>2. s.stats.busy \in Nat /\ s.stats.processed \in Nat
  BY <1>1, StatsCount
<1>3. CASE s.state = "Idle"
  <2>1. Contents(s) = s.input_queue
    BY <1>1, <1>3, ContentsShape DEF StageOK
  <2>2. Started(s, t)
    BY <1>1, <1>3 DEF Ticked, Kept, Left
  <2>3. t.state = "Busy"
    BY <2>1, <2>2 DEF Started
  <2>4. Progressed(s, t)
    BY <1>3, <2>3 DEF Progressed
  <2>5. QED
    BY <2>4 DEF t
<1>4. CASE s.state # "Idle"
  <2>1. Kept(s, t) \/ Left(s, t, gone)
    BY <1>1, <1>4 DEF Ticked
  <2>2. t.stats.busy = s.stats.busy + 1 \/ t.stats.processed = s.stats.processed + 1
    BY <1>4, <2>1 DEF Kept, Left
  <2>3. Progressed(s, t)
    BY <1>2, <2>2 DEF Progressed
  <2>4. QED
    BY <2>3 DEF t
<1>5. QED
  BY <1>3, <1>4

\* The last stage with an item is not held back: there is room behind it.
LEMMA ChainProgress ==
  ASSUME ChainAssumption, Wired, InStep, synchronous, UpToDate,
         \E i \in Stages : Contents(stage[i]) # <<>>
  PROVE  \E i \in Stages : Progressed(stage[i], OnTick(stage[i]).stage)
<1> DEFINE D == 0..(offered - 1)
           Full == {i \in Stages : Contents(stage[i]) # <<>>}
           S == {FinalStage - i : i \in Full}
<1>1. /\ FinalStage \in Nat /\ Stages = 1..FinalStage
  BY StagesType DEF Wired, Stages
<1>2. S \in SUBSET Nat /\ S # {}
  BY <1>1
<1>3. PICK n \in S : \A k \in S : n <= k
  BY <1>2, Least
<1>4. PICK m \in Full : n = FinalStage - m
  BY <1>3
<1>5. m \in Stages /\ Contents(stage[m]) # <<>>
  BY <1>4
<1>6. \A i \in Stages : m < i => Contents(stage[i]) = <<>>
  <2> SUFFICES ASSUME NEW i \in Stages, m < i, Contents(stage[i]) # <<>>  PROVE FALSE
    OBVIOUS
  <2>1. FinalStage - i \in S
    OBVIOUS
  <2>2. n <= FinalStage - i
    BY <1>3, <2>1
  <2>3. QED
    BY <1>1, <1>4, <1>5, <2>2
<1> HIDE DEF S, Full
<1>7. \A i \in Stages : Sound(stage[i], D) /\ stage[i].has_next = (i < FinalStage)
  BY DEF Wired, StageInv
<1>8. ASSUME stage[m].state = "Stalled"  PROVE MayLeave(stage[m])
  <2> DEFINE s == stage[m]
             t == stage[m + 1]
  <2>1. s.has_next
    BY <1>5, <1>7, <1>8 DEF Sound, StageOK
  <2>2. m + 1 \in Stages /\ m \in 1..(FinalStage - 1)
    <3>1. m < FinalStage
      BY <1>5, <1>7, <2>1
    <3>2. QED
      BY <1>1, <1>5, <3>1
  <2>3. s.downstream_ready = CanAccept(t)
    BY <2>2 DEF UpToDate
  <2>4. s.max_queue_depth # 0
    BY <1>5, <1>7, <1>8 DEF Sound
  <2>5. t.max_queue_depth = s.max_queue_depth
    BY <1>5, <2>2 DEF InStep
  <2>6. t.max_queue_depth \in Nat \cup {Unlimited} /\ t.max_queue_depth # 0
    BY <1>7, <2>2, <2>4, <2>5, SoundType
  <2>7. Len(t.input_queue) = 0
    <3>1. Contents(t) = <<>>
      BY <1>1, <1>5, <1>6, <2>2
    <3>2. /\ t \in Stage(D) /\ Len(t.current_item) = IF t.state = "Idle" THEN 0 ELSE 1
          /\ Len(t.input_queue) \in Nat
      BY <1>7, <2>2, SoundType
    <3>3. /\ t.state = "Idle" => Contents(t) = t.input_queue
          /\ t.state # "Idle" => Len(Contents(t)) = Len(t.input_queue) + 1
      BY <3>2, ContentsShape
    <3> HIDE DEF t
    <3>4. QED
      BY <3>1, <3>2, <3>3
  <2>8. CanAccept(t)
    BY <2>6, <2>7 DEF CanAccept
  <2>9. QED
    BY <2>3, <2>8 DEF MayLeave
<1>9. Progressed(stage[m], OnTick(stage[m]).stage)
  BY <1>5, <1>7, <1>8, StageProgress
<1>10. QED
  BY <1>5, <1>9

\* Only a tick advances the clock of the stages.
LEMMA OnlyTicksTick ==
  ASSUME ChainAssumption, Wired, Next, Ticks' > Ticks
  PROVE  TickAll
<1> DEFINE D == 0..(offered - 1)
           E == 0..offered
<1>1. /\ synchronous \in BOOLEAN /\ offered \in Nat /\ DOMAIN stage = Stages
      /\ wire \in [Stages -> Seq(D)] /\ wire[1] = <<>>
  BY DEF Wired
<1>2. 1 \in Stages
  BY <1>1, StagesType
<1>3. \A i \in Stages : StageInv(stage[i], D) /\ StageOK(stage[i], D)
  BY DEF Wired, StageInv, Sound
<1>4. D \subseteq E /\ offered \in E
  BY <1>1
<1> HIDE DEF D, E
<1>5. Cycles(stage[1]) \in Nat
  BY <1>2, <1>3, StatsCount DEF StageOK
<1>6. CASE InitNodes
  <2>1. stage'[1] = InitStage(stage[1])
    BY <1>2, <1>6 DEF InitNodes
  <2>2. stage'[1].stats = NoStats
    BY <2>1, NewStats DEF InitStage
  <2>3. Cycles(stage'[1]) = 0
    BY <2>2 DEF Cycles, NoStats
  <2>4. QED
    BY <1>5, <2>3 DEF Ticks
<1>7. CASE Offer
  <2>1. stage'[1] = Receive(stage[1], offered)
    BY <1>1, <1>2, <1>7 DEF Offer
  <2>2. StageOK(stage[1], E)
    <3>1. StageInv(stage[1], E)
      BY <1>2, <1>3, <1>4, StageMore
    <3>2. QED
      BY <3>1 DEF StageInv, Sound
  <2>3. Received(stage[1], Receive(stage[1], offered), offered)
    BY <1>4, <2>2, ReceiveEffect
  <2>4. Cycles(stage'[1]) = Cycles(stage[1])
    BY <2>1, <2>3 DEF Received
  <2>5. QED
    BY <1>5, <2>4 DEF Ticks
<1>8. ASSUME NEW j \in Stages, Deliver(j)  PROVE TickAll
  <2>1. stage'[1] = stage[1]
    <3>1. j # 1
      BY <1>1, <1>8 DEF Deliver
    <3>2. QED
      BY <1>1, <1>2, <1>8, <3>1 DEF Deliver
  <2>2. QED
    BY <1>5, <2>1 DEF Ticks
<1>9. ASSUME NEW j \in Stages, NEW ready \in BOOLEAN, Signal(j, ready)  PROVE TickAll
  <2>1. SignalReady(stage[j], ready).stats = stage[j].stats
    BY <1>3, SignalEffect
  <2>2. stage'[1].stats = stage[1].stats
    BY <1>1, <1>2, <1>9, <2>1 DEF Signal
  <2>3. Cycles(stage'[1]) = Cycles(stage[1])
    BY <2>2 DEF Cycles
  <2>4. QED
    BY <1>5, <2>3 DEF Ticks
<1>10. QED
  BY <1>6, <1>7, <1>8, <1>9 DEF Next

\* BackpressureWorks: no accepted item is dropped downstream of the first stage,
\* and no tick passes without work as long as there is an item.
THEOREM BackpressureHolds == Spec => BackpressureWorks
<1> USE ChainAssumption
<1> DEFINE Inv == Wired /\ InStep
<1>1. Init => Inv
  BY WiredInit, InStepInit
<1>2. Inv /\ [Next]_vars => Inv'
  BY WiredStep, InStepStep
<1>3. Inv /\ [Next]_vars =>
        [synchronous =>
           /\ \A i \in 2..FinalStage : stage'[i].stats.dropped = 0
           /\ (Ticks' > Ticks /\ \E i \in Stages : Contents(stage[i]) # <<>>) =>
                \E i \in Stages : Progressed(stage[i], stage'[i])]_vars
  <2> SUFFICES ASSUME Wired, InStep, Next, synchronous
               PROVE  /\ \A i \in 2..FinalStage : stage'[i].stats.dropped = 0
                      /\ (Ticks' > Ticks /\ \E i \in Stages : Contents(stage[i]) # <<>>) =>
                           \E i \in Stages : Progressed(stage[i], stage'[i])
    OBVIOUS
  <2>1. InStep'
    BY InStepStep
  <2>2. synchronous' = synchronous /\ Stages' = Stages
    BY DEF Next, InitNodes, Offer, Deliver, Signal, TickAll, FinalStage, Stages
  <2>3. \A i \in 2..FinalStage : i \in Stages /\ i # 1
    BY StagesType DEF Stages, Wired
  <2>4. \A i \in 2..FinalStage : stage'[i].stats.dropped = 0
    BY <2>1, <2>2, <2>3 DEF InStep
  <2>5. ASSUME Ticks' > Ticks, \E i \in Stages : Contents(stage[i]) # <<>>
        PROVE  \E i \in Stages : Progressed(stage[i], stage'[i])
    <3>1. TickAll
      BY <2>5, OnlyTicksTick
    <3>2. UpToDate /\ \A i \in Stages : stage'[i] = OnTick(stage[i]).stage
      BY <3>1 DEF TickAll
    <3>3. \E i \in Stages : Progressed(stage[i], OnTick(stage[i]).stage)
      BY <2>5, <3>2, ChainProgress
    <3>4. QED
      BY <3>2, <3>3
  <2>6. QED
    BY <2>4, <2>5
<1> HIDE DEF Inv
<1>4. QED
  BY <1>1, <1>2, <1>3, PTL DEF Spec, BackpressureWorks
===============================================================================
