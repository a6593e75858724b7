--------------------------- MODULE TickExecutorProofs ---------------------------
(***************************************************************************)
(* Proofs about TickExecutor, for every set of nodes, period and bound.    *)
(***************************************************************************)
EXTENDS TickExecutor, FiniteSetTheorems, SequenceTheorems, TLAPS

\* The bounded outputs are sequences.
LEMMA SeqsUpToAreSeqs ==
  ASSUME NEW S, NEW n \in Nat, NEW s \in SeqsUpTo(S, n)
  PROVE  s \in Seq(S) /\ Len(s) \in Nat
<1>1. PICK k \in 0..n : s \in [1..k -> S]
  BY DEF SeqsUpTo
<1>2. QED
  BY <1>1

\* The entry of the order that a step visits is one of its entries.
LEMMA EntryVisited ==
  ASSUME TypeOK, pos \in DOMAIN execution_order
  PROVE  /\ pos \in 1..Len(execution_order) /\ Len(execution_order) \in Nat
         /\ pos > 0 /\ pos \in Nat
<1>1. execution_order \in Seq(Ids)
  BY DEF TypeOK
<1>2. QED
  BY <1>1

\* What one on_tick returns, seen as events.
FromNode(n, generated) == [i \in 1..generated |-> [time |-> current_time, src |-> n]]

\* What a node generates in a tick: that many events, stamped with the tick's time.
LEMMA FromNodeType ==
  ASSUME TickAssumption, TypeOK, NEW generated \in 0..MaxFanout, NEW n \in Nodes
  PROVE  /\ FromNode(n, generated) \in Seq(Event) /\ Len(FromNode(n, generated)) = generated
         /\ \A i \in 1..generated :
              FromNode(n, generated)[i] = [time |-> current_time, src |-> n]
<1>1. [time |-> current_time, src |-> n] \in Event
  BY DEF TypeOK, Event
<1>2. generated \in Nat
  BY DEF TickAssumption
<1> DEFINE ev == [time |-> current_time, src |-> n]
<1> HIDE DEF ev
<1>3. /\ [i \in 1..generated |-> ev] \in Seq(Event) /\ Len([i \in 1..generated |-> ev]) = generated
      /\ \A i \in 1..generated : [k \in 1..generated |-> ev][i] = ev
  BY <1>1, <1>2 DEF ev
<1>4. QED
  BY <1>3 DEF FromNode, ev

-------------------------------------------------------------------------------
\* Calls come between runs, and runs end between ticks.
CallsBetweenTicks == phase = "idle" => pos = 0

\* Every step keeps the types, and calls from outside come between ticks.
LEMMA TypeStep == TypeOK /\ CallsBetweenTicks /\ [Next]_vars => TypeOK' /\ CallsBetweenTicks'
<1> USE TickAssumption
<1> SUFFICES ASSUME TypeOK, CallsBetweenTicks, [Next]_vars  PROVE TypeOK' /\ CallsBetweenTicks'
  OBVIOUS
<1>1. CASE InitExecutor
  BY <1>1 DEF InitExecutor, TypeOK, CallsBetweenTicks, NoStats, owned
<1>2. ASSUME NEW n \in Nodes, AddNode(n)  PROVE TypeOK' /\ CallsBetweenTicks'
  BY <1>2 DEF AddNode, TypeOK, CallsBetweenTicks
<1>3. ASSUME NEW order \in SeqsUpTo(Ids, MaxOrder), SetExecutionOrder(order)
      PROVE  TypeOK' /\ CallsBetweenTicks'
  <2>1. order \in Seq(Ids) /\ Len(order) \in Nat
    BY SeqsUpToAreSeqs DEF TickAssumption
  <2>2. wanted' \in Wanted
    BY <1>3 DEF SetExecutionOrder, NothingWanted, Wanted
  <2>3. pos' = 0 /\ 0 \in 0..(Len(order) + 1)
    BY <1>3, <2>1 DEF SetExecutionOrder, CallsBetweenTicks
  <2>4. QED
    BY <1>3, <2>1, <2>2, <2>3 DEF SetExecutionOrder, TypeOK, CallsBetweenTicks
<1>4. ASSUME NEW deps \in SeqsUpTo(Dependency, MaxDeps), ComputeExecutionOrder(deps)
      PROVE  TypeOK' /\ CallsBetweenTicks'
  <2>1. deps \in Seq(Dependency)
    BY SeqsUpToAreSeqs DEF TickAssumption
  <2>2. PICK order \in [1..Cardinality(nodes) -> nodes] : execution_order' = order
    BY <1>4 DEF ComputeExecutionOrder
  <2>3. Cardinality(nodes) \in Nat
    BY FS_Subset, FS_CardinalityType DEF TypeOK, TickAssumption
  <2>4. order \in Seq(nodes) /\ nodes \subseteq Ids
    <3>1. nodes \subseteq Ids
      BY DEF TypeOK, Ids
    <3>2. order \in Seq(nodes)
      BY <2>2, <2>3
    <3>3. QED
      BY <3>1, <3>2
  <2>5. order \in Seq(Ids) /\ Len(order) \in Nat
    BY <2>4
  <2>6. wanted' \in Wanted
    BY <1>4, <2>1 DEF ComputeExecutionOrder, Wanted, TypeOK
  <2>7. pos' = 0 /\ 0 \in 0..(Len(order) + 1)
    BY <1>4, <2>5 DEF ComputeExecutionOrder, CallsBetweenTicks
  <2>8. QED
    BY <1>4, <2>2, <2>5, <2>6, <2>7 DEF ComputeExecutionOrder, TypeOK, CallsBetweenTicks
<1>5. ASSUME NEW times \in SeqsUpTo(0..MaxTime, MaxIncoming), HandleIncoming(times)
      PROVE  TypeOK' /\ CallsBetweenTicks'
  <2>1. times \in Seq(0..MaxTime) /\ Len(times) \in Nat
    BY SeqsUpToAreSeqs DEF TickAssumption
  <2>2. incoming_events' \in Seq(0..MaxTime)
    BY <1>5, <2>1 DEF HandleIncoming, TypeOK
  <2>3. stats' \in [ticks : Nat, invocations : Nat, generated : Nat, incoming : Nat]
    <3>1. stats.incoming + Len(times) \in Nat
      BY <2>1 DEF TypeOK
    <3>2. QED
      BY <1>5, <3>1 DEF HandleIncoming, TypeOK
  <2>4. QED
    BY <1>5, <2>2, <2>3 DEF HandleIncoming, TypeOK, CallsBetweenTicks, owned
<1>6. ASSUME NEW t \in 0..MaxTime, BeginRun(t)  PROVE TypeOK' /\ CallsBetweenTicks'
  BY <1>6 DEF BeginRun, TypeOK, CallsBetweenTicks, owned, TickAssumption
<1>7. CASE StartTick
  BY <1>7 DEF StartTick, TypeOK, CallsBetweenTicks, owned, TickAssumption
<1>8. ASSUME NEW k \in 0..MaxFanout, TickNode(k)  PROVE TypeOK' /\ CallsBetweenTicks'
  <2> DEFINE n == execution_order[pos]
  <2>1. n \in Nodes /\ pos \in 1..Len(execution_order) /\ Len(execution_order) \in Nat
    <3>1. pos \in DOMAIN execution_order /\ n \in nodes /\ nodes \subseteq Nodes
      BY <1>8 DEF TickNode, TypeOK
    <3>2. QED
      BY <3>1, EntryVisited
  <2>2. all_events' = all_events \o FromNode(n, k) /\ ticked' = Append(ticked, n)
    BY <1>8 DEF TickNode, FromNode
  <2>3. FromNode(n, k) \in Seq(Event)
    BY <2>1, FromNodeType
  <2>4. all_events' \in Seq(Event) /\ ticked' \in Seq(Nodes)
    BY <2>1, <2>2, <2>3 DEF TypeOK
  <2>5. k \in Nat
    BY DEF TickAssumption
  <2>6. stats' \in [ticks : Nat, invocations : Nat, generated : Nat, incoming : Nat]
    <3>1. stats.invocations + 1 \in Nat /\ stats.generated + k \in Nat
      BY <2>5 DEF TypeOK
    <3>2. stats' = [stats EXCEPT !.invocations = @ + 1, !.generated = @ + k]
      BY <1>8 DEF TickNode
    <3>3. QED
      BY <3>1, <3>2 DEF TypeOK
  <2>7. UNCHANGED <<current_time, nodes, execution_order, wanted, incoming_events, phase,
                    target, start>>
    BY <1>8 DEF TickNode, owned
  <2>8. pos' \in 0..(Len(execution_order') + 1) /\ phase # "idle"
    BY <1>8, <2>1, <2>7 DEF TickNode, CallsBetweenTicks
  <2>9. QED
    BY <2>4, <2>6, <2>7, <2>8 DEF TypeOK, CallsBetweenTicks
<1>9. CASE SkipUnknown
  BY <1>9 DEF SkipUnknown, TypeOK, CallsBetweenTicks, owned
<1>10. CASE EndTick
  <2>1. 0 \in 0..(Len(execution_order) + 1) /\ stats.ticks + 1 \in Nat
    BY DEF TypeOK
  <2>2. stats' \in [ticks : Nat, invocations : Nat, generated : Nat, incoming : Nat]
    BY <1>10, <2>1 DEF EndTick, TypeOK
  <2>3. QED
    BY <1>10, <2>1, <2>2 DEF EndTick, TypeOK, CallsBetweenTicks, owned
<1>11. CASE ReturnFromRun
  BY <1>11 DEF ReturnFromRun, TypeOK, CallsBetweenTicks, owned
<1>12. CASE UNCHANGED vars
  BY <1>12 DEF vars, TypeOK, CallsBetweenTicks
<1>13. QED
  BY <1>1, <1>2, <1>3, <1>4, <1>5, <1>6, <1>7, <1>8, <1>9, <1>10, <1>11, <1>12
     DEF Next, RunStep

\* Types: no call and no choice of what the nodes return takes the executor out of
\* its types; in particular only nodes are invoked, whatever ids the order names.
THEOREM TypeCorrect == Spec => []TypeOK
<1>1. Init => TypeOK /\ CallsBetweenTicks
  BY DEF Init, TypeOK, CallsBetweenTicks, NoStats, NothingWanted, Wanted
<1>2. QED
  BY <1>1, TypeStep, PTL DEF Spec
-------------------------------------------------------------------------------
\* ClockOnGrid holds of every period, zero included, and every target.
THEOREM TicksKeepTheGrid == Spec => []ClockOnGrid
<1> USE TickAssumption
<1> DEFINE Inv == TypeOK /\ CallsBetweenTicks /\ ClockOnGrid
<1>1. Init => Inv
  BY DEF Init, TypeOK, CallsBetweenTicks, ClockOnGrid, NoStats, NothingWanted, Wanted
<1>2. Inv /\ [Next]_vars => Inv'
  <2> SUFFICES ASSUME TypeOK, CallsBetweenTicks, ClockOnGrid, [Next]_vars  PROVE ClockOnGrid'
    BY TypeStep
  <2>0. /\ TickPeriod \in Nat /\ current_time \in Nat /\ stats.ticks \in Nat /\ target \in Nat
        /\ start \in Nat /\ pos \in Nat /\ Len(execution_order) \in Nat
    BY DEF TypeOK, TickAssumption
  <2>1. CASE InitExecutor
    BY <2>0, <2>1 DEF InitExecutor, ClockOnGrid, CallsBetweenTicks, NoStats
  <2>2. ASSUME NEW n \in Nodes, AddNode(n)  PROVE ClockOnGrid'
    BY <2>2 DEF AddNode, ClockOnGrid
  <2>3. ASSUME NEW order \in SeqsUpTo(Ids, MaxOrder), SetExecutionOrder(order)
        PROVE  ClockOnGrid'
    BY <2>3 DEF SetExecutionOrder, ClockOnGrid
  <2>4. ASSUME NEW deps \in SeqsUpTo(Dependency, MaxDeps), ComputeExecutionOrder(deps)
        PROVE  ClockOnGrid'
    BY <2>4 DEF ComputeExecutionOrder, ClockOnGrid
  <2>5. ASSUME NEW times \in SeqsUpTo(0..MaxTime, MaxIncoming), HandleIncoming(times)
        PROVE  ClockOnGrid'
    <3>1. stats'.ticks = stats.ticks
      BY <2>5 DEF HandleIncoming, TypeOK
    <3>2. QED
      BY <2>5, <3>1 DEF HandleIncoming, ClockOnGrid
  <2>6. ASSUME NEW t \in 0..MaxTime, BeginRun(t)  PROVE ClockOnGrid'
    BY <2>6 DEF BeginRun, ClockOnGrid
  <2>7. CASE StartTick
    <3>1. stats.ticks * TickPeriod + TickPeriod = (stats.ticks + 1) * TickPeriod
      BY <2>0
    <3>2. current_time = stats.ticks * TickPeriod
      BY <2>0, <2>7 DEF StartTick, ClockOnGrid
    <3>3. current_time' = (stats.ticks + 1) * TickPeriod
      BY <2>7, <3>1, <3>2 DEF StartTick
    <3>4. current_time' <= target /\ pos' = 1 /\ phase' # "idle"
      BY <2>0, <2>7 DEF StartTick
    <3>5. UNCHANGED <<stats, target, start>>
      BY <2>7 DEF StartTick
    <3>6. QED
      BY <3>3, <3>4, <3>5 DEF ClockOnGrid
  <2>8. ASSUME NEW k \in 0..MaxFanout, TickNode(k)  PROVE ClockOnGrid'
    <3>1. stats'.ticks = stats.ticks
      BY <2>8 DEF TickNode, TypeOK
    <3>2. pos > 0 /\ pos' > 0
      BY <2>0, <2>8, EntryVisited DEF TickNode
    <3>3. QED
      BY <2>8, <3>1, <3>2 DEF TickNode, ClockOnGrid
  <2>9. CASE SkipUnknown
    <3>1. pos > 0 /\ pos' > 0
      BY <2>0, <2>9, EntryVisited DEF SkipUnknown
    <3>2. QED
      BY <2>9, <3>1 DEF SkipUnknown, ClockOnGrid
  <2>10. CASE EndTick
    <3>1. stats'.ticks = stats.ticks + 1
      BY <2>10 DEF EndTick, TypeOK
    <3>2. pos # 0 /\ pos' = 0
      BY <2>0, <2>10 DEF EndTick
    <3>3. stats.ticks + 1 = stats'.ticks + 0
      BY <2>0, <3>1
    <3>4. QED
      BY <2>10, <3>2, <3>3 DEF EndTick, ClockOnGrid
  <2>11. CASE ReturnFromRun
    BY <2>0, <2>11 DEF ReturnFromRun, ClockOnGrid
  <2>12. CASE UNCHANGED vars
    BY <2>12 DEF vars, ClockOnGrid
  <2>13. QED
    BY <2>1, <2>2, <2>3, <2>4, <2>5, <2>6, <2>7, <2>8, <2>9, <2>10, <2>11, <2>12
       DEF Next, RunStep
<1>3. QED
  BY <1>1, <1>2, PTL DEF Spec

-------------------------------------------------------------------------------
\* In a sequence as long as the set of its members no member occurs twice.
LEMMA NoneTwice ==
  ASSUME NEW S, IsFiniteSet(S), NEW s \in Seq(S), Len(s) = Cardinality(S), Members(s) = S
  PROVE  \A i, j \in DOMAIN s : s[i] = s[j] => i = j
<1>1. Len(s) \in Nat /\ DOMAIN s = 1..Len(s)
  OBVIOUS
<1>2. IsFiniteSet(1..Len(s)) /\ Cardinality(1..Len(s)) = Len(s)
  BY <1>1, FS_Interval
<1>3. s \in Surjection(1..Len(s), S)
  BY <1>1 DEF Surjection, Members
<1>4. s \in Injection(1..Len(s), S)
  BY <1>2, <1>3, FS_SurjSameCardinalityImpliesInj
<1>5. QED
  BY <1>1, <1>4 DEF Injection, IsInjective

\* The converse: members that occur once are counted by the length.
LEMMA CountedOnce ==
  ASSUME NEW S, NEW s \in Seq(S), \A i, j \in DOMAIN s : s[i] = s[j] => i = j
  PROVE  Cardinality(Members(s)) = Len(s)
<1>1. Len(s) \in Nat /\ DOMAIN s = 1..Len(s)
  OBVIOUS
<1>2. IsFiniteSet(1..Len(s)) /\ Cardinality(1..Len(s)) = Len(s)
  BY <1>1, FS_Interval
<1>3. s \in Surjection(1..Len(s), Members(s)) /\ s \in Injection(1..Len(s), Members(s))
  BY <1>1 DEF Surjection, Injection, IsInjective, Members
<1>4. QED
  BY <1>2, <1>3, FS_Surjection

\* While a computed order stands, the nodes it was computed for are still there, so
\* no entry is passed over and a tick has invoked a prefix of the order.
PrefixTicked ==
  /\ pos = 0 => ticked = <<>>
  /\ wanted # NothingWanted =>
       /\ wanted.nodes \subseteq nodes
       /\ IsTopologicalOrder(execution_order, wanted.deps, wanted.nodes)
       /\ pos > 0 => /\ Len(ticked) = pos - 1
                     /\ \A i \in 1..(pos - 1) : ticked[i] = execution_order[i]

\* Every step keeps: the nodes ticked are a prefix of the execution order.
LEMMA PrefixStep ==
  TypeOK /\ CallsBetweenTicks /\ PrefixTicked /\ [Next]_vars => PrefixTicked'
<1> USE TickAssumption
<1> SUFFICES ASSUME TypeOK, CallsBetweenTicks, PrefixTicked, [Next]_vars  PROVE PrefixTicked'
  OBVIOUS
<1>1. CASE InitExecutor
  BY <1>1 DEF InitExecutor, PrefixTicked, owned
<1>2. ASSUME NEW n \in Nodes, AddNode(n)  PROVE PrefixTicked'
  BY <1>2 DEF AddNode, PrefixTicked
<1>3. ASSUME NEW order \in SeqsUpTo(Ids, MaxOrder), SetExecutionOrder(order)
      PROVE  PrefixTicked'
  BY <1>3 DEF SetExecutionOrder, PrefixTicked
<1>4. ASSUME NEW deps \in SeqsUpTo(Dependency, MaxDeps), ComputeExecutionOrder(deps)
      PROVE  PrefixTicked'
  <2>1. wanted'.nodes = nodes /\ wanted'.deps = deps /\ nodes' = nodes
    BY <1>4 DEF ComputeExecutionOrder
  <2>2. IsTopologicalOrder(execution_order', wanted'.deps, wanted'.nodes)
    BY <1>4, <2>1 DEF ComputeExecutionOrder
  <2>3. pos = 0 /\ UNCHANGED <<pos, ticked>>
    BY <1>4 DEF ComputeExecutionOrder, CallsBetweenTicks
  <2>4. QED
    BY <2>1, <2>2, <2>3 DEF PrefixTicked
<1>5. ASSUME NEW times \in SeqsUpTo(0..MaxTime, MaxIncoming), HandleIncoming(times)
      PROVE  PrefixTicked'
  BY <1>5 DEF HandleIncoming, PrefixTicked, owned
<1>6. ASSUME NEW t \in 0..MaxTime, BeginRun(t)  PROVE PrefixTicked'
  BY <1>6 DEF BeginRun, PrefixTicked, owned
<1>7. CASE StartTick
  <2>1. pos = 0 /\ pos' = 1 /\ ticked' = <<>>
    BY <1>7 DEF StartTick, PrefixTicked
  <2>2. Len(<<>>) = 1 - 1 /\ 1..(1 - 1) = {}
    OBVIOUS
  <2>3. QED
    BY <1>7, <2>1, <2>2 DEF StartTick, PrefixTicked, owned
<1>8. ASSUME NEW k \in 0..MaxFanout, TickNode(k)  PROVE PrefixTicked'
  <2>1. pos \in 1..Len(execution_order) /\ pos \in Nat /\ pos > 0
    BY <1>8, EntryVisited DEF TickNode
  <2>2. pos' = pos + 1 /\ ticked' = Append(ticked, execution_order[pos]) /\ UNCHANGED owned
    BY <1>8 DEF TickNode
  <2>3. ticked \in Seq(Nodes)
    BY DEF TypeOK
  <2>4. ASSUME wanted # NothingWanted
        PROVE  /\ Len(ticked') = pos' - 1
               /\ \A i \in 1..(pos' - 1) : ticked'[i] = execution_order[i]
    <3>1. Len(ticked) = pos - 1 /\ \A i \in 1..(pos - 1) : ticked[i] = execution_order[i]
      BY <2>1, <2>4 DEF PrefixTicked
    <3>2. Len(ticked') = pos
      BY <2>1, <2>2, <2>3, <3>1
    <3>3. ASSUME NEW i \in 1..pos  PROVE ticked'[i] = execution_order[i]
      BY <2>1, <2>2, <2>3, <3>1
    <3>4. QED
      BY <2>1, <2>2, <3>2, <3>3
  <2>5. QED
    BY <2>1, <2>2, <2>4 DEF PrefixTicked, owned
<1>9. CASE SkipUnknown
  <2>1. pos \in DOMAIN execution_order /\ execution_order[pos] \notin nodes
    BY <1>9 DEF SkipUnknown
  <2>2. wanted = NothingWanted
    BY <2>1 DEF PrefixTicked, IsTopologicalOrder
  <2>3. pos > 0 /\ pos \in Nat
    BY <2>1, EntryVisited
  <2>4. pos' # 0 /\ wanted' = wanted
    BY <1>9, <2>3 DEF SkipUnknown, owned
  <2>5. QED
    BY <2>2, <2>4 DEF PrefixTicked
<1>10. CASE EndTick
  BY <1>10 DEF EndTick, PrefixTicked, owned
<1>11. CASE ReturnFromRun
  BY <1>11 DEF ReturnFromRun, PrefixTicked, owned
<1>12. CASE UNCHANGED vars
  BY <1>12 DEF vars, PrefixTicked
<1>13. QED
  BY <1>1, <1>2, <1>3, <1>4, <1>5, <1>6, <1>7, <1>8, <1>9, <1>10, <1>11, <1>12
     DEF Next, RunStep

\* A computed order lists every node once, so none waits for a later one.
LEMMA OrderHasNoRepeats ==
  ASSUME TickAssumption, TypeOK, PrefixTicked, wanted # NothingWanted
  PROVE  \A i, j \in DOMAIN execution_order : execution_order[i] = execution_order[j] => i = j
<1>1. /\ Len(execution_order) = Cardinality(wanted.nodes)
      /\ Members(execution_order) = wanted.nodes
  BY DEF PrefixTicked, IsTopologicalOrder, Members
<1>2. IsFiniteSet(wanted.nodes)
  BY FS_Subset DEF TypeOK, Wanted, TickAssumption
<1>3. execution_order \in Seq(wanted.nodes)
  <2>1. execution_order \in Seq(Ids)
    BY DEF TypeOK
  <2>2. \A i \in DOMAIN execution_order : execution_order[i] \in wanted.nodes
    BY <1>1 DEF Members
  <2>3. QED
    BY <2>1, <2>2
<1>4. QED
  BY <1>1, <1>2, <1>3, NoneTwice

\* DependenciesFirst follows from what a tick has invoked.
LEMMA PrefixRespectsDependencies ==
  ASSUME TickAssumption, TypeOK, PrefixTicked  PROVE DependenciesFirst
<1> SUFFICES ASSUME pos > 0, wanted # NothingWanted  PROVE DependenciesFirst
  BY DEF DependenciesFirst
<1>1. /\ execution_order \in Seq(Ids) /\ ticked \in Seq(Nodes) /\ pos \in Nat
      /\ Len(execution_order) \in Nat /\ pos <= Len(execution_order) + 1
  BY DEF TypeOK
<1>2. Len(ticked) = pos - 1 /\ \A i \in 1..(pos - 1) : ticked[i] = execution_order[i]
  BY DEF PrefixTicked
<1>3. /\ Members(execution_order) = wanted.nodes
      /\ \A i \in DOMAIN execution_order :
           Prerequisites(execution_order[i], wanted.deps, wanted.nodes)
             \subseteq {execution_order[j] : j \in 1..(i - 1)}
  BY DEF PrefixTicked, IsTopologicalOrder, Members
<1>4. /\ DOMAIN ticked = 1..(pos - 1) /\ 1..(pos - 1) \subseteq DOMAIN execution_order
      /\ DOMAIN execution_order = 1..Len(execution_order)
  BY <1>1, <1>2
<1>5. ASSUME NEW i \in DOMAIN ticked
      PROVE  Prerequisites(ticked[i], wanted.deps, wanted.nodes)
               \subseteq {ticked[j] : j \in 1..(i - 1)}
  <2>1. \A j \in 1..(i - 1) : j \in 1..(pos - 1)
    BY <1>1, <1>4
  <2>2. ticked[i] = execution_order[i] /\ i \in DOMAIN execution_order
    BY <1>2, <1>4
  <2>3. {execution_order[j] : j \in 1..(i - 1)} = {ticked[j] : j \in 1..(i - 1)}
    BY <1>2, <2>1
  <2>4. QED
    BY <1>3, <2>2, <2>3
<1>6. Cardinality(Members(ticked)) = Len(ticked)
  <2>1. \A i, j \in DOMAIN ticked : ticked[i] = ticked[j] => i = j
    BY <1>2, <1>4, OrderHasNoRepeats
  <2>2. QED
    BY <1>1, <2>1, CountedOnce
<1>7. Members(ticked) \subseteq wanted.nodes
  BY <1>2, <1>3, <1>4 DEF Members
<1>8. ASSUME pos = Len(execution_order) + 1  PROVE Members(ticked) = wanted.nodes
  <2>1. DOMAIN ticked = DOMAIN execution_order
    BY <1>1, <1>4, <1>8
  <2>2. QED
    BY <1>2, <1>3, <1>4, <2>1 DEF Members
<1>9. QED
  BY <1>5, <1>6, <1>7, <1>8 DEF DependenciesFirst

\* DependenciesFirst: for every list of dependencies, whatever is added to the
\* executor afterwards.
THEOREM TicksRespectDependencies == Spec => []DependenciesFirst
<1> USE TickAssumption
<1>1. Init => TypeOK /\ CallsBetweenTicks /\ PrefixTicked
  BY DEF Init, TypeOK, CallsBetweenTicks, PrefixTicked, NoStats, NothingWanted, Wanted
<1>2. TypeOK /\ PrefixTicked => DependenciesFirst
  BY PrefixRespectsDependencies
<1>3. QED
  BY <1>1, <1>2, TypeStep, PrefixStep, PTL DEF Spec

-------------------------------------------------------------------------------
\* Where the clock stands against the run and the tick it is in, and who made the
\* events of that tick.
CurrentOutput ==
  /\ start <= current_time
  /\ pos > 0 => start + TickPeriod <= current_time
  /\ pos > 0 => \A i \in DOMAIN all_events :
       all_events[i].time = current_time => all_events[i].src \in Members(ticked)

OutputInv == CurrentOutput /\ OutputFollowsTicks

\* A collected event has a time.
LEMMA EventsHaveTimes ==
  ASSUME TypeOK
  PROVE  \A i \in DOMAIN all_events : i \in Nat /\ all_events[i].time \in Nat
<1>1. all_events \in Seq(Event)
  BY DEF TypeOK
<1>2. \A i \in DOMAIN all_events : i \in Nat /\ all_events[i] \in Event
  BY <1>1
<1>3. QED
  BY <1>2 DEF Event

\* One on_tick appends events of its own time and node.
LEMMA OutputAppended ==
  ASSUME TickAssumption, TypeOK, NEW k \in 0..MaxFanout, TickNode(k)
  PROVE  \A i \in DOMAIN all_events' :
           \/ i \in DOMAIN all_events /\ all_events'[i] = all_events[i]
           \/ /\ \A j \in DOMAIN all_events : j < i
              /\ all_events'[i] = [time |-> current_time, src |-> execution_order[pos]]
<1> DEFINE n == execution_order[pos]
           new == FromNode(n, k)
<1>1. n \in Nodes
  BY DEF TickNode, TypeOK
<1>2. k \in Nat /\ k \in 0..MaxFanout
  BY DEF TickAssumption
<1>3. /\ new \in Seq(Event) /\ Len(new) = k
      /\ \A i \in 1..k : new[i] = [time |-> current_time, src |-> n]
  BY <1>1, FromNodeType
<1>4. all_events' = all_events \o new
  BY DEF TickNode, FromNode
<1>5. all_events \in Seq(Event)
  BY DEF TypeOK
<1> HIDE DEF new
<1>6. DOMAIN all_events' = 1..(Len(all_events) + k) /\ Len(all_events) \in Nat
  <2>1. all_events \o new \in Seq(Event) /\ Len(all_events \o new) = Len(all_events) + Len(new)
    BY <1>3, <1>5
  <2>2. QED
    BY <1>3, <1>4, <1>5, <2>1
<1>7. DOMAIN all_events = 1..Len(all_events)
  BY <1>5
<1> SUFFICES ASSUME NEW i \in 1..(Len(all_events) + k)
             PROVE  \/ i \in DOMAIN all_events /\ all_events'[i] = all_events[i]
                    \/ /\ \A j \in DOMAIN all_events : j < i
                       /\ all_events'[i] = [time |-> current_time, src |-> n]
  BY <1>6
<1>8. CASE i <= Len(all_events)
  BY <1>3, <1>4, <1>5, <1>6, <1>7, <1>8
<1>9. CASE i > Len(all_events)
  <2>1. i - Len(all_events) \in 1..k
    BY <1>2, <1>6, <1>9
  <2>2. all_events'[i] = new[i - Len(all_events)]
    BY <1>2, <1>3, <1>4, <1>5, <1>6, <1>9
  <2>3. QED
    BY <1>3, <1>6, <1>7, <1>9, <2>1, <2>2
<1>10. QED
  BY <1>6, <1>8, <1>9

\* A node's tick keeps the order of the outputs.
LEMMA TickOutputStep ==
  ASSUME TickAssumption, TypeOK, CallsBetweenTicks, PrefixTicked, OutputInv,
         NEW k \in 0..MaxFanout, TickNode(k)
  PROVE  OutputInv'
<1> DEFINE n == execution_order[pos]
<1>1. /\ pos \in DOMAIN execution_order /\ pos \in 1..Len(execution_order) /\ pos > 0
      /\ Len(execution_order) \in Nat /\ execution_order \in Seq(Ids)
  BY EntryVisited DEF TickNode, TypeOK
<1>2. /\ UNCHANGED <<current_time, execution_order, wanted, nodes, start, phase>>
      /\ pos' = pos + 1 /\ ticked' = Append(ticked, n)
  BY DEF TickNode, owned
<1>3. /\ current_time \in Nat /\ start \in Nat /\ all_events \in Seq(Event)
      /\ ticked \in Seq(Nodes) /\ TickPeriod \in Nat
  BY DEF TypeOK, TickAssumption
<1>4. start <= current_time /\ start + TickPeriod <= current_time
  BY <1>1 DEF OutputInv, CurrentOutput
<1>5. Members(ticked') = Members(ticked) \cup {n}
  <2>1. ticked' \in Seq(Nodes \cup {n}) /\ Len(ticked') = Len(ticked) + 1 /\ Len(ticked) \in Nat
    BY <1>2, <1>3
  <2>2. /\ \A i \in 1..Len(ticked) : ticked'[i] = ticked[i]
        /\ ticked'[Len(ticked) + 1] = n
    BY <1>2, <1>3
  <2>3. DOMAIN ticked = 1..Len(ticked) /\ DOMAIN ticked' = 1..(Len(ticked) + 1)
    BY <1>3, <2>1
  <2>4. DOMAIN ticked' = DOMAIN ticked \cup {Len(ticked) + 1}
    BY <2>1, <2>3
  <2>5. QED
    BY <2>2, <2>3, <2>4 DEF Members
<1>6. \A i \in DOMAIN all_events' :
        \/ i \in DOMAIN all_events /\ all_events'[i] = all_events[i]
        \/ /\ \A j \in DOMAIN all_events : j < i
           /\ all_events'[i].time = current_time /\ all_events'[i].src = n
  BY OutputAppended
<1>6a. DOMAIN all_events' \subseteq Nat
  <2>1. TypeOK'
    BY TypeStep DEF Next, RunStep
  <2>2. all_events' \in Seq(Event)
    BY <2>1 DEF TypeOK
  <2>3. QED
    BY <2>2
<1>7. \A i \in DOMAIN all_events :
        /\ all_events[i].time \in Nat /\ all_events[i].time <= current_time
        /\ start + TickPeriod <= all_events[i].time
        /\ all_events[i].time = current_time => all_events[i].src \in Members(ticked)
  BY <1>1, EventsHaveTimes DEF OutputInv, CurrentOutput, OutputFollowsTicks
<1>8. CurrentOutput'
  BY <1>2, <1>4, <1>5, <1>6, <1>7 DEF CurrentOutput
<1>9. \A i \in DOMAIN all_events' :
        start + TickPeriod <= all_events'[i].time /\ all_events'[i].time <= current_time
  BY <1>3, <1>4, <1>6, <1>7
<1>10. ASSUME NEW i \in DOMAIN all_events', NEW j \in DOMAIN all_events', i < j
       PROVE  all_events'[i].time <= all_events'[j].time
  <2>1. CASE j \in DOMAIN all_events /\ all_events'[j] = all_events[j]
    <3>1. i \in DOMAIN all_events /\ all_events'[i] = all_events[i]
      BY <1>6, <1>6a, <1>10, <2>1
    <3>2. QED
      BY <1>10, <2>1, <3>1 DEF OutputInv, OutputFollowsTicks
  <2>2. CASE all_events'[j].time = current_time
    BY <1>9, <2>2
  <2>3. QED
    BY <1>6, <2>1, <2>2
<1>11. ASSUME wanted # NothingWanted
       PROVE  \A i \in DOMAIN execution_order : i <= pos =>
                n \notin Prerequisites(execution_order[i], wanted.deps, wanted.nodes)
  <2> SUFFICES ASSUME NEW i \in DOMAIN execution_order, i <= pos,
                      n \in Prerequisites(execution_order[i], wanted.deps, wanted.nodes)
               PROVE  FALSE
    OBVIOUS
  <2>1. n \in {execution_order[j] : j \in 1..(i - 1)}
    BY <1>11 DEF PrefixTicked, IsTopologicalOrder
  <2>2. PICK j \in 1..(i - 1) : n = execution_order[j]
    BY <2>1
  <2>3. j \in DOMAIN execution_order /\ j # pos
    BY <1>1, <2>2
  <2>4. QED
    BY <1>1, <1>11, <2>2, <2>3, OrderHasNoRepeats
<1>12. ASSUME wanted # NothingWanted, NEW src \in Members(ticked) \cup {n}
       PROVE  n \notin Prerequisites(src, wanted.deps, wanted.nodes)
  <2>1. CASE src = n
    BY <1>1, <1>11, <1>12, <2>1
  <2>2. CASE src \in Members(ticked)
    <3>1. PICK i \in DOMAIN ticked : src = ticked[i]
      BY <2>2 DEF Members
    <3>2. Len(ticked) = pos - 1 /\ \A m \in 1..(pos - 1) : ticked[m] = execution_order[m]
      BY <1>1, <1>12 DEF PrefixTicked
    <3>3. i \in 1..(pos - 1) /\ i \in DOMAIN execution_order /\ i <= pos
      BY <1>1, <1>3, <3>2
    <3>4. QED
      BY <1>11, <1>12, <3>1, <3>2, <3>3
  <2>3. QED
    BY <2>1, <2>2
<1>13. ASSUME NEW i \in DOMAIN all_events', NEW j \in DOMAIN all_events', i < j,
              phase = "running", wanted # NothingWanted,
              all_events'[i].time = all_events'[j].time
       PROVE  all_events'[j].src
                \notin Prerequisites(all_events'[i].src, wanted.deps, wanted.nodes)
  <2>1. CASE j \in DOMAIN all_events /\ all_events'[j] = all_events[j]
    <3>1. i \in DOMAIN all_events /\ all_events'[i] = all_events[i]
      BY <1>6, <1>6a, <1>13, <2>1
    <3>2. QED
      BY <1>13, <2>1, <3>1 DEF OutputInv, OutputFollowsTicks
  <2>2. CASE all_events'[j].time = current_time /\ all_events'[j].src = n
    <3>1. all_events'[i].src \in Members(ticked) \cup {n}
      BY <1>6, <1>7, <1>13, <2>2
    <3>2. QED
      BY <1>12, <1>13, <2>2, <3>1
  <2>3. QED
    BY <1>6, <2>1, <2>2
<1>14. OutputFollowsTicks'
  BY <1>2, <1>9, <1>10, <1>13 DEF OutputFollowsTicks
<1>15. QED
  BY <1>8, <1>14 DEF OutputInv

\* Every step keeps the order of the outputs.
LEMMA OutputStep ==
  ASSUME TickAssumption, TickPeriod > 0, TypeOK, CallsBetweenTicks, PrefixTicked, OutputInv,
         [Next]_vars
  PROVE  OutputInv'
<1> USE DEF OutputInv, CurrentOutput, OutputFollowsTicks
<1>0. /\ TickPeriod \in Nat /\ current_time \in Nat /\ start \in Nat /\ pos \in Nat
      /\ all_events \in Seq(Event)
  BY DEF TypeOK, TickAssumption
<1>1. CASE InitExecutor
  BY <1>0, <1>1 DEF InitExecutor, CallsBetweenTicks
<1>2. ASSUME NEW n \in Nodes, AddNode(n)  PROVE OutputInv'
  BY <1>2 DEF AddNode
<1>3. ASSUME NEW order \in SeqsUpTo(Ids, MaxOrder), SetExecutionOrder(order)
      PROVE  OutputInv'
  BY <1>3 DEF SetExecutionOrder
<1>4. ASSUME NEW deps \in SeqsUpTo(Dependency, MaxDeps), ComputeExecutionOrder(deps)
      PROVE  OutputInv'
  BY <1>4 DEF ComputeExecutionOrder
<1>5. ASSUME NEW times \in SeqsUpTo(0..MaxTime, MaxIncoming), HandleIncoming(times)
      PROVE  OutputInv'
  BY <1>5 DEF HandleIncoming, owned
<1>6. ASSUME NEW t \in 0..MaxTime, BeginRun(t)  PROVE OutputInv'
  BY <1>0, <1>6 DEF BeginRun, CallsBetweenTicks, owned
<1>7. CASE StartTick
  <2>1. /\ current_time' = current_time + TickPeriod /\ UNCHANGED <<all_events, start, phase, wanted>>
        /\ \A i \in DOMAIN all_events : all_events[i].time \in Nat
    BY <1>7, EventsHaveTimes DEF StartTick, owned
  <2>2. \A i \in DOMAIN all_events :
          all_events[i].time <= current_time' /\ all_events[i].time # current_time'
    BY <1>0, <2>1
  <2>3. start <= current_time' /\ start + TickPeriod <= current_time'
    BY <1>0, <2>1
  <2>4. QED
    BY <2>1, <2>2, <2>3
<1>8. ASSUME NEW k \in 0..MaxFanout, TickNode(k)  PROVE OutputInv'
  BY <1>8, TickOutputStep
<1>9. CASE SkipUnknown
  <2>1. pos > 0 /\ UNCHANGED <<current_time, all_events, start, phase, wanted, ticked>>
    BY <1>9, EntryVisited DEF SkipUnknown, owned
  <2>2. QED
    BY <2>1
<1>10. CASE EndTick
  BY <1>0, <1>10 DEF EndTick, owned
<1>11. CASE ReturnFromRun
  BY <1>0, <1>11 DEF ReturnFromRun, owned
<1>12. CASE UNCHANGED vars
  BY <1>12 DEF vars
<1>13. QED
  BY <1>1, <1>2, <1>3, <1>4, <1>5, <1>6, <1>7, <1>8, <1>9, <1>10, <1>11, <1>12
     DEF Next, RunStep

\* OutputFollowsTicks, for every period but zero: with period 0 run_until never
\* returns, and all of its endless ticks bear the same time.
THEOREM OutputIsOrdered ==
  ASSUME TickPeriod > 0  PROVE Spec => []OutputFollowsTicks
<1> USE TickAssumption
<1>1. Init => TypeOK /\ CallsBetweenTicks /\ PrefixTicked /\ OutputInv
  BY DEF Init, TypeOK, CallsBetweenTicks, PrefixTicked, NoStats, NothingWanted, Wanted,
         OutputInv, CurrentOutput, OutputFollowsTicks
<1>2. TypeOK /\ CallsBetweenTicks /\ PrefixTicked /\ OutputInv /\ [Next]_vars => OutputInv'
  BY OutputStep
<1>3. OutputInv => OutputFollowsTicks
  BY DEF OutputInv
<1>4. QED
  BY <1>1, <1>2, <1>3, TypeStep, PrefixStep, PTL DEF Spec
===============================================================================
