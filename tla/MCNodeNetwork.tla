----------------------------- MODULE MCNodeNetwork -----------------------------
(***************************************************************************)
(* Networks for model checking: lines a -> b -> c of a filter, a delay and *)
(* a counter, and loops of a forwarding node a and an echo node b.         *)
(***************************************************************************)
EXTENDS NodeNetwork

Network(a, b, c) ==
  [n \in {"a", "b", "c", "s"} |->
     CASE n = "a" -> a [] n = "b" -> b [] n = "c" -> c [] n = "s" -> NewSource("a")]

Filters == {PassAll, MatchKey, Sample(2), DropRandom}

\* Every filter and every way to number, in front of a fixed delay.
Filtered ==
  {Network(NewEnhanced(f, t, "b"), NewDelay(1, "c"), NewCounter)
     : f \in Filters, t \in {"AddSequence", "Wrap"}}

\* Every distribution behind a node that may drop and numbers; an empty range.
Delayed ==
  {Network(NewEnhanced(DropRandom, "AddMetadata", "b"), NewProbabilistic(d, "c"), NewCounter)
     : d \in {Fixed(1), Uniform(1, 2), Uniform(2, 1), Normal}}

\* A filter behind one that wraps or stamps, no target, a target elsewhere.
Chained ==
  {Network(NewEnhanced(PassAll, t, "b"), NewEnhanced(f, "AddSequence", "c"), NewCounter)
     : t \in {"Wrap", "AddTimestamp"}, f \in {MatchKey, Sample(2)}}
  \cup {Network(NewSimple("b"), NewEnhanced(DropRandom, "AddSequence", Nobody), NewCounter),
        Network(NewPassThrough("b"), NewDelay(1, "elsewhere"), NewCounter),
        Network(NewEnhanced(MatchKey, "None", "b"), NewProbabilistic(Exponential, Nobody), NewCounter)}

Looped ==
  {Network(NewDelay(1, "b"), NewEcho(0), NewCounter),
   Network(NewSimple("b"), NewEcho(1), NewCounter),
   Network(NewProbabilistic(Uniform(1, 2), "b"), NewEcho(0), NewCounter),
   Network(NewEcho(1), NewCounter, NewCounter)}

AllNetworks == Filtered \cup Delayed \cup Chained \cup Looped
===============================================================================
