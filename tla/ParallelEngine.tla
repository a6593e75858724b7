----------------------------- MODULE ParallelEngine -----------------------------
(***************************************************************************)
(* ParallelSimulationEngine (src/parallel.rs) with the `parallel` feature: *)
(* the rounds of Engine, except that the run_until calls of a round        *)
(* interleave on rayon's workers, and that init keeps the pending queue.   *)
(*                                                                         *)
(* The engine is borrowed mutably for the whole of run, so nothing is      *)
(* injected during a round, and par_iter().collect() returns the outgoing  *)
(* events by subgraph, whichever worker was faster.  Without the feature   *)
(* the engine takes the steps of Engine, and this init.                    *)
(***************************************************************************)
EXTENDS Engine

\* What is pending was pushed for the previous simulation and counts as injected
\* into this one.
InitParallel ==
  /\ phase = "idle"
  /\ current_time' = 0
  /\ stats' = NoStats
  /\ InitExecutors
  /\ injected' = Len(pending_events)
  /\ generated' = 0 /\ discarded' = 0 /\ replaced' = 0
  /\ fresh' = {}
  /\ UNCHANGED <<network, pending_events, phase, goal, waiting, running, outgoing>>

\* A worker picks a subgraph and takes its lock.
StartWorker(s) ==
  /\ phase = "stepping" /\ s \in waiting
  /\ running' = running \cup {s}
  /\ waiting' = waiting \ {s}
  /\ UNCHANGED <<network, history, globals, phase, outgoing, locals, generated, discarded>>

ParallelStep ==
  \/ BeginStep
  \/ \E s \in Subs : StartWorker(s)
  \/ ProcessSomeEvent
  \/ SomeTick
  \/ \E s \in Subs : LeaveSubgraph(s)
  \/ EndStep
  \/ ReturnFromRun

ParallelNext == InitParallel \/ Owner \/ ParallelStep

ParallelSpec == Init /\ [][ParallelNext]_vars
===============================================================================
