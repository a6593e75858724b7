-------------------------------- MODULE Channel --------------------------------
(***************************************************************************)
(* Time alignment and channel latency (src/channel.rs) as operators.       *)
(*                                                                         *)
(* SimTime is u64.  Sums and products wrap modulo Width, as they do in a   *)
(* release build; a debug build panics where Wrap changes the value.  A    *)
(* tick period of 0 stands for an event-driven destination.                *)
(***************************************************************************)
EXTENDS Integers

CONSTANT Width   \* number of SimTime values, 2^64 in the code

ASSUME WidthAssumption == Width \in Nat \ {0}

SimTime == 0..(Width - 1)
Alignments == {"CeilToTick", "FloorToTick", "StrictTickBoundary"}

\* None of Option<SimTime>; no SimTime equals it.
None == -1

\* Mutants: a ceiling that forgets to subtract 1, one that adds the
\* remainder instead of what is missing; a floor one period too high; a rounding
\* that takes the half down; an arrival without the latency.
CeilPastBoundary(t, p) == IF p = 0 \/ t = 0 THEN t ELSE (((t + p) % Width) \div p) * p
CeilByRemainder(t, p) == IF p = 0 THEN t ELSE (t + (t % p)) % Width
FloorAbove(t, p) == IF p = 0 THEN t ELSE (t \div p) * p + p
RoundHalfDown(t, p) ==
  IF p = 0 THEN t
  ELSE IF t % p > p \div 2 THEN (t + (p - (t % p))) % Width
  ELSE t - (t % p)

Wrap(x) == x % Width

\* ceil_to_tick; the second test spares a t of 0, which rounds to itself anyway.
CeilToTick(t, p) ==
  IF p = 0 \/ t = 0 THEN t
  ELSE Wrap((Wrap(Wrap(t + p) - 1) \div p) * p)

FloorToTick(t, p) == IF p = 0 THEN t ELSE (t \div p) * p

IsOnBoundary(t, p) == p = 0 \/ t % p = 0

\* round_to_tick: p \div 2 is an integer division.
RoundToTick(t, p) ==
  IF p = 0 THEN t
  ELSE IF t % p >= p \div 2 THEN Wrap(t + (p - (t % p)))
  ELSE t - (t % p)

NextTickBoundary(t, p) == IF p = 0 THEN t ELSE Wrap(((t \div p) + 1) * p)

PrevTickBoundary(t, p) ==
  IF p = 0 \/ t <= p THEN 0
  ELSE IF t % p = 0 THEN t - p
  ELSE (t \div p) * p

TickNumber(t, p) == IF p = 0 THEN 0 ELSE t \div p

\* TimeAlignment::align.
Align(rule, t, p) ==
  IF p = 0 THEN t
  ELSE CASE rule = "CeilToTick"         -> CeilToTick(t, p)
         [] rule = "FloorToTick"        -> FloorToTick(t, p)
         [] rule = "StrictTickBoundary" -> IF t % p = 0 THEN t ELSE None

\* ChannelDesc: capacity, min_latency and max_latency are stored and never read.
ChannelDesc == [latency : SimTime, alignment : Alignments]
ArrivalWithoutLatency(ch, sent, p) == Align(ch.alignment, sent, p)

ComputeArrivalTime(ch, sent, p) == Align(ch.alignment, Wrap(sent + ch.latency), p)

\* transform_event_time, with the time a failure reports.
TransformEventTime(ch, sent, p) ==
  LET arrival == ComputeArrivalTime(ch, sent, p)
  IN  IF arrival = None
      THEN [outcome |-> "AlignmentFailed", time |-> Wrap(sent + ch.latency)]
      ELSE [outcome |-> "Delivered", time |-> arrival]
===============================================================================
