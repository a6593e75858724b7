----------------------------- MODULE ChannelStream -----------------------------
(***************************************************************************)
(* A stream of messages through one channel: what ChannelDesc and          *)
(* TimeAlignment (src/channel.rs) do to the order and the lag of messages  *)
(* sent at non-decreasing times, up to the end of the SimTime range.       *)
(***************************************************************************)
EXTENDS Channel

CONSTANTS
  MaxLatency,   \* bound: latencies are 0..MaxLatency
  MaxPeriod     \* bound: tick periods are 0..MaxPeriod, 0 being event-driven

ASSUME StreamAssumption == MaxLatency \in SimTime /\ MaxPeriod \in SimTime

VARIABLES
  channel,   \* the ChannelDesc
  period,    \* tick period of the destination
  sent,      \* send time of the last message
  result     \* what transform_event_time said of it

vars == <<channel, period, sent, result>>

Init ==
  /\ channel \in [latency : 0..MaxLatency, alignment : Alignments]
  /\ period \in 0..MaxPeriod
  /\ sent = 0
  /\ result = TransformEventTime(channel, 0, period)

Send(t) ==
  /\ sent <= t
  /\ sent' = t
  /\ result' = TransformEventTime(channel, t, period)
  /\ UNCHANGED <<channel, period>>

Next == \E t \in SimTime : Send(t)

Spec == Init /\ [][Next]_vars

-------------------------------------------------------------------------------
ready == sent + channel.latency

\* The exact sums of the channel fit in u64.  The ceiling adds the period
\* first and then subtracts 1, so its sum may reach Width itself.
InRange(t) == t < Width /\ (channel.alignment = "CeilToTick" => t + period <= Width)

\* b is the boundary nearest to t, the later one from the middle between two.
IsNearest(b, t, p) == IsOnBoundary(b, p) /\ 2 * (b - t) <= p /\ 2 * (t - b) < p

\* Ceiling alignment is causally safe (channel.rs:56-60): the arrival is the
\* least boundary that is not before send time plus latency, less than one
\* period after it, exactly as long as adding the period stays inside u64.  Beyond
\* that a release build delivers the message in the past, without any error.
CeilIsLeastSafeBoundary ==
  channel.alignment = "CeilToTick" /\ ready < Width =>
    /\ result.outcome = "Delivered"
    /\ InRange(ready) =>
         /\ result.time >= ready
         /\ IsOnBoundary(result.time, period)
         /\ \A b \in ready..(result.time - 1) : ~IsOnBoundary(b, period)
    /\ ~InRange(ready) => result.time < ready

\* Floor and strict alignment (channel.rs:75-107) bracket the same instant: floor
\* is the last boundary not after it, strict rejects exactly what floor moves,
\* and no rule touches a message for an event-driven destination.
RulesAgree ==
  ready < Width =>
    /\ LET floor == Align("FloorToTick", ready, period)
       IN  /\ floor <= ready /\ IsOnBoundary(floor, period)
           /\ \A b \in (floor + 1)..ready : period > 0 => ~IsOnBoundary(b, period)
           /\ channel.alignment = "StrictTickBoundary" =>
                result = IF floor = ready
                         THEN [outcome |-> "Delivered", time |-> ready]
                         ELSE [outcome |-> "AlignmentFailed", time |-> ready]
    /\ period = 0 => result = [outcome |-> "Delivered", time |-> ready]

\* Messages sent in order through one channel arrive in order: neither latency
\* nor rounding lets a later message overtake an earlier one.
NoOvertaking ==
  [][/\ result.outcome = "Delivered" /\ result'.outcome = "Delivered"
     /\ InRange(ready) /\ InRange(ready')
     => result.time <= result'.time]_vars

\* The tick arithmetic is one system (channel.rs:190-253): next and previous
\* boundaries are neighbours of the tick that tick_number counts, rounding up
\* from an instant off the grid is moving to its next boundary.  Rounding up twice
\* is rounding up once, again as long as adding the period fits.  Rounding to a tick
\* is, as documented, moving to the nearest boundary, up from the middle, with every
\* even period; with an odd one the document is wrong for one remainder, that of
\* the last instant before the middle, and right for the others.
TickArithmeticAgrees ==
  period > 0 /\ sent + period <= Width - 1 =>
    LET n == NextTickBoundary(sent, period)
    IN  /\ TickNumber(n, period) = TickNumber(sent, period) + 1
        /\ sent < n /\ n <= sent + period
        /\ CeilToTick(sent, period) = IF IsOnBoundary(sent, period) THEN sent ELSE n
        /\ PrevTickBoundary(n, period) = FloorToTick(sent, period)
        /\ LET up == CeilToTick(sent, period)
           IN  up + period <= Width => CeilToTick(up, period) = up
        /\ IsNearest(RoundToTick(sent, period), sent, period)
             <=> (period % 2 = 1 => sent % period # period \div 2)
===============================================================================
