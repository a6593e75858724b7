----------------------------- MODULE ChannelProofs -----------------------------
(***************************************************************************)
(* Proofs about ChannelStream, for every width, latency and period.        *)
(***************************************************************************)
EXTENDS ChannelStream, TLAPS

\* Division with remainder.
LEMMA Division ==
  ASSUME NEW t \in Nat, NEW p \in Nat \ {0}
  PROVE  /\ t \div p \in Nat /\ t % p \in 0..(p - 1)
         /\ t = (t \div p) * p + (t % p)
  OBVIOUS

\* Quotient and remainder are determined by the division equation.
LEMMA DivisionUnique ==
  ASSUME NEW p \in Nat \ {0}, NEW q \in Nat, NEW r \in 0..(p - 1)
  PROVE  (q * p + r) \div p = q /\ (q * p + r) % p = r
<1> DEFINE t == q * p + r
<1>1. t \in Nat
  OBVIOUS
<1>2. t \div p = q
  OBVIOUS
<1>3. t = (t \div p) * p + (t % p)
  BY <1>1, Division
<1>4. QED
  BY <1>1, <1>2, <1>3

\* A multiple of p is on a boundary, and nothing strictly between two
\* successive multiples is.
LEMMA Multiples ==
  ASSUME NEW p \in Nat \ {0}, NEW q \in Nat
  PROVE  /\ q * p \in Nat /\ (q * p) % p = 0
         /\ \A b \in (q * p + 1)..(q * p + p - 1) : b % p # 0
<1>1. q * p \in Nat /\ (q * p) % p = 0
  OBVIOUS
<1>2. ASSUME NEW b \in (q * p + 1)..(q * p + p - 1)  PROVE b % p # 0
  <2>1. b = q * p + (b - q * p) /\ b - q * p \in 1..(p - 1) /\ b \in Nat
    BY <1>1
  <2>2. b % p = b - q * p
    <3> DEFINE r == b - q * p
    <3>1. r \in 0..(p - 1) /\ b = q * p + r
      BY <2>1
    <3> HIDE DEF r
    <3>2. (q * p + r) % p = r
      BY <3>1, DivisionUnique
    <3>3. QED
      BY <3>1, <3>2 DEF r
  <2>3. QED
    BY <2>1, <2>2
<1>3. QED
  BY <1>1, <1>2

\* Wrap yields a u64 and leaves a u64 alone (the width of SimTime).
LEMMA WrapInside ==
  ASSUME WidthAssumption, NEW x \in Int
  PROVE  /\ Wrap(x) \in SimTime
         /\ x \in SimTime => Wrap(x) = x
  BY DEF Wrap, SimTime, WidthAssumption

\* While adding the period stays within the width, the ceiling is exact.
LEMMA CeilExact ==
  ASSUME WidthAssumption, NEW t \in SimTime, NEW p \in SimTime \ {0}, t + p <= Width
  PROVE  LET c == CeilToTick(t, p)
         IN  /\ c \in SimTime /\ c % p = 0
             /\ t <= c /\ c < t + p
             /\ \A b \in t..(c - 1) : b % p # 0
<1> USE WidthAssumption DEF WidthAssumption, SimTime
<1>1. CASE t = 0
  BY <1>1 DEF CeilToTick
<1>2. CASE t # 0
  <2> DEFINE n == t + p - 1
             q == n \div p
  <2>1. n \in SimTime /\ Wrap(Wrap(t + p) - 1) = n
    <3>1. CASE t + p < Width
      BY <3>1 DEF Wrap
    <3>2. CASE t + p = Width
      <4>1. Wrap(t + p) = 0
        BY <3>2 DEF Wrap
      <4>2. Wrap(0 - 1) = Width - 1
        BY DEF Wrap
      <4>3. QED
        BY <3>2, <4>1, <4>2
    <3>3. QED
      BY <3>1, <3>2
  <2>2. q \in Nat /\ n % p \in 0..(p - 1) /\ n = q * p + (n % p)
    <3>1. n \in Nat /\ p \in Nat \ {0}
      BY <2>1
    <3> HIDE DEF n
    <3>2. QED
      BY <3>1, Division DEF q
  <2>3. q * p \in SimTime
    BY <2>1, <2>2, Multiples
  <2>4. CeilToTick(t, p) = q * p
    <3>1. Wrap(q * p) = q * p
      BY <2>3, WrapInside
    <3>2. CeilToTick(t, p) = Wrap((Wrap(Wrap(t + p) - 1) \div p) * p)
      BY <1>2 DEF CeilToTick
    <3>3. QED
      BY <2>1, <3>1, <3>2
  <2> HIDE DEF q
  <2>5. t <= q * p /\ q * p < t + p
    BY <2>2, <2>3
  <2>6. ASSUME NEW b \in t..(q * p - 1)  PROVE b % p # 0
    <3>1. q # 0
      BY <1>2, <2>5
    <3>2. q - 1 \in Nat /\ (q - 1) * p = q * p - p
      BY <3>1, <2>2
    <3>3. b \in ((q - 1) * p + 1)..((q - 1) * p + p - 1)
      BY <3>2, <2>3, <2>5
    <3>4. QED
      BY <3>2, <3>3, Multiples
  <2>7. QED
    BY <2>2, <2>3, <2>4, <2>5, <2>6, Multiples
<1>3. QED
  BY <1>1, <1>2

\* Rounding down stays between 0 and the instant (floor_to_tick).
LEMMA FloorInside ==
  ASSUME WidthAssumption, NEW t \in SimTime, NEW p \in SimTime \ {0}
  PROVE  (t \div p) * p \in 0..t
<1>1. t \in Nat /\ p \in Nat \ {0}
  BY DEF SimTime, WidthAssumption
<1>2. QED
  BY <1>1, Division

\* Every rule answers with a SimTime or, strict only, with None.
LEMMA AlignType ==
  ASSUME WidthAssumption, NEW rule \in Alignments, NEW t \in SimTime, NEW p \in SimTime
  PROVE  Align(rule, t, p) \in SimTime \cup {None}
<1>1. CASE p = 0
  BY <1>1 DEF Align
<1>2. CASE p # 0 /\ rule = "CeilToTick"
  <2>1. CeilToTick(t, p) \in SimTime
    <3>1. t = 0 => CeilToTick(t, p) = t
      BY DEF CeilToTick
    <3>2. t # 0 => CeilToTick(t, p) = Wrap((Wrap(Wrap(t + p) - 1) \div p) * p)
      BY <1>2 DEF CeilToTick
    <3>3. Wrap(Wrap(t + p) - 1) \in SimTime
      <4>1. t + p \in Int
        BY DEF SimTime, WidthAssumption
      <4>2. Wrap(t + p) - 1 \in Int
        BY <4>1, WrapInside DEF SimTime, WidthAssumption
      <4>3. QED
        BY <4>2, WrapInside
    <3>4. (Wrap(Wrap(t + p) - 1) \div p) * p \in Int
      <4> DEFINE n == Wrap(Wrap(t + p) - 1)
      <4>1. n \in Nat /\ p \in Nat \ {0}
        BY <1>2, <3>3 DEF SimTime, WidthAssumption
      <4> HIDE DEF n
      <4>2. QED
        BY <4>1, Division DEF n
    <3>5. QED
      BY <3>1, <3>2, <3>4, WrapInside
  <2>2. QED
    BY <1>2, <2>1 DEF Align
<1>3. CASE p # 0 /\ rule = "FloorToTick"
  BY <1>3, FloorInside DEF Align, FloorToTick, SimTime, WidthAssumption
<1>4. CASE p # 0 /\ rule = "StrictTickBoundary"
  BY <1>4 DEF Align
<1>5. QED
  BY <1>1, <1>2, <1>3, <1>4 DEF Alignments

\* Option's None is no SimTime.
LEMMA NoneIsNoTime == WidthAssumption => None \notin SimTime
  BY DEF None, SimTime, WidthAssumption

\* transform_event_time returns an outcome and a u64 time.
LEMMA TransformType ==
  ASSUME WidthAssumption, NEW ch \in ChannelDesc, NEW t \in SimTime, NEW p \in SimTime
  PROVE  TransformEventTime(ch, t, p)
           \in [outcome : {"Delivered", "AlignmentFailed"}, time : SimTime]
<1>1. ch.latency \in SimTime /\ ch.alignment \in Alignments
  BY DEF ChannelDesc
<1>2. Wrap(t + ch.latency) \in SimTime
  BY <1>1, WrapInside DEF SimTime, WidthAssumption
<1>3. ComputeArrivalTime(ch, t, p) \in SimTime \cup {None}
  BY <1>1, <1>2, AlignType DEF ComputeArrivalTime
<1>4. QED
  BY <1>2, <1>3 DEF TransformEventTime

-------------------------------------------------------------------------------
\* The types of the stream's state, and result is what the code says of the last
\* message.
Typed ==
  /\ channel \in ChannelDesc
  /\ period \in SimTime
  /\ sent \in SimTime
  /\ result \in [outcome : {"Delivered", "AlignmentFailed"}, time : SimTime]
Stream == Typed /\ result = TransformEventTime(channel, sent, period)

\* The inductive invariant of the stream of messages through one channel.
LEMMA StreamHolds == Spec => []Stream
<1> USE WidthAssumption, StreamAssumption
<1>1. Init => Stream
  <2> SUFFICES ASSUME Init  PROVE Stream
    OBVIOUS
  <2>1. channel \in ChannelDesc /\ period \in SimTime /\ sent \in SimTime
    BY DEF Init, ChannelDesc, StreamAssumption, SimTime, WidthAssumption
  <2>2. QED
    BY <2>1, TransformType DEF Init, Stream, Typed
<1>2. Stream /\ [Next]_vars => Stream'
  <2>1. ASSUME Stream, NEW t \in SimTime, Send(t)  PROVE Stream'
    BY <2>1, TransformType DEF Send, Stream, Typed
  <2>2. ASSUME Stream, UNCHANGED vars  PROVE Stream'
    BY <2>2 DEF vars, Stream, Typed
  <2>3. QED
    BY <2>1, <2>2 DEF Next
<1>3. QED
  BY <1>1, <1>2, PTL DEF Spec

\* What arrives, when the sums of the channel fit the width.
LEMMA Arrival ==
  ASSUME WidthAssumption, Stream, InRange(ready)
  PROVE  /\ ready \in SimTime
         /\ ComputeArrivalTime(channel, sent, period) = Align(channel.alignment, ready, period)
<1>1. channel.latency \in SimTime /\ sent \in SimTime
  BY DEF Stream, Typed, ChannelDesc
<1>2. ready \in SimTime
  BY <1>1 DEF ready, InRange, SimTime, WidthAssumption
<1>3. Wrap(sent + channel.latency) = ready
  BY <1>2, WrapInside DEF ready, SimTime, WidthAssumption
<1>4. QED
  BY <1>2, <1>3 DEF ComputeArrivalTime

\* What transform_event_time says when the sum of send time and latency fits.
LEMMA ReadyResult ==
  ASSUME WidthAssumption, Stream, ready < Width
  PROVE  /\ ready \in SimTime /\ period \in SimTime /\ channel.alignment \in Alignments
         /\ result = LET a == Align(channel.alignment, ready, period)
                     IN  IF a = None THEN [outcome |-> "AlignmentFailed", time |-> ready]
                         ELSE [outcome |-> "Delivered", time |-> a]
<1>1. channel.latency \in SimTime /\ sent \in SimTime /\ period \in SimTime
      /\ channel.alignment \in Alignments
  BY DEF Stream, Typed, ChannelDesc
<1>2. ready \in SimTime
  BY <1>1 DEF ready, SimTime, WidthAssumption
<1>3. Wrap(sent + channel.latency) = ready
  BY <1>2, WrapInside DEF ready, SimTime, WidthAssumption
<1>4. QED
  BY <1>1, <1>2, <1>3 DEF Stream, TransformEventTime, ComputeArrivalTime

\* Once adding the period leaves the width, the ceiling is before the instant itself.
LEMMA CeilWraps ==
  ASSUME WidthAssumption, NEW t \in SimTime, NEW p \in SimTime \ {0}, t + p > Width
  PROVE  CeilToTick(t, p) \in SimTime /\ CeilToTick(t, p) < t
<1> DEFINE n == t + p - Width
           q == (n - 1) \div p
<1>1. /\ t \in Nat /\ p \in Nat \ {0} /\ Width \in Nat \ {0}
      /\ n \in 1..(t - 1) /\ t < Width
  BY DEF SimTime, WidthAssumption
<1>2. Wrap(t + p) = n
  <2>1. n \in 0..(Width - 1) /\ t + p = 1 * Width + n
    BY <1>1
  <2> HIDE DEF n
  <2>2. (1 * Width + n) % Width = n
    BY <1>1, <2>1, DivisionUnique
  <2>3. QED
    BY <2>1, <2>2 DEF Wrap
<1> HIDE DEF n
<1>3. n - 1 \in SimTime /\ n - 1 \in Nat
  BY <1>1 DEF SimTime
<1>4. Wrap(n - 1) = n - 1
  BY <1>3, WrapInside DEF SimTime
<1>5. q \in Nat /\ (n - 1) % p \in 0..(p - 1) /\ n - 1 = q * p + ((n - 1) % p)
  BY <1>1, <1>3, Division
<1> HIDE DEF q
<1>6. q * p \in SimTime /\ q * p < t
  BY <1>1, <1>3, <1>5 DEF SimTime
<1>7. CeilToTick(t, p) = Wrap(q * p)
  BY <1>1, <1>2, <1>4 DEF CeilToTick, q
<1>8. QED
  BY <1>6, <1>7, WrapInside DEF SimTime

\* The default alignment never delivers early and never a whole period late, for every
\* u64 time and period whose sum the type can hold, and early for all others.
THEOREM CeilingIsSafe == Spec => []CeilIsLeastSafeBoundary
<1> USE WidthAssumption
<1>1. Stream => CeilIsLeastSafeBoundary
  <2> SUFFICES ASSUME Stream, channel.alignment = "CeilToTick", ready < Width
               PROVE  /\ result.outcome = "Delivered"
                      /\ InRange(ready) =>
                           /\ result.time >= ready
                           /\ IsOnBoundary(result.time, period)
                           /\ \A b \in ready..(result.time - 1) : ~IsOnBoundary(b, period)
                      /\ ~InRange(ready) => result.time < ready
    BY DEF CeilIsLeastSafeBoundary
  <2> DEFINE c == CeilToTick(ready, period)
  <2>1. ready \in SimTime /\ period \in SimTime
    BY ReadyResult
  <2>2. InRange(ready) <=> ready + period <= Width
    BY DEF InRange
  <2>3. CASE period = 0
    <3>1. result = [outcome |-> "Delivered", time |-> ready]
      BY <2>1, <2>3, NoneIsNoTime, ReadyResult DEF Align
    <3>2. InRange(ready)
      BY <2>1, <2>2, <2>3 DEF SimTime, WidthAssumption
    <3>3. QED
      BY <2>1, <2>3, <3>1, <3>2 DEF IsOnBoundary, SimTime, WidthAssumption
  <2>4. CASE period # 0
    <3>1. Align("CeilToTick", ready, period) = c
      BY <2>4 DEF Align
    <3>2. c \in SimTime => result = [outcome |-> "Delivered", time |-> c]
      BY <3>1, NoneIsNoTime, ReadyResult
    <3>3. CASE InRange(ready)
      <4>1. /\ c \in SimTime /\ c % period = 0 /\ ready <= c
            /\ \A b \in ready..(c - 1) : b % period # 0
        BY <2>1, <2>2, <2>4, <3>3, CeilExact
      <4> HIDE DEF c
      <4>2. QED
        BY <2>1, <2>4, <3>2, <3>3, <4>1 DEF IsOnBoundary, SimTime, WidthAssumption
    <3>4. CASE ~InRange(ready)
      <4>1. ready + period > Width
        BY <2>1, <2>2, <3>4 DEF SimTime, WidthAssumption
      <4>2. c \in SimTime /\ c < ready
        BY <2>1, <2>4, <4>1, CeilWraps
      <4> HIDE DEF c
      <4>3. QED
        BY <3>2, <3>4, <4>2
    <3>5. QED
      BY <3>3, <3>4
  <2>5. QED
    BY <2>3, <2>4
<1>2. QED
  BY <1>1, StreamHolds, PTL

\* The floor is the last boundary that is not after the instant.
LEMMA FloorExact ==
  ASSUME WidthAssumption, NEW t \in SimTime, NEW p \in SimTime \ {0}
  PROVE  LET f == FloorToTick(t, p)
         IN  /\ f \in SimTime /\ f <= t /\ f % p = 0
             /\ \A b \in (f + 1)..t : b % p # 0
             /\ f = t <=> t % p = 0
             /\ t = f + (t % p)
<1> DEFINE q == t \div p
           r == t % p
           f == q * p
<1>1. t \in Nat /\ p \in Nat \ {0}
  BY DEF SimTime, WidthAssumption
<1>2. q \in Nat /\ r \in 0..(p - 1) /\ t = f + r
  BY <1>1, Division
<1> HIDE DEF q, r
<1>3. f \in Nat /\ f % p = 0 /\ \A b \in (f + 1)..(f + p - 1) : b % p # 0
  BY <1>1, <1>2, Multiples
<1> HIDE DEF f
<1>4. f <= t /\ f \in SimTime
  BY <1>1, <1>2, <1>3 DEF SimTime, WidthAssumption
<1>5. \A b \in (f + 1)..t : b % p # 0
  <2>1. t <= f + p - 1
    BY <1>1, <1>2, <1>3
  <2>2. \A b \in (f + 1)..t : b \in (f + 1)..(f + p - 1)
    BY <1>1, <1>3, <2>1
  <2>3. QED
    BY <1>3, <2>2
<1>6. f = t <=> r = 0
  BY <1>1, <1>2, <1>3
<1>7. FloorToTick(t, p) = f
  BY <1>1 DEF FloorToTick, f, q
<1>8. QED
  BY <1>2, <1>3, <1>4, <1>5, <1>6, <1>7 DEF r

\* RulesAgree: floor and strict alignment bracket the same instant, whatever the
\* latency and the period.
THEOREM AlignmentRulesAgree == Spec => []RulesAgree
<1> USE WidthAssumption
<1>1. Stream => RulesAgree
  <2> SUFFICES ASSUME Stream, ready < Width  PROVE RulesAgree
    BY DEF RulesAgree
  <2> DEFINE floor == Align("FloorToTick", ready, period)
  <2>1. /\ ready \in SimTime /\ period \in SimTime
        /\ result = LET a == Align(channel.alignment, ready, period)
                    IN  IF a = None THEN [outcome |-> "AlignmentFailed", time |-> ready]
                        ELSE [outcome |-> "Delivered", time |-> a]
    BY ReadyResult
  <2>2. None \notin SimTime
    BY NoneIsNoTime
  <2>3. CASE period = 0
    <3>1. floor = ready /\ Align(channel.alignment, ready, period) = ready
      BY <2>3 DEF Align
    <3>2. result = [outcome |-> "Delivered", time |-> ready]
      BY <2>1, <2>2, <3>1
    <3>3. ready <= ready /\ (ready + 1)..ready = {}
      BY <2>1 DEF SimTime, WidthAssumption
    <3> HIDE DEF floor
    <3>4. QED
      BY <2>3, <3>1, <3>2, <3>3 DEF RulesAgree, IsOnBoundary, floor
  <2>4. CASE period # 0
    <3>1. floor = FloorToTick(ready, period)
      BY <2>4 DEF Align
    <3>2. /\ floor <= ready /\ floor % period = 0
          /\ \A b \in (floor + 1)..ready : b % period # 0
          /\ floor = ready <=> ready % period = 0
      BY <2>1, <2>4, <3>1, FloorExact
    <3>3. channel.alignment = "StrictTickBoundary" =>
            result = IF floor = ready
                     THEN [outcome |-> "Delivered", time |-> ready]
                     ELSE [outcome |-> "AlignmentFailed", time |-> ready]
      <4>1. ASSUME channel.alignment = "StrictTickBoundary"
            PROVE  Align(channel.alignment, ready, period) =
                     IF ready % period = 0 THEN ready ELSE None
        BY <2>4, <4>1 DEF Align
      <4>2. QED
        BY <2>1, <2>2, <3>2, <4>1
    <3> HIDE DEF floor
    <3>4. QED
      BY <2>4, <3>2, <3>3 DEF RulesAgree, IsOnBoundary, floor
  <2>5. QED
    BY <2>3, <2>4
<1>2. QED
  BY <1>1, StreamHolds, PTL

\* A rule keeps the order of two instants that it delivers.
LEMMA AlignKeepsOrder ==
  ASSUME WidthAssumption, NEW rule \in Alignments, NEW p \in SimTime,
         NEW t \in SimTime, NEW u \in SimTime, t <= u,
         rule = "CeilToTick" => t + p <= Width /\ u + p <= Width,
         Align(rule, t, p) # None, Align(rule, u, p) # None
  PROVE  Align(rule, t, p) <= Align(rule, u, p)
<1>1. CASE p = 0
  BY <1>1 DEF Align
<1>2. CASE p # 0 /\ rule = "CeilToTick"
  <2> DEFINE c == CeilToTick(t, p)
             d == CeilToTick(u, p)
  <2>1. c \in SimTime /\ t <= c /\ \A b \in t..(c - 1) : b % p # 0
    BY <1>2, CeilExact
  <2>2. d \in SimTime /\ u <= d /\ d % p = 0
    BY <1>2, CeilExact
  <2>3. Align(rule, t, p) = c /\ Align(rule, u, p) = d
    BY <1>2 DEF Align
  <2> HIDE DEF c, d
  <2>4. d \notin t..(c - 1)
    BY <2>1, <2>2
  <2>5. c <= d
    BY <2>1, <2>2, <2>4 DEF SimTime, WidthAssumption
  <2>6. QED
    BY <2>3, <2>5
<1>3. CASE p # 0 /\ rule = "FloorToTick"
  <2> DEFINE c == FloorToTick(t, p)
             d == FloorToTick(u, p)
  <2>1. c \in SimTime /\ c <= t /\ c % p = 0
    BY <1>3, FloorExact
  <2>2. d \in SimTime /\ d <= u /\ \A b \in (d + 1)..u : b % p # 0
    BY <1>3, FloorExact
  <2>3. Align(rule, t, p) = c /\ Align(rule, u, p) = d
    BY <1>3 DEF Align
  <2> HIDE DEF c, d
  <2>4. c \notin (d + 1)..u
    BY <2>1, <2>2
  <2>5. c <= d
    BY <2>1, <2>2, <2>4 DEF SimTime, WidthAssumption
  <2>6. QED
    BY <2>3, <2>5
<1>4. CASE p # 0 /\ rule = "StrictTickBoundary"
  BY <1>4 DEF Align
<1>5. QED
  BY <1>1, <1>2, <1>3, <1>4 DEF Alignments

\* NoOvertaking: messages that are sent in order through one channel and delivered
\* arrive in order.
THEOREM ChannelKeepsOrder == Spec => NoOvertaking
<1> USE WidthAssumption
<1>1. Stream /\ [Next]_vars => Stream'
  <2>1. ASSUME Stream, NEW t \in SimTime, Send(t)  PROVE Stream'
    BY <2>1, TransformType DEF Send, Stream, Typed
  <2>2. ASSUME Stream, UNCHANGED vars  PROVE Stream'
    BY <2>2 DEF vars, Stream, Typed
  <2>3. QED
    BY <2>1, <2>2 DEF Next
<1>2. Stream /\ Stream' /\ [Next]_vars =>
        [/\ result.outcome = "Delivered" /\ result'.outcome = "Delivered"
         /\ InRange(ready) /\ InRange(ready')
         => result.time <= result'.time]_vars
  <2> SUFFICES ASSUME Stream, Stream', Next,
                      result.outcome = "Delivered", result'.outcome = "Delivered",
                      InRange(ready), InRange(ready')
               PROVE  result.time <= result'.time
    OBVIOUS
  <2> DEFINE rule == channel.alignment
             t == ready
             u == sent' + channel.latency
  <2>1. /\ sent <= sent' /\ channel' = channel /\ period' = period /\ sent' \in SimTime
    BY DEF Next, Send
  <2>2. u = ready'
    BY <2>1 DEF ready
  <2>3. /\ t \in SimTime /\ period \in SimTime /\ rule \in Alignments
        /\ result = IF Align(rule, t, period) = None
                    THEN [outcome |-> "AlignmentFailed", time |-> t]
                    ELSE [outcome |-> "Delivered", time |-> Align(rule, t, period)]
    BY ReadyResult DEF InRange
  <2>4. /\ u \in SimTime
        /\ result' = IF Align(rule, u, period) = None
                     THEN [outcome |-> "AlignmentFailed", time |-> u]
                     ELSE [outcome |-> "Delivered", time |-> Align(rule, u, period)]
    <3>1. channel.latency \in SimTime
      BY DEF Stream, Typed, ChannelDesc
    <3>2. u \in SimTime
      BY <2>1, <2>2, <3>1 DEF InRange, SimTime, WidthAssumption
    <3>3. Wrap(u) = u
      BY <3>2, WrapInside DEF SimTime, WidthAssumption
    <3>4. result' = TransformEventTime(channel, sent', period)
      BY <2>1 DEF Stream
    <3>5. QED
      BY <3>2, <3>3, <3>4 DEF TransformEventTime, ComputeArrivalTime
  <2>5. t <= u
    <3>1. channel.latency \in SimTime /\ sent \in SimTime
      BY DEF Stream, Typed, ChannelDesc
    <3>2. QED
      BY <2>1, <3>1 DEF ready, SimTime, WidthAssumption
  <2>6. rule = "CeilToTick" => t + period <= Width /\ u + period <= Width
    BY <2>1, <2>2 DEF InRange
  <2> HIDE DEF rule, t, u
  <2>7. /\ Align(rule, t, period) # None /\ result.time = Align(rule, t, period)
        /\ Align(rule, u, period) # None /\ result'.time = Align(rule, u, period)
    BY <2>3, <2>4
  <2>8. Align(rule, t, period) <= Align(rule, u, period)
    BY <2>3, <2>4, <2>5, <2>6, <2>7, AlignKeepsOrder
  <2>9. QED
    BY <2>7, <2>8
<1>3. QED
  BY <1>1, <1>2, StreamHolds, PTL DEF Spec, NoOvertaking

\* Rounding up leaves a boundary alone and moves other instants to the next one.
LEMMA CeilMoves ==
  ASSUME WidthAssumption, NEW t \in SimTime, NEW p \in SimTime \ {0}, t + p <= Width
  PROVE  CeilToTick(t, p) = IF t % p = 0 THEN t ELSE ((t \div p) + 1) * p
<1> DEFINE q == t \div p
           r == t % p
           c == CeilToTick(t, p)
<1>1. t \in Nat /\ p \in Nat \ {0}
  BY DEF SimTime, WidthAssumption
<1>2. q \in Nat /\ r \in 0..(p - 1) /\ t = q * p + r
  BY <1>1, Division
<1>3. /\ c \in Nat /\ c % p = 0 /\ t <= c /\ c < t + p
      /\ \A b \in t..(c - 1) : b % p # 0
  <2>1. /\ c \in SimTime /\ c % p = 0 /\ t <= c /\ c < t + p
        /\ \A b \in t..(c - 1) : b % p # 0
    BY CeilExact
  <2>2. QED
    BY <2>1 DEF SimTime, WidthAssumption
<1> HIDE DEF c
<1>4. CASE t % p = 0
  <2>1. t \notin t..(c - 1)
    BY <1>3, <1>4
  <2>2. c = t
    BY <1>1, <1>3, <2>1
  <2>3. QED
    BY <1>4, <2>2 DEF c
<1>5. CASE t % p # 0
  <2> HIDE DEF q
  <2>1. (q + 1) * p = q * p + p /\ q * p \in Nat
    BY <1>1, <1>2
  <2>2. ((q + 1) * p) % p = 0 /\ \A b \in (q * p + 1)..(q * p + p - 1) : b % p # 0
    BY <1>1, <1>2, Multiples
  <2>3. r # 0
    BY <1>5
  <2> HIDE DEF r
  <2> DEFINE n == q * p + p
  <2>4. n \notin t..(c - 1)
    BY <1>3, <2>1, <2>2
  <2>5. c <= n
    BY <1>1, <1>2, <1>3, <2>1, <2>4
  <2>6. t # c
    BY <1>3, <1>5
  <2>7. c \notin (q * p + 1)..(q * p + p - 1)
    BY <1>3, <2>2
  <2>8. c = n
    BY <1>1, <1>2, <1>3, <2>1, <2>5, <2>6, <2>7
  <2>9. QED
    BY <1>5, <2>1, <2>8 DEF c, q
<1>6. QED
  BY <1>4, <1>5

\* Rounding to a tick is moving to the nearest boundary, except from the last
\* instant before the middle of an odd period.
LEMMA RoundIsNearest ==
  ASSUME WidthAssumption, NEW t \in SimTime, NEW p \in SimTime \ {0}, t + p <= Width - 1
  PROVE  IsNearest(RoundToTick(t, p), t, p) <=> (p % 2 = 1 => t % p # p \div 2)
<1> DEFINE q == t \div p
           r == t % p
           h == p \div 2
           rounded == RoundToTick(t, p)
<1>1. t \in Nat /\ p \in Nat \ {0} /\ Width \in Nat
  BY DEF SimTime, WidthAssumption
<1>2. q \in Nat /\ r \in 0..(p - 1) /\ t = q * p + r
  BY <1>1, Division
<1>3. h \in Nat /\ p = 2 * h + (p % 2) /\ p % 2 \in {0, 1}
  BY <1>1
<1>4. rounded = IF r >= h THEN Wrap(t + (p - r)) ELSE t - r
  BY <1>1 DEF RoundToTick
<1>5. IsNearest(rounded, t, p) <=>
        rounded % p = 0 /\ 2 * (rounded - t) <= p /\ 2 * (t - rounded) < p
  BY <1>1 DEF IsNearest, IsOnBoundary
<1> HIDE DEF q, r, h, rounded
<1>6. q * p \in Nat /\ (q + 1) * p = q * p + p
  BY <1>1, <1>2
<1>7. (q * p) % p = 0 /\ ((q + 1) * p) % p = 0
  BY <1>1, <1>2, Multiples
<1>8. IsNearest(rounded, t, p) <=> (p % 2 = 1 => r # h)
  <2>1. CASE r >= h
    <3>1. t + (p - r) = q * p + p
      BY <1>1, <1>2, <1>6
    <3>2. q * p + p \in SimTime
      BY <1>1, <1>2, <1>6 DEF SimTime
    <3>3. rounded = q * p + p
      BY <1>4, <2>1, <3>1, <3>2, WrapInside DEF SimTime
    <3>4. rounded % p = 0 /\ rounded - t = p - r /\ t - rounded = r - p
      BY <1>1, <1>2, <1>6, <1>7, <3>3
    <3>5. 2 * (r - p) < p /\ (2 * (p - r) <= p <=> (p % 2 = 1 => r # h))
      BY <1>1, <1>2, <1>3, <2>1
    <3>6. QED
      BY <1>5, <3>4, <3>5
  <2>2. CASE ~(r >= h)
    <3>1. rounded = q * p
      BY <1>1, <1>2, <1>4, <1>6, <2>2
    <3>2. rounded % p = 0 /\ rounded - t = 0 - r /\ t - rounded = r
      BY <1>1, <1>2, <1>6, <1>7, <3>1
    <3>3. 2 * (0 - r) <= p /\ 2 * r < p /\ r # h
      BY <1>1, <1>2, <1>3, <2>2
    <3>4. QED
      BY <1>5, <3>2, <3>3
  <2>3. QED
    BY <2>1, <2>2
<1>9. QED
  BY <1>8 DEF r, h, rounded

\* TickArithmeticAgrees: the conversions between instants, boundaries and ticks are
\* one system, for every u64 instant and period that stay clear of the width.
THEOREM TickArithmetic == Spec => []TickArithmeticAgrees
<1> USE WidthAssumption
<1>1. Stream => TickArithmeticAgrees
  <2> SUFFICES ASSUME Stream, period > 0, sent + period <= Width - 1
               PROVE  TickArithmeticAgrees
    BY DEF TickArithmeticAgrees
  <2> DEFINE t == sent
             p == period
             q == t \div p
             r == t % p
             n == NextTickBoundary(t, p)
             up == CeilToTick(t, p)
  <2>1. /\ t \in SimTime /\ p \in SimTime \ {0} /\ t \in Nat /\ p \in Nat \ {0}
        /\ Width \in Nat
    BY DEF Stream, Typed, SimTime, WidthAssumption
  <2>2. q \in Nat /\ r \in 0..(p - 1) /\ t = q * p + r
    BY <2>1, Division
  <2> HIDE DEF q, r
  <2>3. q * p \in Nat /\ (q + 1) * p = q * p + p
    BY <2>1, <2>2
  <2>4. (q + 1) * p \in SimTime
    BY <2>1, <2>2, <2>3 DEF SimTime
  <2>5. n = (q + 1) * p
    BY <2>1, <2>4, WrapInside DEF NextTickBoundary, SimTime, q
  <2>6. /\ n % p = 0 /\ n \div p = q + 1
    <3>1. ((q + 1) * p + 0) \div p = q + 1 /\ ((q + 1) * p + 0) % p = 0
      BY <2>1, <2>2, DivisionUnique
    <3>2. (q + 1) * p + 0 = (q + 1) * p
      BY <2>1, <2>2, <2>3
    <3>3. QED
      BY <2>5, <3>1, <3>2
  <2>7. t < n /\ n <= t + p
    BY <2>1, <2>2, <2>3, <2>5
  <2>8. TickNumber(n, p) = TickNumber(t, p) + 1
    BY <2>1, <2>6 DEF TickNumber, q
  <2>9. up = IF IsOnBoundary(t, p) THEN t ELSE n
    BY <2>1, <2>5, CeilMoves DEF IsOnBoundary, SimTime, q
  <2>10. PrevTickBoundary(n, p) = FloorToTick(t, p)
    <3>1. FloorToTick(t, p) = q * p
      BY <2>1 DEF FloorToTick, q
    <3>2. CASE q = 0
      <4>1. n = p /\ q * p = 0
        BY <2>1, <2>3, <2>5, <3>2
      <4>2. QED
        BY <2>1, <3>1, <4>1 DEF PrevTickBoundary
    <3>3. CASE q # 0
      <4>1. q * p >= p
        BY <2>1, <2>2, <3>3
      <4>2. ~(n <= p) /\ n - p = q * p
        BY <2>1, <2>3, <2>5, <4>1
      <4>3. QED
        BY <2>1, <2>6, <3>1, <4>2 DEF PrevTickBoundary
    <3>4. QED
      BY <3>2, <3>3
  <2>11. up + p <= Width => CeilToTick(up, p) = up
    <3>1. up \in SimTime /\ up % p = 0
      BY <2>1, CeilExact
    <3> HIDE DEF up
    <3>2. QED
      BY <2>1, <3>1, CeilMoves
  <2>12. IsNearest(RoundToTick(t, p), t, p) <=> (p % 2 = 1 => t % p # p \div 2)
    BY <2>1, RoundIsNearest
  <2> HIDE DEF n, up
  <2>13. QED
    BY <2>7, <2>8, <2>9, <2>10, <2>11, <2>12 DEF TickArithmeticAgrees, n, up
<1>2. QED
  BY <1>1, StreamHolds, PTL
===============================================================================
