\* The ids of examples/mini_cache.rs (10 is routed to subgraph 1) and an owner
\* who builds the engine while it is used: one floor-aligned channel at first, a
\* second for the same pair and both subgraphs added later, or again; late
\* injections.
SPECIFICATION FairSpec
CONSTANTS
  Width = 1000
  EventSubs = {2}
  TickSubs = {1}
  Period <- PeriodTwo
  Nodes = {1, 10, 2001}
  Home <- HomeOfMiniCache
  IdSpan = 1000
  Custom = custom
  LateSubs = {1, 2}
  Channels <- FloorLink
  LateChannels <- CeilLink
  MaxChannels = 2
  TimeStep = 2
  Delays = {1}
  OnTimeOnly = FALSE
  MaxTime = 3
  Stamps = {1, 3}
  MaxInjected = 2
  MaxGenerated = 2
INVARIANTS TypeOK Lockstep NothingOverdue Conserved
PROPERTIES RunReachesGoal RunReturns ImplementsRounds
