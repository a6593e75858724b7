\* A tick-driven subgraph off the round's grid and two event-driven ones on three
\* workers, three rounds, channels that take exactly one round.
SPECIFICATION ParallelSpec
CONSTANTS
  Width = 1000
  EventSubs = {2, 3}
  TickSubs = {1}
  Period <- PeriodThree
  Nodes = {1001, 2001, 3001}
  Home <- HomeByPrefix
  IdSpan = 1000
  Custom = custom
  LateSubs = {}
  Channels <- SlowLinks
  LateChannels <- NoLinks
  MaxChannels = 6
  TimeStep = 2
  Delays = {0, 1}
  OnTimeOnly = TRUE
  MaxTime = 5
  Stamps = {0, 1, 2, 3, 4, 5}
  MaxInjected = 1
  MaxGenerated = 2
INVARIANTS NothingLate Conserved
PROPERTIES ImplementsRounds EachToItsSubgraph
