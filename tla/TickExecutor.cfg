\* Two nodes and an unknown id; targets on and off the grid of period 2, two
\* ticks, repeated and unknown entries in explicit orders, one dependency.
SPECIFICATION FairSpec
CONSTANTS
  Nodes = {n1, n2}
  Others = {x}
  TickPeriod = 2
  MaxTime = 4
  MaxOrder = 2
  MaxDeps = 1
  MaxIncoming = 1
  MaxFanout = 1
INVARIANTS TypeOK ClockOnGrid DependenciesFirst OutputFollowsTicks
PROPERTIES RunReturns
