\* Channels one unit faster than a round.
SPECIFICATION Spec
CONSTANTS
  Width = 1000
  EventSubs = {1, 2}
  TickSubs = {}
  Period <- PeriodThree
  Nodes = {1001, 2001}
  Home <- HomeByPrefix
  IdSpan = 1000
  Custom = custom
  LateSubs = {}
  Channels <- FastLinks
  LateChannels <- NoLinks
  MaxChannels = 2
  TimeStep = 2
  Delays = {0, 1}
  OnTimeOnly = TRUE
  MaxTime = 3
  Stamps = {0, 1, 2, 3}
  MaxInjected = 1
  MaxGenerated = 2
INVARIANT NothingLate
