\* Strict channels without latency.
SPECIFICATION Spec
CONSTANTS
  Width = 1000
  EventSubs = {2}
  TickSubs = {1}
  Period <- PeriodThree
  Nodes = {1001, 2001}
  Home <- HomeByPrefix
  IdSpan = 1000
  Custom = custom
  LateSubs = {}
  Channels <- StrictLinks
  LateChannels <- NoLinks
  MaxChannels = 2
  TimeStep = 2
  Delays = {0, 1}
  OnTimeOnly = TRUE
  MaxTime = 4
  Stamps = {0, 1, 2, 3, 4}
  MaxInjected = 1
  MaxGenerated = 2
PROPERTY StrictIsStrict
