\* Twenty-three networks, three source events at equal or different times, in
\* time or late.
SPECIFICATION FairNetSpec
CONSTANTS
  LocalNodes = {"a", "b", "c"}
  RemoteNodes = {"s", "elsewhere"}
  Source = "s"
  Custom = custom
  Nobody = nobody
  MaxSample = 2
  Delays = {0, 1, 2}
  Networks <- AllNetworks
  MaxTime = 2
  MaxScheduled = 3
  MaxGenerated = 20
  MaxFanout = 1
INVARIANTS CountersAgree SampledAndNumbered LatencyStatistics
PROPERTIES ImplementsExecutor LoopsReturn
