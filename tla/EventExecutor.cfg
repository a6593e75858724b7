\* One local and one remote node; zero-delay answers (pass-through nodes), late
\* arrivals, equal times and fan-out 2 all occur within these bounds.
SPECIFICATION FairSpec
CONSTANTS
  LocalNodes = {n1}
  RemoteNodes = {n2}
  Custom = custom
  Delays = {0, 1}
  MaxTime = 2
  MaxScheduled = 2
  MaxGenerated = 2
  MaxFanout = 2
INVARIANTS TypeOK Accounted NothingOverdue NoTimeTravel
PROPERTIES ProcessedInOrder ClockReachesTarget RunReturns
