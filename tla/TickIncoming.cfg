SPECIFICATION Spec
CONSTANTS
  Nodes = {n1}
  Others = {}
  TickPeriod = 2
  MaxTime = 3
  MaxOrder = 1
  MaxDeps = 0
  MaxIncoming = 1
  MaxFanout = 1
INVARIANT IncomingLeaveTheBuffer
