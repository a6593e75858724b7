\* Stages without latency, with one and with two cycles, with every kind of queue,
\* under both kinds of driver.
SPECIFICATION Spec
CONSTANTS
  NumStages <- Lengths
  Latencies = {0, 1, 2}
  Depths = {0, 1, 2, Unlimited}
  Unlimited = Unlimited
  MaxItems <- ItemBounds
  MaxCycles <- CycleBounds
INVARIANTS TypeOK Accounted BusyCyclesAreWork OnTime
PROPERTY BackpressureWorks
