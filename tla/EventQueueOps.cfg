\* Two payloads tell FIFO from LIFO; four pushes fill one instant twice over.
SPECIFICATION Spec
CONSTANTS
  MaxTime = 2
  MaxPushes = 4
  Payloads = {p1, p2}
PROPERTY ImplementsBuckets
