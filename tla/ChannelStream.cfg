\* 4-bit time: every latency up to 5 and period up to 7, and messages sent up to
\* the end of the range, so that adding the period wraps.
SPECIFICATION Spec
CONSTANTS
  Width = 16
  MaxLatency = 5
  MaxPeriod = 7
INVARIANTS CeilIsLeastSafeBoundary RulesAgree TickArithmeticAgrees
PROPERTY NoOvertaking
