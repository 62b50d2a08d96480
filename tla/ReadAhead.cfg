\* A ring of three, or none; jitter buffer and decoder of two; one seek.
SPECIFICATION Spec
CONSTANTS
  Source <- MCSource
  RingCaps = {0, 3}
  Cap = 2
  AuBufs = 2
  Outs = 1
  High = 2
  Batch = 3
  MaxSeeks = 1
INVARIANTS StreamIntact NeverBacksUp
PROPERTY ReadsAhead
CHECK_DEADLOCK FALSE
