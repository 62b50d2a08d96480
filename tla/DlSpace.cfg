\* A buffer of 4, read in full or in part, with a gate every 3 units.
SPECIFICATION Spec
CONSTANTS
  Reserve = 10
  Check = 3
  Buf = 4
  RecvMin = 1
  Est = 12
  Frees <- FreeChoices
  Totals <- TotalChoices
CONSTRAINT MaxFile
INVARIANTS ReserveNearlyKept
