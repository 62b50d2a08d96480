\* Nobody touches anything: three short tracks, streamed or from a drive.
SPECIFICATION Spec
CONSTANTS
  N = 3
  Units <- MCUnits
  Cap = 3
  Block = 2
  Roll = 2
  Args = {1}
  FailLimit = 2
  MaxSessions = 1
  MaxPresses = 0
  MaxShuffles = 0
INVARIANT ShownIsHeard
CHECK_DEADLOCK FALSE
