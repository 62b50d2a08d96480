\* Files or streams; a ring of three units played two at a time; one command, one
\* new play order.
SPECIFICATION Spec
CONSTANTS
  N = 3
  Units <- MCUnits
  Cap = 3
  Block = 2
  Roll = 2
  Args = {1}
  FailLimit = 2
  MaxSessions = 1
  MaxPresses = 1
  MaxShuffles = 1
INVARIANTS ScreenFollowsSound VideoUntouched
PROPERTIES NothingCutOff QueueFinishes CommandsTaken
CHECK_DEADLOCK FALSE
