\* Two items under fairness, controls posted to the active one, and retries that never end.
SPECIFICATION FairSpec
CONSTANTS
  a = a
  b = b
  NoId = none
  Ids <- TwoIds
  NSlots = 2
  Size = 1
  MaxAttempts = 3
  MediaMaxAttempts = 1
  Hints = {0}
  Statuses = {}
  NetErrors = {"BAD_RESPONSE"}
  LengthsNamed = {FALSE}
  ReAddWhileRemoving = FALSE
  Outside = {"post"}
  MaxSeq = 2
  MaxToken = 1
  MaxCrashes = 0
  MaxDamage = 0
PROPERTIES ControlIsTaken FirstTwoGetTheirTurn
