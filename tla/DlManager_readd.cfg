\* An item added again while its removal is pending.
SPECIFICATION Spec
CONSTANTS
  a = a
  b = b
  NoId = none
  Ids <- OneId
  NSlots = 2
  Size = 1
  MaxAttempts = 2
  MediaMaxAttempts = 2
  Hints = {0, 1}
  Statuses = {500}
  NetErrors = {"NETWORK"}
  LengthsNamed = {TRUE}
  ReAddWhileRemoving = TRUE
  Outside = {"call", "post"}
  MaxSeq = 2
  MaxToken = 1
  MaxCrashes = 0
  MaxDamage = 0
INVARIANT AcceptedIsOnDisk
