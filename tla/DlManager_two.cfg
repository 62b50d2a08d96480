\* Two items in two slots, a power cut, a file shortened or a record lost meanwhile.
SPECIFICATION Spec
CONSTANTS
  a = a
  b = b
  NoId = none
  Ids <- TwoIds
  NSlots = 2
  Size = 1
  MaxAttempts = 1
  MediaMaxAttempts = 1
  Hints = {0, 1}
  Statuses = {404}
  NetErrors = {"NETWORK"}
  LengthsNamed = {FALSE}
  ReAddWhileRemoving = FALSE
  Outside = {"call", "post", "play"}
  MaxSeq = 2
  MaxToken = 1
  MaxCrashes = 1
  MaxDamage = 1
SYMMETRY Symmetric
INVARIANTS EachItemListedOnce RestartKeepsQueue
