\* One item, every gate, a power cut, sign-ins and revocation.
SPECIFICATION Spec
CONSTANTS
  a = a
  b = b
  NoId = none
  Ids <- OneId
  NSlots = 1
  Size = 2
  MaxAttempts = 2
  MediaMaxAttempts = 1
  Hints = {0, 2}
  Statuses = {204, 404, 500}
  NetErrors = {"NETWORK"}
  LengthsNamed = {TRUE, FALSE}
  ReAddWhileRemoving = FALSE
  Outside = {"call", "post", "space", "stop", "signout"}
  MaxSeq = 1
  MaxToken = 2
  MaxCrashes = 1
  MaxDamage = 0
INVARIANTS TypeOK OneTransfer RemovedIsGone CompletedIsWhole DoneIsOnDisk RetriesAreBounded
PROPERTIES CompletedIsFinal PartialIsKept StopIsObeyed
