\* Blending: two front slots in use; one seek at any moment.
SPECIFICATION Spec
CONSTANTS
  Cap = 5
  FrontLocked = 2
  Disc = 5
  Streams <- MCStreams
  MaxSeeks = 1
  FlipAtOnce = TRUE
  CopyEnds = TRUE
INVARIANTS SlotsNotRaced TextureIsRetired StagedIsFront QueueInOrder
PROPERTIES NeverBack QueueDrains
