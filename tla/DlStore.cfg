\* Writes that fail, and faults anywhere: power cuts, failed removals and renames.
SPECIFICATION Spec
CONSTANTS
  MaxVersion = 6
  MaxFaults = 3
CHECK_DEADLOCK FALSE
INVARIANTS CrashLeavesOldOrNew MediaHasRecord
PROPERTY LoadNeverGoesBack
