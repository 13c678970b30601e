CONSTANTS
  AckTasks <- MCAckTasks
  Timeout = 1
SPECIFICATION LockdownSpec
INVARIANTS
  LockdownHasReason
PROPERTIES
  StickyStays
  SilenceLocks
  StaysUnlocked
