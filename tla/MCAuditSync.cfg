CONSTANTS
  Writers <- TwoWriters
  MaxStamp = 3
  BatchSize = 2
  MaxRestores = 1
SPECIFICATION Spec
INVARIANTS
  ForkedOnlyByRace
  NoRowSkipped
PROPERTIES
  IsReplica
  PendingArrives
