CONSTANTS
  Writers <- MCWriters
  MaxStamp = 2
  Ws = "ws"
  Commands <- MCCommands
  Acks <- MCAcks
  Genuine <- MCGenuine
  Limit = 2
  Window = 2
  MaxTime = 4
  MaxLockdowns = 1
SPECIFICATION Spec
INVARIANTS
  TypeOK
  ChainRooted
  AnswerTellsRow
  EffectsAccountedFor
  LessThanTwiceLimit
PROPERTIES
  LockdownHolds
