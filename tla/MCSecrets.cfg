\* Two rotations in progress, of the password, of the key, or of one each.
CONSTANTS
  a1 = a1
  a2 = a2
  k1 = k1
  k2 = k2
  w0 = w0
  w1 = w1
  w2 = w2
  Slots <- MCSlots
  Psks <- MCPsks
  FirstPsk = k1
  Passwords <- MCPasswords
  FirstPassword = w0
  MaxCrashes = 2

SPECIFICATION Spec

INVARIANTS
  TypeOK
  KeptSurvives
  RingWhole

PROPERTIES
  ComesUp

\* The agent may end up serving without a database, its URL out of date.
CHECK_DEADLOCK FALSE
