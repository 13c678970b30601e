\* The retention is exactly 2 * Skew + MaxStall: the tightest the proof allows.
CONSTANTS
  cmd = cmd
  resigned = resigned
  ack = ack
  misaddressed = misaddressed
  n1 = n1
  n2 = n2
  Requests = {r1, r2}
  Commands <- MCCommands
  Nonces <- MCNonces
  NonceOf <- MCNonceOf
  Timestamp <- MCTimestamp
  Acks <- MCAcks
  Authentic <- MCAuthentic
  Skew = 1
  Retention = 3
  MaxStall = 1
  MaxTime = 7
SPECIFICATION Spec
INVARIANTS
  AtMostOnce
  ConsumptionsSpaced
  ConsumedWhileFresh
