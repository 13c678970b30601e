CONSTANTS
  Writers <- MCWriters
  MaxStamp = 4
SPECIFICATION LogSpec
INVARIANTS
  Unforked
