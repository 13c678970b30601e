CONSTANTS
  Slots <- MCSlots
  Configs <- MCConfigs
  Accepted <- MCAccepted
  MaxRedeploys = 2
  MaxRows = 2
SPECIFICATION Spec
INVARIANTS
  TypeOK
  RenamedIsAccepted
  NewestStays
  LoneUpdateTakes
PROPERTIES
  FileRestored
