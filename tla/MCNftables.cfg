CONSTANTS
  Handlers <- MCHandlers
  Chains <- MCChains
  Bodies <- MCBodies
  Rejected <- MCRejected
  Empty = ""
  Monitor = "monitor"
SPECIFICATION Spec
INVARIANTS
  TypeOK
  Installable
  EmergencyLocks
PROPERTIES
  EditUndone
  Settles
