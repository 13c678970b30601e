\* Three commands in progress, two tenants, a project and two compose files.
CONSTANTS
  a1 = a1
  a2 = a2
  a3 = a3
  t1 = t1
  t2 = t2
  p1 = p1
  v1 = v1
  v2 = v2
  Slots <- MCSlots
  Tenants <- MCTenants
  Projects <- MCProjects
  TenantOf <- MCTenantOf
  Versions <- MCVersions

SPECIFICATION Spec

INVARIANTS
  TypeOK
  RangesDisjoint
  DownStaysDown
  DeployedComesBack
