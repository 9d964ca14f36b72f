\* A reload after a rollback that does not load the mods.
SPECIFICATION Spec
CONSTANTS
  NumSlots = 1
  MaxOps = 1
  MaxFaults = 1
  MaxActs = 0
INVARIANT
  RolledBackMeansReloaded
CHECK_DEADLOCK FALSE
