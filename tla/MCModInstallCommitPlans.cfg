\* Two mod names, one operation: a chain of packages is committed or rolled
\* back, with two failures anywhere.
SPECIFICATION Spec
CONSTANTS
  NumSlots = 2
  MaxOps = 1
  MaxFaults = 2
  MaxActs = 0
INVARIANTS
  NothingLost
  AllOrNothing
PROPERTY
  ChangeSpec
CHECK_DEADLOCK FALSE
