\* One mod name, two operations: failed renames and unloads, waits that time
\* out, tasks that run late, and a user who toggles, reloads and cancels.
SPECIFICATION Spec
CONSTANTS
  NumSlots = 1
  MaxOps = 2
  MaxFaults = 3
  MaxActs = 1
INVARIANTS
  LoadedMatchesDisk
  UserChoiceKept
CHECK_DEADLOCK FALSE
