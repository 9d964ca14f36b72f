\* Three attempts, of which two may be stale, and answers of every size up
\* to two mods.
SPECIFICATION Spec
CONSTANTS
  Attempts = {first, second, third}
  MaxMods = 2
  NoPacket = NoPacket
  Script = Script
  Nobody = Nobody
SYMMETRY AttemptSymmetry
INVARIANTS
  WellFormedLists
  CompleteWhenAnswered
  NoOrphanListening
PROPERTY
  ClosedListFrozen
