\* Two players, one with two tokens, two slots, two saves at a time.
CONSTANTS
  ann = ann
  bob = bob
  a1 = a1
  a2 = a2
  b1 = b1
  Players = {ann, bob}
  Tokens = {a1, a2, b1}
  Owner <- TokenOwner
  Handlers = {h1}
  Clients = {c1, c2}
  Savers = {s1, s2}
  MaxVersion = 2
SPECIFICATION Spec
SYMMETRY Symmetry
INVARIANTS OwnData AcceptedCanJoin LaterLoadsAreSaved FlagFollowsSaves
PROPERTIES ProgressIsKept SavedOnLeave
CHECK_DEADLOCK FALSE
