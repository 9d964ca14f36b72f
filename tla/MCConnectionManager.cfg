SPECIFICATION Spec
CONSTANTS
  Servers = {s1, s2}
  Maps = {lobby, m1}
  Lobby = lobby
  MaxAttempts = 2
  MaxTyped = 2
SYMMETRY Symmetry
CHECK_DEADLOCK FALSE
INVARIANT
  AuthenticationNotStuck
PROPERTIES
  TokenKeepsItsMap
  CleanJoin
  ConsentedDownload
  LoadAuthenticated
