SPECIFICATION Spec
CONSTANTS
  Peers = {p1}
  Users = {u1, u2}
  Sizes = {1, 3, 4}
  FragmentSize = 2
  PacketIds = {0, 1}
  MaxQueuedBytes = 5
  MaxQueuedPackets = 2
  MaxReassemblyBytes = 7
  MaxReassemblies = 2
  Lifetime = 1
  MaxMessages = 2
SYMMETRY Symmetry
CHECK_DEADLOCK FALSE
INVARIANTS
  TypeOK
  MemoryAccounted
  DeliveredAsSent
  OnlyForLocalUser
  LoginInOrder
  ShutdownLeavesNothing
