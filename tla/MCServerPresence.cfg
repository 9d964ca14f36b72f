\* Three games, two registrations each, three ids, and information that changes.
SPECIFICATION FairSpec
CONSTANTS
  Infos = {x, y}
  MaxRegistrations = 2
  MaxGames = 3
  MaxIds = 3
INVARIANTS
  RegistrationsBounded
PROPERTIES
  KeepsRegistration
  GetsListed
  ChangesAreSent
CHECK_DEADLOCK FALSE
