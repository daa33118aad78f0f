SPECIFICATION Spec
CONSTANTS
  Clients = {c1, c2}
  Emails = {e1, e2}
  Passwords = {p1, p2}
  KeyNames = {n1}
  MaxUsers = 2
  MaxCodes = 3
  MaxZones = 2
SYMMETRY Symmetry
INVARIANTS PendingHasCode KeysFollowOwners NoOrphans
PROPERTIES CodesDontVanish OnlyTheRightCode
CHECK_DEADLOCK FALSE
