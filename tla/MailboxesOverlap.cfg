SPECIFICATION Spec
CONSTANTS
  r1 = r1
  r2 = r2
  x = x
  y = y
  admin = admin
  Rooms = {r1, r2}
  Names = {x, y, admin}
  Reserved = {admin}
  AliasLists <- NoAliases
  MaxInFlight = 2
  MaxFaults = 0
  MaxCrashes = 1
  NoRoom = NoRoom
  NoName = NoName
  Shared = Shared
INVARIANTS TypeOK OneRoomPerMailbox RoutedAsConfigured
PROPERTIES GivesMailboxes
SYMMETRY Perms
