SPECIFICATION Spec
CONSTANTS
  r1 = r1
  r2 = r2
  x = x
  y = y
  admin = admin
  Rooms = {r1, r2}
  Names = {x, admin}
  Reserved = {admin}
  AliasLists <- OneAlias
  MaxInFlight = 2
  MaxFaults = 1
  MaxCrashes = 1
  NoRoom = NoRoom
  NoName = NoName
  Shared = Shared
INVARIANTS OnlyClaimedNames RoutedAsConfigured
SYMMETRY Perms
