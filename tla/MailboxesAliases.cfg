SPECIFICATION FairSpec
CONSTANTS
  r1 = r1
  r2 = r2
  x = x
  y = y
  admin = admin
  Rooms = {r1, r2}
  Names = {x, y}
  Reserved = {}
  AliasLists <- SomeAliases
  MaxInFlight = 1
  MaxFaults = 0
  MaxCrashes = 0
  NoRoom = NoRoom
  NoName = NoName
  Shared = Shared
PROPERTIES AliasesRouted
