SPECIFICATION Spec
CONSTANTS
  ax = ax
  ay = ay
  ox = ox
  x = x
  y = y
  Addrs = {ax, ay, ox}
  Locals = {ax, ay}
  Invalid = Invalid
  Mailbox <- MailboxOf
  CatchAll = y
  Rooms = {r1, r2}
  BanlistAuto = TRUE
  BanlistAuth = TRUE
  Greylist = TRUE
  MaxRcpts = 3
  NoRoom = NoRoom
  NoName = NoName
INVARIANTS TypeOK AcceptedAreNoted OutgoingIsAuthenticated
PROPERTIES OkMeansHandedOver
