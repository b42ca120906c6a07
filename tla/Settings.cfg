SPECIFICATION Spec
CONSTANTS
  alice = alice
  root = root
  People = {alice, root}
  Admins = {root}
  Local = {alice, root}
  Patterns <- OpenOrClosed
  Senders = {s1, s2}
  Legacy = {s1}
  Addrs = {a1, a2}
  BannedBefore = {a1}
  Jobs = {j1, j2}
  MaxCommands = 2
  MaxFaults = 3
  NoMap = NoMap
INVARIANTS TypeOK ConfirmedStay AccessIsKept
SYMMETRY Perms
CHECK_DEADLOCK FALSE
