SPECIFICATION Spec
CONSTANTS
  m1 = m1
  m2 = m2
  m3 = m3
  f = f
  d1 = d1
  d2 = d2
  Mids = {m1, m2, m3}
  Foreign = {}
  Domains = {d1}
  Domain = d1
  Styles = {"both", "references"}
  IdsMissing = FALSE
  AnyUnknown = FALSE
  Threadify = FALSE
  Autoreply = TRUE
  MaxEvents = 9
  MaxFaults = 0
  MaxUnknown = 1
  MaxRemoved = 0
  NoId = NoId
  NoMeta = NoMeta
  NoMail = NoMail
INVARIANTS MapsThreads AutoreplyForNewThreads
SYMMETRY Perms
CHECK_DEADLOCK FALSE
