SPECIFICATION Spec
CONSTANTS
  m1 = m1
  m2 = m2
  m3 = m3
  f = f
  d1 = d1
  d2 = d2
  Mids = {m1, m2, m3}
  Foreign = {f}
  Domains = {d1}
  Domain = d1
  Styles = {"both", "references"}
  IdsMissing = FALSE
  AnyUnknown = TRUE
  Threadify = TRUE
  Autoreply = FALSE
  MaxEvents = 7
  MaxFaults = 1
  MaxUnknown = 1
  MaxRemoved = 1
  NoId = NoId
  NoMeta = NoMeta
  NoMail = NoMail
INVARIANTS TypeOK MapsThreads LastHasHeaders LostNeedUnknown
SYMMETRY Perms
CHECK_DEADLOCK FALSE
