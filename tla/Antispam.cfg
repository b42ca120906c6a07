SPECIFICATION Spec
CONSTANTS
  RBLs = {r1, r2}
  Listings <- NoneOrAll
  NoResult = NoResult
  Peers = {p1, p2}
  Checked = p1
  Duration = 1
  MaxFaults = 1
  NoEntry = NoEntry
  NoMap = NoMap
INVARIANTS TypeOK ResultsAreReal DecisionIsGrounded NotBeforeItsTime
PROPERTIES RetriesGetIn
