SPECIFICATION Spec
CONSTANTS
  Pairs = {c1, c2}
  MaxUpdates = 2
  Broken = Broken
  NoConfig = NoConfig
  NoListener = NoListener
INVARIANTS TypeOK ListenerIsCurrent FilesAreLoaded TLSPortHasCertificates
PROPERTIES FailureEnds
CHECK_DEADLOCK FALSE
