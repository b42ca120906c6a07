SPECIFICATION Spec
CONSTANTS
  e1 = e1
  e2 = e2
  e3 = e3
  a = a
  b = b
  Events = {e1, e2}
  Rcpts = {a, b}
  To <- ToTwoAndOne
  Stored = {}
  HasRelay = {e2}
  QueueBatch = 1
  QueueRetries = 1
  MaxFaults = 1
  MaxDelivered = 4
  QueueKey = QueueKey
  Cron = Cron
  Nobody = Nobody
  NoItem = NoItem
INVARIANTS TypeOK IndexedIdsHaveItems AckedIsDurable AttemptsAreTries DuplicatesNeedFaults QueuedMailIsKept
PROPERTIES Delivers
CHECK_DEADLOCK FALSE
