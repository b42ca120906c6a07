SPECIFICATION FairSpec
CONSTANTS
  e1 = e1
  e2 = e2
  e3 = e3
  a = a
  b = b
  Events = {e1, e2, e3}
  Rcpts = {a}
  To <- ToOneEach
  Stored = {e1, e2}
  HasRelay = {e1, e2}
  QueueBatch = 1
  QueueRetries = 1
  MaxFaults = 1
  MaxDelivered = 0
  QueueKey = QueueKey
  Cron = Cron
  Nobody = Nobody
  NoItem = NoItem
PROPERTIES QueueDrains
CHECK_DEADLOCK FALSE
