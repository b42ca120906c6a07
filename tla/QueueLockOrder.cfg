SPECIFICATION FairSpec
CONSTANTS
  e1 = e1
  e2 = e2
  e3 = e3
  a = a
  b = b
  Events = {e1, e2}
  Rcpts = {a, b}
  To <- ToTwoAndOne
  Stored = {}
  HasRelay = {e1, e2}
  QueueBatch = 1
  QueueRetries = 1
  MaxFaults = 0
  MaxDelivered = 0
  QueueKey = QueueKey
  Cron = Cron
  Nobody = Nobody
  NoItem = NoItem
PROPERTIES QueueDrains
CHECK_DEADLOCK FALSE
