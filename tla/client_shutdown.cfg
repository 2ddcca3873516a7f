CONSTANTS
  c1 = c1
  c2 = c2
  battery = battery
  cron = cron
  Clients = {c1, c2}
  Senders = {battery, cron}
  Cap = 1
  Sends <- MCSends
SPECIFICATION Spec
INVARIANTS ShutdownDisconnects
CHECK_DEADLOCK FALSE
