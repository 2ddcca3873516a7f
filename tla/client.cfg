CONSTANTS
  c1 = c1
  battery = battery
  Clients = {c1}
  Senders = {battery}
  Cap = 1
  Sends <- MCSends
  Platforms = {"windows", "loginctl", "gnome", "darwin", "none"}
  MaxCommands = 2
  Systems = {"linux", "windows", "darwin"}
  MaxLevel = 2
  Thresholds = {0, 1}
  DefaultBatteryThreshold = 1
SPECIFICATION PartsSpec
INVARIANTS
  NoSilentLoss
  NotWhileLocked OneAlertPerDrain
PROPERTIES
  RegisteredAreDisconnected CutClientsEnd SilentIsEvicted ImplementsOutbox
  FlagClearsWhereAsked LowBatteryIsTold
CHECK_DEADLOCK FALSE
