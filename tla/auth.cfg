CONSTANTS
  phone = phone
  phone2 = phone2
  tablet = tablet
  d1 = d1
  d2 = d2
  ip1 = ip1
  ip2 = ip2
  Clients = {phone, phone2, tablet}
  Devices = {d1, d2}
  IPs = {ip1, ip2}
  DeviceOf <- MCDeviceOf
  IpOf <- MCIpOf
  ChanCap = 1
  MaxAttempts = 1
  MaxRequests = 3
  Messages <- Reconnecting
  DeviceIds = {d1}
  a = a
  b = b
  noDevice = noDevice
  noSecret = noSecret
  s1 = s1
  Capacity = 6
  Rate = 2
  Cost = 3
  MaxTime = 5
  Connections = {a, b}
  NoDevice = noDevice
  MaxTokens = 2
  MaxJobs = 1
  CfgDevices = {d1}
  CfgSecrets = {noSecret, s1}
  NoSecret = noSecret
  TicksPerMinute = 2
  MinutesPerHour = 3
  HoursPerDay = 2
  Zone = 1
  MaxTicks = 15
  Schedules <- MCSchedules
  noText = noText
  t1 = t1
  MaxRuns = 2
  Texts = {noText, t1}
  NoText = noText
  ClipCap = 1
  MaxFeeds = 2
SPECIFICATION PartsSpec
INVARIANTS
  PartsTypeOK InFlightIsPending  AnswersAreBacked
  AnswersOwed QuietRevocationHolds SettledIsOnDisk
  WindowBound RunsWhenDue
  RunningIsWatched StoppedRunEnds FeedIsCurrent
PROPERTIES
  LostOnlyWhenFull ChallengesAreOneTime
CHECK_DEADLOCK FALSE
