CONSTANTS
  phone = phone
  phone2 = phone2
  tablet = tablet
  d1 = d1
  d2 = d2
  ip1 = ip1
  ip2 = ip2
  Clients = {phone, phone2, tablet}
  Devices = {d1, d2}
  IPs = {ip1, ip2}
  DeviceOf <- MCDeviceOf
  IpOf <- MCIpOf
  ChanCap = 1
  MaxAttempts = 1
  MaxRequests = 2
  Messages <- Connected
  MaxReconnects = 2
  MaxSockets = 2
  MaxCalls = 3
  TaskIds = {1, 2, 3}
SPECIFICATION LiveSpec
INVARIANTS LeavingIsFinal RestIsTrue
PROPERTIES PromptsAreDecided ComesToRest
CHECK_DEADLOCK FALSE
