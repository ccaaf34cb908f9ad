SPECIFICATION Spec
CONSTANTS
  a = a
  b = b
  d1 = d1
  d2 = d2
  Names <- MCNames
  Devices <- MCDevices
  UsbDevices <- MCUsbDevices
  Lines <- MCLines
  States = {"off", "telnet"}
  DirtyNames = {a}
  MaxConfigs = 3
  MaxRestarts = 1
  MaxEnables = 1
INVARIANTS DevicesExclusive ConfigFollowed PointersFollowPorts SafeIfPlain
PROPERTIES SessionKeepsPort
CHECK_DEADLOCK FALSE
