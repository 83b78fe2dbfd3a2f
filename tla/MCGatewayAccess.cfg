SPECIFICATION AccessSpec
CONSTANTS
  a = a
  b = b
  c = c
  Sockets = {a, b, c}
  Ips = {"ip1", "ip2"}
  IpOf <- MCIpOf
  MaxConnections = 2
  MaxPerIp = 2
  MaxUnauthenticated = 2
  MaxLeases = 1
  Names = {"m-0.rig", "m-1.rig", "m_.rig"}
  CustomerOf <- MCCustomerOf
  NameOf <- MCNameOf
  Password <- MCPassword
  SlugsOf <- MCSlugsOf
  Disableable = {"m-0", "m-0.rig"}
  Limit = 2
  None = None
  Worker = "m-0.rig"
SYMMETRY MCSymmetry
INVARIANT WithinLimits
INVARIANT NeverShutOut
INVARIANT ProtectedByPassword
CHECK_DEADLOCK FALSE
