SPECIFICATION Spec
CONSTANTS
  Clients = {k1, k2, k3, k4, k5, k6}
  Req <- MCReq
  Crc <- MCCrc
  Fds = {1, 2}
  Addrs = {1, 2}
  SigNum = 1
  RtcNum = 1
  PipeCap = 1
  MaxCertFailures = 0
  MayHangUp = {}
  Null = null
SYMMETRY
  ClientSymmetry
INVARIANT
  SendersGoOn
CHECK_DEADLOCK FALSE
