SPECIFICATION Spec
CONSTANTS
  Clients = {"c1", "c2"}
  Req <- MCReq
  Crc <- MCCrc
  Fds = {1, 2}
  Addrs = {1, 2}
  SigNum = 1
  RtcNum = 2
  PipeCap = 4
  MaxCertFailures = 0
  MayHangUp = {"c1"}
  Null = null
INVARIANT
  ReplyToAsker
CHECK_DEADLOCK FALSE
