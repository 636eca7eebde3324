SPECIFICATION FairSpec
CONSTANTS
  Clients = {"c1", "c2", "c3"}
  Req <- MCReq
  Crc <- MCCrc
  Fds = {1, 2}
  Addrs = {1, 2}
  SigNum = 2
  RtcNum = 2
  PipeCap = 2
  MaxCertFailures = 1
  MayHangUp = {"c1"}
  Null = null
INVARIANTS
  IntsMatchMessages
  ConnTableSound
  ReplyToAskerOrSlot
  PullOrder
PROPERTY
  ReplyOrClose
CHECK_DEADLOCK FALSE
