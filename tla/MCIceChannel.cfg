SPECIFICATION IceFairSpec
CONSTANTS
  a1 = a1
  a2 = a2
  NoConnection = NoConnection
  Addrs = {a1, a2}
  Priority <- MCPriority
  Rtts = {1, 2}
  InitialRtt = 3
  ReceivingTimeout = 1
  ConnectFails = 2
  ConnectTimeout = 0
  WriteTimeout = 1
  MaxOpen = 1
INVARIANTS ReportsCurrentState SelectedIsUsable
PROPERTIES SwitchImproves FailsWhenSilent
CHECK_DEADLOCK FALSE
