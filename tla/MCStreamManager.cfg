SPECIFICATION FairSpec
CONSTANTS
  Uids = {u1, u2}
  Names = {"room"}
  Modes = {"transparent", "live"}
  ReportedStates = {"kNew", "kConnected", "kFailed"}
  MaxStreams = 3
  None = none
INVARIANTS
  NoDanglingEntry
  NoLeak
  FanOut
PROPERTY
  UnconnectedIsReaped
CHECK_DEADLOCK FALSE
