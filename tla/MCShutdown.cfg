SPECIFICATION Spec
CONSTANTS
  SigWorkers <- MCSigWorkers
  RtcWorkers <- MCRtcWorkers
  Signals = {"SIGINT", "SIGTERM"}
  MaxSignals = 3
  MaxRequests = 1
INVARIANTS
  EndsBottomUp
  CleanWhenIdle
PROPERTIES
  SignalEndsProcess
CHECK_DEADLOCK FALSE
