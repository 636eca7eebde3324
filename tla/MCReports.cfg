SPECIFICATION MCSpec
CONSTANTS
  SeqSpace = 16
  MaxReorderingThreshold = 4
  MaxReported = 3
  Seqs = {14, 15, 0, 1, 2, 7, 8}
  FirstSeqs = {14, 1}
  MaxPackets = 6
  MaxReports = 3
  None = none
  NtpMod = 10
  ServerNtp = 8
  PeerNtp = 7
  RttTimeout = 1
  MaxTime = 4
  MaxSrs = 2
  MaxToServer = 2
  MaxToPeer = 1
INVARIANTS
  LedgerCountsMissing
  ReportsShiftedLedger
  ClientRttIsTransit
  NackRttIsRecentMax
CHECK_DEADLOCK FALSE
