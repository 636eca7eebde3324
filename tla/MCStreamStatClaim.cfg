SPECIFICATION Spec
CONSTANTS
  SeqSpace = 16
  MaxReorderingThreshold = 4
  MaxReported = 3
  Seqs = {14, 15, 0, 1, 2, 7, 8}
  FirstSeqs = {14, 1}
  MaxPackets = 6
  MaxReports = 3
  None = none
INVARIANT
  MonotoneOrExact
CHECK_DEADLOCK FALSE
