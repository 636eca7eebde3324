SPECIFICATION FairSpec
CONSTANTS
  SeqSpace = 16
  MaxNackRetries = 2
  MaxPacketAge = 3
  MaxNackPackets = 2
  DefaultRtt = 1
  Rtts = {0, 1}
  MaxRtt = 1
  MaxWait = 2
  FirstSeq = 13
  MaxAdvance = 5
  MaxJump = 4
  MaxLate = 2
INVARIANTS
  ListedIsMissing
  GapsListed
PROPERTY
  RepeatsAfterRtt
  MissingResolved
