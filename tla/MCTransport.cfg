SPECIFICATION FairSpec
CONSTANTS
  Fingerprints = {f1, f2, bad}
  BadFingerprints = {bad}
  MaxSessions = 4
  None = none
INVARIANTS
  ReportIsCurrent
  KeysOfVerifiedSession
  HelloNotLost
PROPERTIES
  HandshakeEnds
