SPECIFICATION MCSpec
CONSTANTS
  SeqSpace = 20
  CacheSize = 5
  MaxPacket = 24
  FirstSeq = 17
  KeyFrames <- MCKeyFrames
  Window = 5
  Span = 4
  None = none
  Uids = {u1}
  Answers <- MCAnswers
  MaxPushes = 2
  MaxAnswers = 2
  MaxSent = 2
INVARIANTS
  ForwardedInOrder
  GapEndsAtKeyFrame
  NothingHeldBack
  KeyFrameDelivered
  OfferReadsAsAnswer
  SentIsAnnounced
  SrFollowsPush
CHECK_DEADLOCK FALSE
