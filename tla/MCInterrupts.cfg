CONSTANTS
  RateByte <- MCRateByte
  MaxNest = 3
  MaxKeys = 2
SPECIFICATION FairSpec
INVARIANTS
  InServiceIsRunning
  NothingLost
  RtcAsAsked
PROPERTIES
  InterruptsComeBack
  ReadReturns
