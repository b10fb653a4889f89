SPECIFICATION FairSpec
CONSTANTS
  IncomingCap = 2
  CapturedCap = 1
  PlaybackCap = 1
INVARIANTS HonestResult PeerTold NothingLeft NeverBlocked
PROPERTIES CallEnds
