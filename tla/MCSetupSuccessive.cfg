SPECIFICATION Spec
CONSTANTS
  Clients = {"c1", "c2"}
  Servers = {"v1", "v2"}
  Address <- Successive
  SilenceLimit = 0
  Repeated = {"hello", "accept", "bye"}
INVARIANTS CallAgreed PeerHasLeft
PROPERTIES OnePeer
CHECK_DEADLOCK FALSE
