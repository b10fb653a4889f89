SPECIFICATION Spec
CONSTANTS
  Clients = {"c1", "c2"}
  Servers = {"v1"}
  Address <- Separate
  SilenceLimit = 0
  Repeated = {"hello", "bye"}
PROPERTIES NoOrphans AcceptRecovered
CHECK_DEADLOCK FALSE
