CONSTANTS
  Node = {"node-1", "pl-1", "pl-2"}
  NoNode = "none"
  Country = {"PL"}
  NoCountry = "none"
  Endpoint = {"a", "b", "f"}
  NoEndpoint = "none"
  Fleet <- MCFleet
  NodeID <- MCNodeID
  Position <- MCPosition
  Syncer = {"loop"}
  Loop = "loop"
  Daemon = {"d"}
  Registration <- MCRegistration
  FileRows <- NoFileRows
  RequireProxyAlive = TRUE
  MaxEvents = 2
SPECIFICATION Spec
CHECK_DEADLOCK FALSE
INVARIANT EndpointsNotReused
