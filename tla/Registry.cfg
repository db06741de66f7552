CONSTANTS
  Node = {"node-1", "pl-1", "pl-2"}
  NoNode = "none"
  Country = {"PL"}
  NoCountry = "none"
  Endpoint = {"a", "b", "f"}
  NoEndpoint = "none"
  Fleet <- MCFleet
  NodeID <- MCNodeID
  Position <- MCPosition
  Syncer = {"loop", "forced"}
  Loop = "loop"
  Daemon = {"d"}
  Registration <- MCRegistration
  FileRows <- MCFileRows
  RequireProxyAlive = TRUE
  MaxEvents = 2
SPECIFICATION FairSpec
INVARIANT TypeOK
INVARIANT OneDefault
INVARIANT OfferedWasProbed
INVARIANT MatchesFairly
PROPERTY WritesAreTableChanges
PROPERTY SettlesOnLiveNodes
