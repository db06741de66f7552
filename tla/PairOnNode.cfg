CONSTANTS
  Worker = {w1}
  Session = {"s1"}
  NoSession = "none"
  Source = {"link"}
  NoSource = "none"
  SourceType <- MCSourceType
  SourceState <- SteadySource
  AllowedNodeIDs <- EveryNodeAllowed
  LinkDefaultNode <- SecondNodePreferred
  AccessSourceMode = "remna_or_local"
  Node = {"n1", "n2"}
  NoNode = "none"
  RegisteredRow <- OneOnlineRow
  RequestKind = {"exchange", "config"}
  SessionTTL = 1
  RefreshGrace = 0
  CredentialTTL = 3
  RenewSlack = 0
  MaxClock = 3
  MaxRequests = 2
  Connection = {"c1"}
  DaemonNode <- MCDaemonNode
  Beside <- OnBackendHost
  MaxConnections = 1
SPECIFICATION SystemSpec
CHECK_DEADLOCK FALSE
INVARIANT PairsOpenTheirNodeOnly
