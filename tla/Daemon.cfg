CONSTANTS
  Worker = {w1}
  Session = {"s1"}
  NoSession = "none"
  Source = {"link", "sub"}
  NoSource = "none"
  SourceType <- MCSourceType
  SourceState <- SwitchedSource
  AllowedNodeIDs <- FirstNodeAllowed
  LinkDefaultNode <- SecondNodePreferred
  AccessSourceMode = "remna_or_local"
  Node = {"n1", "n2"}
  NoNode = "none"
  RegisteredRow <- OneOnlineRow
  RequestKind = {"exchange", "config"}
  SessionTTL = 1
  RefreshGrace = 0
  CredentialTTL = 3
  RenewSlack = 0
  MaxClock = 3
  MaxRequests = 2
  Connection = {"c1", "c2"}
  DaemonNode <- MCDaemonNode
  Beside <- OnBackendHost
  MaxConnections = 1
SPECIFICATION FairSystemSpec
CHECK_DEADLOCK FALSE
INVARIANT DaemonTypeOK
INVARIANT AdmittedInTime
INVARIANT BoundedExposure
INVARIANT TunnelsOnAllowedNodes
INVARIANT UpstreamsAreOwned
INVARIANT CredentialsOnAllowedNodes
PROPERTY TunnelsDrain
