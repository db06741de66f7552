CONSTANTS
  Worker = {w1, w2}
  Session = {"s1"}
  NoSession = "none"
  Source = {"link"}
  NoSource = "none"
  SourceType <- MCSourceType
  SourceState <- SteadySource
  AllowedNodeIDs <- EveryNodeAllowed
  LinkDefaultNode <- NoPreference
  AccessSourceMode = "local_only"
  Node = {"n1"}
  NoNode = "none"
  RegisteredRow <- OneOnlineRow
  RequestKind = {"exchange", "config"}
  SessionTTL = 2
  RefreshGrace = 1
  CredentialTTL = 1
  RenewSlack = 0
  MaxClock = 3
  MaxRequests = 3
SPECIFICATION FairSpec
CHECK_DEADLOCK FALSE
PROPERTY CredentialRunsItsTerm
