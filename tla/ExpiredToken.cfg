CONSTANTS
  Worker = {w1, w2}
  Session = {"s1"}
  NoSession = "none"
  Source = {"link"}
  NoSource = "none"
  SourceType <- MCSourceType
  SourceState <- SteadySource
  AllowedNodeIDs <- EveryNodeAllowed
  LinkDefaultNode <- NoPreference
  AccessSourceMode = "local_only"
  Node = {"n1"}
  NoNode = "none"
  RegisteredRow <- OneOnlineRow
  RequestKind = {"exchange", "session", "config", "refresh", "logout"}
  SessionTTL = 1
  RefreshGrace = 2
  CredentialTTL = 2
  RenewSlack = 0
  MaxClock = 5
  MaxRequests = 3
SPECIFICATION Spec
SYMMETRY WorkerSymmetry
CHECK_DEADLOCK FALSE
INVARIANT ExpiredTokenRefused
