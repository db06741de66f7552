CONSTANTS
  Worker = {w1, w2}
  Session = {"s1"}
  NoSession = "none"
  Source = {"sub"}
  NoSource = "none"
  SourceType <- MCSourceType
  SourceState <- SwitchedSource
  AllowedNodeIDs <- EveryNodeAllowed
  LinkDefaultNode <- NoPreference
  AccessSourceMode = "remna_only"
  Node = {"n1"}
  NoNode = "none"
  RegisteredRow <- OneOnlineRow
  RequestKind = {"exchange", "session"}
  SessionTTL = 2
  RefreshGrace = 1
  CredentialTTL = 2
  RenewSlack = 0
  MaxClock = 3
  MaxRequests = 3
SPECIFICATION FairSpec
CHECK_DEADLOCK FALSE
PROPERTY FailedSourceRevokesSession
