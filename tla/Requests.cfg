CONSTANTS
  Worker = {w1, w2}
  Session = {"s1"}
  NoSession = "none"
  Source = {"link"}
  NoSource = "none"
  SourceType <- MCSourceType
  SourceState <- SteadySource
  AllowedNodeIDs <- EveryNodeAllowed
  LinkDefaultNode <- NoPreference
  AccessSourceMode = "remna_or_local"
  Node = {"n1", "n2"}
  NoNode = "none"
  RegisteredRow <- BothSpellings
  RequestKind = {"exchange", "config", "logout"}
  SessionTTL = 2
  RefreshGrace = 1
  CredentialTTL = 1
  RenewSlack = 0
  MaxClock = 2
  MaxRequests = 4
SPECIFICATION FairSpec
CHECK_DEADLOCK FALSE
INVARIANT HandedPairsMatchStore
PROPERTY FirstCredentialRunsItsTerm
PROPERTY EveryRequestEnds
