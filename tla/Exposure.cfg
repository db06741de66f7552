CONSTANTS
  Worker = {w1, w2}
  Session = {"s1"}
  NoSession = "none"
  Source = {"sub"}
  NoSource = "none"
  SourceType <- MCSourceType
  SourceState <- TermedSource
  AllowedNodeIDs <- EveryNodeAllowed
  LinkDefaultNode <- NoPreference
  AccessSourceMode = "remna_only"
  Node = {"n1"}
  NoNode = "none"
  RegisteredRow <- OneOnlineRow
  RequestKind = {"exchange", "config", "refresh", "logout"}
  SessionTTL = 2
  RefreshGrace = 1
  CredentialTTL = 2
  RenewSlack = 0
  MaxClock = 5
  MaxRequests = 3
SPECIFICATION Spec
SYMMETRY WorkerSymmetry
CHECK_DEADLOCK FALSE
INVARIANT TypeOK
INVARIANT LeaseInv
INVARIANT BoundedExposure
INVARIANT AccessEndsWithTerm
INVARIANT LogoutShutsAccess
PROPERTY ImplementsLeasedAccess
