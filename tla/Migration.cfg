CONSTANTS
  Process = {"api", "https-proxy"}
  Server = {"api"}
  Column = {"source_type", "refresh_token_hash"}
  NoColumn = "none"
  OldRow = {"s1", "s2"}
  NewRow = {"s3"}
  MaxCrashes = 2
SPECIFICATION FairSpec
CHECK_DEADLOCK FALSE
INVARIANT TypeOK
INVARIANT OldRowsKept
INVARIANT ServesCurrentSchema
PROPERTY AllComeUp
