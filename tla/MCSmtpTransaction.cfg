SPECIFICATION FairSpec
CONSTANTS
  Rcpts = 2
  Chunks = 2
  Settings <- AllSettings
  MaxTxn = 2
INVARIANTS TypeOK SuccessIsDeliveryIfTrusted CleanReleaseIfTrusted RepliesInStep RequireAllUnlessLost
PROPERTIES AbortStops TransactionEnds
