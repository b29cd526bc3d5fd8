SPECIFICATION Spec
CONSTANTS
  Rcpts = 2
  Chunks = 1
  Settings <- WholeBdatSettings
  MaxTxn = 1
INVARIANT CleanRelease
