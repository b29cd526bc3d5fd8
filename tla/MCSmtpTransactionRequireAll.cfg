SPECIFICATION Spec
CONSTANTS
  Rcpts = 2
  Chunks = 1
  Settings <- PipelinedSettings
  MaxTxn = 1
INVARIANT RequireAllHonoured
