SPECIFICATION Spec
CONSTANTS
  Calls = {c1, c2}
  Sessions = {s1}
  NoSession = NoSession
  Size = 1
  HealthCheck = TRUE
PROPERTY NoHandoutAfterClose
