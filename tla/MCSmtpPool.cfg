SPECIFICATION FairSpec
CONSTANTS
  Calls = {c1, c2, c3, c4}
  Sessions = {s1, s2}
  NoSession = NoSession
  Size = 2
  HealthCheck = TRUE
INVARIANTS TypeOK ConnectionBound SessionInOneHand LiveIsAccurate NoLostWakeup CloseRefusesWaiters
PROPERTIES EveryCallSettles CloseReleasesConnections ImplementsFairBudget
