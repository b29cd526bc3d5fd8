SPECIFICATION Spec
CONSTANTS
  Configs <- TlsConfigs
  Offers <- AllOffers
  MaxUnread = 2
INVARIANT FailedDialClosesSocket
