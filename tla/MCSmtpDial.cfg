SPECIFICATION FairSpec
CONSTANTS
  Configs <- AllConfigs
  Offers <- AllOffers
  MaxUnread = 2
INVARIANTS TypeOK CredentialsUnderTls SessionIsReady FailedTcpDialClosesSocket
PROPERTIES DialEnds
