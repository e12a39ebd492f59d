SPECIFICATION FairSpec
CONSTANTS
  LocalClients = {l1}
  TcpClients = {t1}
  INT32_MAX = 3
  MaxKills = 1
  NoClient = NoClient
  Requests <- MCRequests
INVARIANTS TypeOK AnswersOwnRequest AcceptedAreAnswered
PROPERTIES SigintEndsServer
CHECK_DEADLOCK FALSE
