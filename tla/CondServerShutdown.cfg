SPECIFICATION FairSpec
CONSTANTS
  Threads = {t1, t2}
  Clients = {c1}
  NoClient = NoClient
  Backlog = 3
  NumFds = 3
PROPERTY SleepersExit
CHECK_DEADLOCK FALSE
