SPECIFICATION Spec
CONSTANTS
  Threads = {t1, t2}
  Clients = {c1, c2}
  NoClient = NoClient
  Backlog = 3
  NumFds = 3
INVARIANTS NoErrorExit
CHECK_DEADLOCK FALSE
