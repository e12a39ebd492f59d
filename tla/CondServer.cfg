SPECIFICATION Spec
CONSTANTS
  Threads = {t1, t2}
  Clients = {c1, c2, c3}
  NoClient = NoClient
  Backlog = 3
  NumFds = 3
INVARIANTS NoPhantomHandOff ServedOnce
PROPERTIES RefusedOnlyWhenBusy
CHECK_DEADLOCK FALSE
