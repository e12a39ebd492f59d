SPECIFICATION MqSpec
CONSTANTS
  MqClients = {a, b}
  Minus1 = Minus1
  MAXMSG = 2
  MaxRequests = 2
INVARIANTS MqTypeOK InStep ClosedMeansLoop
CHECK_DEADLOCK FALSE
