SPECIFICATION FairSpec
CONSTANTS
  Clients = {c1}
  Strangers = {s1, s2}
  MAXADDR = 2
  MaxTries = 3
  MaxLen = 3
PROPERTIES PrintedInOrder ImplementsStopAndWait ClientEnds
CHECK_DEADLOCK FALSE
