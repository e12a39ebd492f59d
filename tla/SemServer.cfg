SPECIFICATION Spec
CONSTANTS
  Clients = {c1, c2, c3}
  FS_NUM = 2
  TIMEOUT = 15
  Times = {2, 20, 65535}
INVARIANTS SlotsConserved DeniedMeansRefused
PROPERTY RefusedOnlyWhenFull
CHECK_DEADLOCK FALSE
