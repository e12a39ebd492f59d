SPECIFICATION Spec
CONSTANTS
  Reporters = {r1, r2}
  LINES = 3
  MAXMSG = 2
  BATCH = 3
  MaxToggles = 2
  MaxKills = 1
  Children = {k1, k2}
  BINGO_MAXMSG = 1
  LIFE_SPAN = 2
  Customers = {c1, c2}
  PASTRY_MAXMSG = 2
  MaxSigusr1s = 3
INVARIANTS NothingLost AsleepTakesOne AllPrinted NoFreeCookies
PROPERTIES BingoEnds
CHECK_DEADLOCK FALSE
