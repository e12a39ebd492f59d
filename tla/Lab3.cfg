SPECIFICATION Spec
CONSTANTS
  Student = {s1, s2, s3}
  Throwers = {t1, t2, t3}
  Bins = {b1, b2}
  BallsCount = 3
  ArraySize = 3
  MaxInts = 4
INVARIANTS CountersExact PrintedFinal BallsConserved TotalExact ArrayInStep
CHECK_DEADLOCK FALSE
