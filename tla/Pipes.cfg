SPECIFICATION Spec
CONSTANTS
  CORNERS = 4
  Messages = {0, 1}
  First = 1
  Varied <- VaryInt
  MaxKills = 1
  Children = {k1, k2}
  Parent = Parent
  MaxSigints = 4
INVARIANTS FirstCause LettersConserved
PROPERTIES RingsEnd ParentLeaves KilledAlone
CHECK_DEADLOCK FALSE
