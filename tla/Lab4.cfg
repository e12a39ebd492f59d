SPECIFICATION Spec
CONSTANTS
  N = 3
  MaxK = 5
  NBlocks = 3
INVARIANTS NoBlockRace WholeBlocks AllWritten BlocksInPlace
PROPERTIES FreshControlBlocks
CHECK_DEADLOCK FALSE
