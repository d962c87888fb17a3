SPECIFICATION Spec
CONSTANTS
  Sources <- MCSources
  Strings <- MCStrings
INVARIANTS
  StaysInBlock
  TreeMatches
  GetFindsListed
 
CHECK_DEADLOCK FALSE
