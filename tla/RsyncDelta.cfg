CONSTANTS
  Byte = {0, 1, 2}
  BlockLen = 3
  OldFiles <- MCOldFiles
  NewFiles <- MCNewFiles
  Rewritten <- MCRewritten
SPECIFICATION Spec
INVARIANTS
  RoundTrip
  OutputBounded
  RollIsRollsum
  NoBlockMissed
\* patch ends.
CHECK_DEADLOCK FALSE
