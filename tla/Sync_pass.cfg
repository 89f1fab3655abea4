\* One file with edits, breaks and a second sync after a first; and every pair of
\* small trees, with two syncs of which one may be cut short.
CONSTANTS
  a = a
  b = b
  x = x
  PathOrder <- MCPathOrder
  Excludes <- MCExcludes
  Staging <- MCStaging
  Blocks <- MCBlocks
  Contents <- MCContents
  Starts <- MCStarts
  VerifyMax = 1
  MaxFrame = 2
  MaxTime = 2
  MaxLocalEdits = 1
  MaxRemoteEdits = 1
  MaxBreaks = 1
  MaxSessions = 2
SPECIFICATION Spec
INVARIANTS
  TypeOK
  SuccessMirrors
  UndisturbedSucceeds
  Settled
PROPERTIES
  NoGap
  ReplicaSpec
  SyncEnds
CHECK_DEADLOCK FALSE
