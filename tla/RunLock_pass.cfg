\* Four runs: a crashed owner, two reclaimers that race, and a late one.
CONSTANTS
  Processes = {r1, r2, r3, r4}
  NoRun = NoRun
SYMMETRY RunSymmetry
SPECIFICATION LockSpec
INVARIANTS
  LockInv
  ExclusionUnlessRobbed
  NoOrphanLock
  AloneNeverBails
\* Every run may have ended.
CHECK_DEADLOCK FALSE
