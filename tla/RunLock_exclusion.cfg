\* What the comment on RunLock promises, with two runs and no stale lock.
CONSTANTS
  Processes = {r1, r2}
  NoRun = NoRun
SPECIFICATION LockSpec
INVARIANT MutualExclusion
CHECK_DEADLOCK FALSE
