\* Small and large archives, with and without a compressor; anything may fail.
CONSTANTS
  Sizes <- MCSizes
  PipeSize = 2
  QueueSize = 2
  Window = 2
SPECIFICATION Spec
INVARIANTS
  IInv
  SuccessIsComplete
  NothingLost
  EofIsLast
PROPERTY EndsUnlessStuck
\* tar_sync returns.
CHECK_DEADLOCK FALSE
