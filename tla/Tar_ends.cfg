\* A transfer whose remote command fails.
CONSTANTS
  Sizes <- MCSizes
  PipeSize = 2
  QueueSize = 2
  Window = 2
SPECIFICATION Spec
PROPERTY TransferEnds
CHECK_DEADLOCK FALSE
