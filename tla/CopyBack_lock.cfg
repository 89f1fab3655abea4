\* Two binaries, a build on each side, and one fault.
CONSTANTS
  a = a
  b = b
  x = x
  f = f
  g = g
  Names = {f, g}
  Blocks = {a, b, x}
  Pairs <- FilePairs
  Contents <- Builds
  OldLock <- Old
  NewLock <- New
  MaxLocalEdits = 1
  MaxRemoteEdits = 1
  MaxFaults = 1
SPECIFICATION Spec
INVARIANT CargoLockWhole
\* The copy back is over in the end.
CHECK_DEADLOCK FALSE
