\* Two clients, of two builds or the same one, and three runs.
CONSTANTS
  Runs = {r, q}
  Builds = {a, b}
  Size = 2
  MaxBegins = 3
SPECIFICATION FairSpec
INVARIANTS
  IInv
  FallsBackForCause
PROPERTIES
  StartsUnlessReplaced
  BootstrapEnds
\* A client need not run again.
CHECK_DEADLOCK FALSE
