\* Two files, two remote directories, and runs in any sequence of modes.
CONSTANTS
  Files = {f, g}
  Long = {}
  Dirs = {d, e}
  MaxEdits = 3
  MaxRuns = 4
SYMMETRY Symmetry
SPECIFICATION Spec
INVARIANT SourcesSynced
\* The bounds end the model.
CHECK_DEADLOCK FALSE
