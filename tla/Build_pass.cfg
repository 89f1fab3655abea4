\* Two files, one remote directory, and runs of any commands, three of which
\* transfer.
CONSTANTS
  Files = {f, g}
  Long = {f, g}
  Dirs = {d}
  MaxEdits = 3
  MaxRuns = 3
SYMMETRY Symmetry
SPECIFICATION BSpec
INVARIANTS
  BInv
  BinaryIsFresh
  IInv
  ChainIsExact
\* The bounds end the model.
CHECK_DEADLOCK FALSE
