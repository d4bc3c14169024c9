SPECIFICATION Spec
CONSTANTS
  Names = {f, g}
  Vals = {v, ff}
  Blank = ff
  Junk = junk
  Absent = absent
  LogRecords = 3
  Pool = 2
  MaxFiles = 2
  MaxSize = 1
  FailEffects = {}
  FullDirRename = FALSE
  MaxGen = 2
  FailBudget = 0
SYMMETRY Symmetry
VIEW FutureView
INVARIANTS
  DurableAllowed
  DirIsDurable
  ActiveOutranks
  NeverRefused
  WellFormed
