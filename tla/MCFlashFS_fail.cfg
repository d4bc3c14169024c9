SPECIFICATION Spec
CONSTANTS
  Names = {f, g}
  Vals = {v}
  Blank = ff
  Junk = junk
  Absent = absent
  LogRecords = 3
  Pool = 1
  MaxFiles = 2
  MaxSize = 1
  FailEffects = {"partial", "done"}
  FullDirRename = FALSE
  MaxGen = 2
  FailBudget = 1
SYMMETRY Symmetry
VIEW FutureView
INVARIANTS
  DurableAllowed
  NewestRecordWins
