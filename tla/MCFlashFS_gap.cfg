SPECIFICATION Spec
CONSTANTS
  Names = {f, g}
  Vals = {v}
  Blank = ff
  Junk = junk
  Absent = absent
  LogRecords = 3
  Pool = 2
  MaxFiles = 2
  MaxSize = 1
  FailEffects = {"nothing"}
  FullDirRename = FALSE
  MaxGen = 2
  FailBudget = 1
SYMMETRY Symmetry
VIEW FutureView
INVARIANTS
  NewestRecordWins
