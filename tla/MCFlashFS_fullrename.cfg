SPECIFICATION Spec
CONSTANTS
  Names = {f, g}
  Vals = {v}
  Blank = ff
  Junk = junk
  Absent = absent
  LogRecords = 3
  Pool = 2
  MaxFiles = 1
  MaxSize = 1
  FailEffects = {}
  FullDirRename = TRUE
  MaxGen = 2
  FailBudget = 0
SYMMETRY Symmetry
VIEW FutureView
PROPERTIES
  BootLosesNothing
