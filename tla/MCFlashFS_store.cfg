SPECIFICATION Spec
CONSTANTS
  Names = {f, g, h}
  Vals = {v}
  Blank = ff
  Junk = junk
  Absent = absent
  LogRecords = 3
  Pool = 1
  MaxFiles = 2
  MaxSize = 1
  FailEffects = {}
  FullDirRename = FALSE
  MaxGen = 2
  FailBudget = 0
SYMMETRY Symmetry
VIEW FutureView
PROPERTIES
  ImplementsStore
