SPECIFICATION FairSpec
CONSTANTS
  Names = {f}
  Vals = {d}
  Lf = lf
  Text = text
  Blank = ff
  Pool = 2
  MaxFiles = 1
  FlashFails = FALSE
  CompactInRecv = TRUE
  RxSize = 1
  TxSize = 4
  ReplyMax = 3
  Chunk = 2
  RecvChunk = 1
  Sizes = {0, 2}
  Commands = {"SEND", "RECV", "DEL"}
  Eols = {"cr"}
  Guard = 1
  MaxEdits = 1
  MaxGiveUps = 1
INVARIANTS
  RepliesWhole
PROPERTIES
  AlwaysEnds
