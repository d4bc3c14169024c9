SPECIFICATION FairSpec
CONSTANTS
  Names = {f}
  Vals = {d}
  Lf = lf
  Text = text
  Blank = ff
  Pool = 3
  MaxFiles = 1
  FlashFails = FALSE
  CompactInRecv = TRUE
  RxSize = 1
  TxSize = 3
  ReplyMax = 3
  Chunk = 2
  RecvChunk = 2
  Sizes = {0, 1}
  Commands = {"LIST", "RECV", "SEND", "DEL", "BAD"}
  Eols = {"cr"}
  Guard = 1
  MaxEdits = 1
  MaxGiveUps = 0
PROPERTIES
  EveryCommandEnds
