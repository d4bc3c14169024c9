SPECIFICATION Spec
CONSTANTS
  Names = {f}
  Vals = {d, lf}
  Lf = lf
  Text = text
  Blank = ff
  Pool = 3
  MaxFiles = 1
  FlashFails = TRUE
  CompactInRecv = TRUE
  RxSize = 2
  TxSize = 3
  ReplyMax = 3
  Chunk = 2
  RecvChunk = 2
  Sizes = {0, 3}
  Commands = {"LIST", "RECV", "SEND", "DEL", "BAD"}
  Eols = {"cr"}
  Guard = 1
  MaxEdits = 2
  MaxGiveUps = 0
INVARIANTS
  InSync
PROPERTIES
  TransfersFaithful
  ProtocolKeepsFiles
