CONSTANTS
  Conns = {c1}
  NoConn = NoConn
  Slots = 1
  Width = 1
  MaxChunks = 1
  SizeMod = 16
SPECIFICATION FairSpec
PROPERTY InterruptShutsDown
