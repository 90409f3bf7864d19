CONSTANTS
  Conns = {c1, c2, c3}
  NoConn = NoConn
  Slots = 1
  Width = 1
  MaxChunks = 1
  SizeMod = 16
SPECIFICATION FairSpec
INVARIANT TypeOK
INVARIANT ExitServesEveryone
INVARIANT EchoComplete
PROPERTY AcceptedIsClosed
PROPERTY InterruptSeenOutsideAccept
