CONSTANTS
  IntWidth = 4
  LongWidth = 6
  MaxContent = 2
  Clients = {c1, c2}
  Threads = {t1, t2}
  NoClient = NoClient
  Segments <- StreamSegments
  MaySend <- InStreams
  BufferSize = 12
  Window = 13
  Replies = {Ok}
  NoReply = NoReply
  BadRequest = BadRequest
  Faults = {"drop", "stop", "throw"}
SPECIFICATION FairSpec
INVARIANTS
  ReadInOnePiece
  HandledAsSent
  OneOperation
PROPERTIES
  ReplyKeptWhileWritten
  RequestIsAnswered
  DroppedIsClosed
  StopEnds
CHECK_DEADLOCK FALSE
