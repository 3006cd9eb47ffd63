CONSTANTS
  IntWidth = 4
  LongWidth = 6
  MaxContent = 1
  Clients = {c1}
  Threads = {t1}
  NoClient = NoClient
  Segments <- Characters
  MaySend <- InLineOrHeaders
  BufferSize = 1
  Window = 1
  Replies = {Ok}
  NoReply = NoReply
  BadRequest = BadRequest
  Faults = {}
SPECIFICATION Spec
INVARIANT
  ParsedAsSent
CHECK_DEADLOCK FALSE
