SPECIFICATION Spec
CONSTANTS
  Readers = {"tcp"}
  Responses <- AllResponses
  Chunk = 3
  MaxResponseBytes = 7
INVARIANTS
  TcpSuccessSawByte
