SPECIFICATION Spec
CONSTANTS
  Readers = {"http"}
  Responses <- AllResponses
  Chunk = 3
  MaxResponseBytes = 7
INVARIANTS
  HttpVerdictIsWhole
