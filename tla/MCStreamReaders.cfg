SPECIFICATION FairSpec
CONSTANTS
  Readers = {"tcp", "http", "rtsp", "hls", "mqtt"}
  Responses <- AllResponses
  Chunk = 3
  MaxResponseBytes = 7
INVARIANTS
  TypeOK
  LoopVerdictIsWhole
  RtspStopsAtTerminator
  RtspBufferBounded
  MqttTakesOnePacket
PROPERTIES
  EveryReadReturns
