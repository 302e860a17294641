CONSTANTS
  Protocols = {"ws"}
  Peers = {"stranger"}
  MaxSay = 2
SPECIFICATION Spec
INVARIANTS
  PongAnswersPing
