SPECIFICATION FairSpec
CONSTANTS
  Protocols <- MCProtocols
  Peers = {"testserver", "stranger"}
  MaxSay = 4
INVARIANTS
  TypeOK
  NoMutualWait
  
  NoSpuriousFailure
  SuccessHeardScript
  ServerPingsAnswered
PROPERTIES
  EveryThreadEnds
