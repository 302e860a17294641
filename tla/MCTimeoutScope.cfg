CONSTANTS
  Kinds <- MCKinds
  Timeouts = {0, 1, 3}
  Horizon = 9
SPECIFICATION Spec
INVARIANTS
  TypeOK
  BoundedPings
  HandshakeCapped
