CONSTANTS
  Kinds <- MCKinds
  Timeouts = {1}
  Horizon = 9
SPECIFICATION Spec
INVARIANTS
  WholePingRespectsTimeout
