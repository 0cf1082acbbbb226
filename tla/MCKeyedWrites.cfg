CONSTANTS
  r1 = r1
  Refunds = {r1}
  MaxKeys = 2
  MaxCalls = 3
  MaxSends = 2
  MaxFaults = 2
  Refusals <- MCRefusals
  Garbled <- MCGarbled
SPECIFICATION Spec
INVARIANTS
  TypeOK
  RefundedOnce
  OneRequestPerDecision
  KindsAreDocumented
PROPERTIES
  RefundIsOneWrite
  EveryRefundIsSettled
CHECK_DEADLOCK FALSE
