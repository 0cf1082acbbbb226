CONSTANTS
  o1 = o1
  right = right
  wrong = wrong
  Orders = {o1}
  Payloads = {right, wrong}
  Valid = {right}
  KeyLife = 2
  MaxKeys = 2
  MaxCalls = 3
  MaxTime = 3
  MaxFaults = 2
  Declines <- MCDeclines
  Refusals <- MCRefusals
  Garbled <- MCGarbled
SPECIFICATION Spec
INVARIANTS
  TypeOK
  ChargedOnce
PROPERTIES
  PaymentIsNoticed
  OrderIsOneWrite
CHECK_DEADLOCK FALSE
