CONSTANTS
  o1 = o1
  c1 = c1
  c2 = c2
  NoOrder = NoOrder
  NoArg = NoArg
  Calls = {c1, c2}
  MaxAttempts = 2
  Handlers <- MCHandlers
  Orders = {o1}
  MaxCharges = 2
  MaxSubs = 1
  MaxScript = 1
  ServerRequests = {}
  CallRequests <- MCCallRequests
  ScriptCodes <- MCScriptCodes
  ScriptKeys <- MCKeys
  ScriptResponses <- MCScripts
SPECIFICATION MCSystemSpec
INVARIANTS
  SystemTypeOK
  SettledRefusalHasNoEffect
  ConfirmedWriteIsRecorded
  WriteTakesEffectOnce
  ReconciliationFindsConfirmedCharges
PROPERTIES
  LedgerKept
CHECK_DEADLOCK FALSE
