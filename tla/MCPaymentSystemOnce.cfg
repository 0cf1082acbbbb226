CONSTANTS
  o1 = o1
  c1 = c1
  c2 = c2
  NoOrder = NoOrder
  NoArg = NoArg
  Calls = {c1}
  MaxAttempts = 2
  Handlers <- MCHandlers
  Orders = {o1}
  MaxCharges = 2
  MaxSubs = 1
  MaxScript = 1
  ServerRequests = {}
  CallRequests <- MCLiveRequests
  ScriptCodes <- MCScriptCodes
  ScriptKeys <- MCKeys
  ScriptResponses <- MCLiveScripts
SPECIFICATION SystemSpec
INVARIANTS
  OneRequestPerCall
CHECK_DEADLOCK FALSE
