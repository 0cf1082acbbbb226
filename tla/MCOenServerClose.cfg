CONSTANTS
  o1 = o1
  o2 = o2
  h1 = h1
  h2 = h2
  h3 = h3
  NoOrder = NoOrder
  NoArg = NoArg
  Handlers = {h1, h2}
  Orders = {o1}
  MaxCharges = 2
  MaxSubs = 1
  MaxScript = 0
  ServerRequests <- MCCloseRequests
  ScriptKeys <- MCCloseKeys
  ScriptResponses = {}
  ScriptCodes = {}
SPECIFICATION Spec
PROPERTIES
  CloseReleasesEveryHandler
CHECK_DEADLOCK FALSE
