CONSTANTS
  o1 = o1
  o2 = o2
  h1 = h1
  h2 = h2
  h3 = h3
  NoOrder = NoOrder
  NoArg = NoArg
  Handlers = {h1, h2, h3}
  Orders = {o1, o2}
  MaxCharges = 3
  MaxSubs = 3
  MaxScript = 2
  ServerRequests <- MCRequests
  ScriptCodes <- MCScriptCodes
  ScriptKeys <- MCScriptKeys
  ScriptResponses <- MCScriptResponses
SYMMETRY MCSymmetry
SPECIFICATION MCSpec
INVARIANTS
  TypeOK
  IndexesAgree
  ReadsSeeEarlierWrites
  SubscriptionHasItsCharge
  ScriptServedOnceInOrder
CHECK_DEADLOCK FALSE
