CONSTANTS
  maxInt64 = 7
  Second = 2
  Purchases <- MCPurchases
  Headers <- MCHeaders
  Now = 1
  Numbers <- MCNumbers
  Strings <- MCStrings
  Amounts <- MCAmounts
  Plain <- MCPlain
  Responses <- MCResponses
  Payloads <- MCPayloads
  Orders <- MCOrders
SPECIFICATION MCSpec
INVARIANTS
  AcceptsExactTotals
  DelaysAreHonoured
  TextIsJavaScripts
  NothingIsMistakenForNothing
  NothingSecretSurvives
  ReferencesSurvive
CHECK_DEADLOCK FALSE
