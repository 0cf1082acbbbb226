CONSTANTS
  e1 = e1
  e2 = e2
  MerchantID = "m"
  Tolerance = 0
  Events = {e1, e2}
  Bodies <- MCBodies
  Reencodings <- MCReencodings
  Deliveries <- MCDeliveries
  MaxTime = 1
  Skews <- MCSkews
  MaxSecrets = 2
  Overlap = 0
  MaxFaults = 1
SPECIFICATION MCSpec
INVARIANTS
  TypeOK
  AnsweredEventIsKept
  RecordsAreAuthentic
  TokensComeFromBindings
  SignedIsNotRefused
  NothingIsReadAsNothing
PROPERTIES
  EveryEventIsAnswered
  RecordsAreKept
CHECK_DEADLOCK FALSE
