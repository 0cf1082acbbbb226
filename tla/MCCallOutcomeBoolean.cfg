CONSTANTS
  Methods <- MCMethods
  Statuses <- MCStatuses
  Texts <- MCTexts
SPECIFICATION Spec
INVARIANTS
  NoUsableCodeIsUnknown
CHECK_DEADLOCK FALSE
