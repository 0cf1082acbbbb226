CONSTANTS
  Methods <- MCMethods
  Statuses <- MCStatuses
  Texts <- MCTexts
SPECIFICATION Spec
INVARIANTS
  SettledRefusalNeedsEvidence
  SuccessNeedsEvidence
  CatalogAgrees
\* A call has one outcome: it stops there.
CHECK_DEADLOCK FALSE
