SPECIFICATION Spec
CONSTANTS
  None = None
  Texts <- MCTexts
  Threshold = 75
INVARIANTS
  TypeOK
  ReviewIsShown
  EmptyIsShown
  StoredIsWellFormed
  HistoryAgreesWithBill
  PrintedRowsAreKept
