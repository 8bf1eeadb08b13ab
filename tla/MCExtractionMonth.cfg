SPECIFICATION Spec
CONSTANTS
  None = None
  Texts <- MCTexts
  Threshold = 75
INVARIANTS
  HistoryConsumptionIsOfItsMonth
