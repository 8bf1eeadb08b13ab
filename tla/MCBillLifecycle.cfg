\* Documents are never uploaded twice: when every one is gone the system rests.
SPECIFICATION Spec
CHECK_DEADLOCK FALSE
CONSTANTS
  None = None
  Document = {d1, d2}
  Request = {r1, r2}
  WithHistory = {d1, d2}
  MaxBatches = 4
SYMMETRY Symmetry
INVARIANTS
  TypeOK
  RowsAreRooted
  DocumentHasFile
  StrayFilesAreExplained
  FirstExtractionIsExclusive
  ReviewHolds
  NoForecastBeforeReview
  ForecastFollowsItsBill
