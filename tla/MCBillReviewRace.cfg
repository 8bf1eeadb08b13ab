\* An extraction and a confirmation of one bill at the same time.
SPECIFICATION Spec
CHECK_DEADLOCK FALSE
CONSTANTS
  None = None
  Document = {d1}
  Request = {r1, r2}
  WithHistory = {d1}
  MaxBatches = 3
INVARIANT ConfirmedIsReviewed
