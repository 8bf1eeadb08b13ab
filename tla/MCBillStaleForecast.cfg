\* One request at a time: a second bill joins the series of the first.
SPECIFICATION Spec
CHECK_DEADLOCK FALSE
CONSTANTS
  None = None
  Document = {d1, d2}
  Request = {r1}
  WithHistory = {}
  MaxBatches = 3
INVARIANT ServedForecastIsCurrent
