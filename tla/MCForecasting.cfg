SPECIFICATION Spec
CHECK_DEADLOCK FALSE
CONSTANTS
  None = None
  new = new
  middle = middle
  old = old
  Newest <- MCNewest
  Review <- MCReview
  Today = 114
  Horizon = 4
  EnableProphet = TRUE
  MinPoints = 5
  Profiles <- MCProfiles
  Unit = 100
INVARIANTS
  TypeOK
  SeriesTakesBestSource
  ForecastContinuesSeries
  AnomaliesAreRare
  ServedIsTrusted
PROPERTIES
  OnlyUntrustedIsReplaced
