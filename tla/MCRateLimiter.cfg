SPECIFICATION Spec
CONSTANTS
  login = login
  upload = upload
  phone = phone
  address = address
  Scope <- MCScope
  Address <- MCAddress
  Blank = Blank
  Unknown = Unknown
  None = None
  Incoming <- MCIncoming
  Thread = {t1, t2}
  Enabled = TRUE
  Limit <- MCLimit
  WindowSeconds <- MCWindowSeconds
  Hz = 2
  MaxLag = 1
INVARIANTS
  TypeOK
PROPERTIES
  LimitHolds
  RefusesOnlyAtLimit
  RetryKept
  RefusedIsAdmitted
