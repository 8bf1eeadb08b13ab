SPECIFICATION Spec
CONSTANTS
  None = None
  User = {u1, u2}
  Phone = {p1, p2}
  Request = {r1, r2}
  MaxAttempts = 2
  MaxCodes = 2
SYMMETRY Symmetry
INVARIANTS
  TypeOK
  OneAccountPerPhone
  ActiveMeansPhoneProved
  StatusAgreesWithVerified
  OnePendingCode
  SpentCodesAreClosed
  AttemptsLimitedWhenSequential
