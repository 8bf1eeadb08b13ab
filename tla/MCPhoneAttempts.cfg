\* Two confirmations of one user with a wrong code at the same time.
SPECIFICATION Spec
CONSTANTS
  None = None
  User = {u1}
  Phone = {p1}
  Request = {r1, r2}
  MaxAttempts = 2
  MaxCodes = 1
INVARIANT AttemptsLimited
