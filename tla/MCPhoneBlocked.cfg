\* One request at a time: a code requested before the block is confirmed after.
SPECIFICATION Spec
CONSTANTS
  None = None
  User = {u1}
  Phone = {p1}
  Request = {r1}
  MaxAttempts = 2
  MaxCodes = 1
PROPERTY BlockIsKept
