\* Two requests of one session: a refresh commits between the SELECT and the
\* UPDATE of revoke_family.
SPECIFICATION Spec
CONSTANTS
  None = None
  User = {u1}
  Family = {f1}
  Token = {t1, t2, t3}
  Request = {r1, r2}
SYMMETRY Symmetry
INVARIANT ReportedFamilyIsRevoked
