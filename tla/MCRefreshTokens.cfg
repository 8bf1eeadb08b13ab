SPECIFICATION Spec
CONSTANTS
  None = None
  User = {u1}
  Family = {f1, f2}
  Token = {t1, t2, t3}
  Request = {r1, r2}
SYMMETRY Symmetry
INVARIANTS
  TypeOK
  ExchangedTokensStayDetectable
  OneLiveToken
  EndedSessionsAreDead
  PatientClientKeepsSession
PROPERTIES
  DeathIsFinal
  ImplementsSessionChain
