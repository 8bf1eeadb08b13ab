--------------------------- MODULE MCRefreshTokens ---------------------------
EXTENDS RefreshTokens, TLC

\* Users, sessions, tokens and slots are interchangeable.
Symmetry == Permutations(User) \cup Permutations(Family)
              \cup Permutations(Token) \cup Permutations(Request)
=============================================================================
