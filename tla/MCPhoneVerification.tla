------------------------- MODULE MCPhoneVerification -------------------------
EXTENDS PhoneVerification, TLC

Symmetry == Permutations(User) \cup Permutations(Phone) \cup Permutations(Request)
=============================================================================
