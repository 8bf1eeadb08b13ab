--------------------------- MODULE MCBillLifecycle ---------------------------
EXTENDS BillLifecycle, TLC

Symmetry == Permutations(Document) \cup Permutations(Request)
=============================================================================
