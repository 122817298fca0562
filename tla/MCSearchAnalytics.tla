--------------------------- MODULE MCSearchAnalytics ---------------------------
EXTENDS SearchAnalytics

Symmetry == Permutations(Users) \cup Permutations(Queries)
=============================================================================
