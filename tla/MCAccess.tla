------------------------------- MODULE MCAccess -------------------------------
EXTENDS Access, TLC
Interchangeable == Permutations(Request) \cup Permutations(User)
=============================================================================
