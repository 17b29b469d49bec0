------------------------- MODULE MCProcessDirectory -------------------------
EXTENDS ProcessDirectory, TLC

\* The processes are interchangeable.
OidSymmetry == Permutations(Oid)
=============================================================================
