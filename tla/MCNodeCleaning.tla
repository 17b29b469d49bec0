--------------------------- MODULE MCNodeCleaning ---------------------------
EXTENDS NodeCleaning, TLC

HomeNull == [o \in Oid |-> Null]
OidSymmetry == Permutations(Oid)
=============================================================================
