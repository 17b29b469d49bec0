--------------------------- MODULE MCPageCheckpoint ---------------------------
EXTENDS PageCheckpoint, TLC

\* Every home location holds a page of zeros.
AllZero == [p \in Page |-> Zero]

\* The pages are interchangeable in the model.
PageSymmetry == Permutations(Page)
=============================================================================
