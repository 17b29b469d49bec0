------------------------- MODULE MCProcessRestart -------------------------
EXTENDS ProcessRestart, TLC

Perms == Permutations(Activity) \cup Permutations(Persistent)
=============================================================================
