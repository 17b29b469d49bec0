--------------------------- MODULE MCInvocation ---------------------------
EXTENDS Invocation, TLC

Perms == Permutations(Activity) \cup Permutations(Proc \ Persistent)
=============================================================================
