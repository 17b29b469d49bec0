-------------------------- MODULE MCObjectDirectory --------------------------
EXTENDS ObjectDirectory
=============================================================================
