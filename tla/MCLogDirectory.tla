--------------------------- MODULE MCLogDirectory ---------------------------
EXTENDS LogDirectory

CONSTANTS v1, v2

\* One object is rescinded or called again, so that it has two versions.
OneRescinded == [o \in Oid |-> IF o = 1 THEN {v1, v2} ELSE {v1}]
=============================================================================
