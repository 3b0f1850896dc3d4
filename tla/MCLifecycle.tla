----------------------------- MODULE MCLifecycle -----------------------------
EXTENDS Lifecycle

CONSTANTS a, b

\* The first edition of the filelists names both files, the second drops one
\* and the third brings it back.
MCView == [e \in Editions |-> IF e = 2 THEN {a} ELSE {a, b}]
==============================================================================
