------------------------------- MODULE MCWatch -------------------------------
EXTENDS Watch

CONSTANTS w, h

\* A source file that includes a header; the filelist may name either.
MCHeadersOf == [f \in Files |-> IF f = w THEN {h} ELSE {}]
==============================================================================
