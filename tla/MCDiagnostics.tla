---------------------------- MODULE MCDiagnostics ----------------------------
(* A file, a header, and the pseudo-file of the command line's defines.     *)
EXTENDS Diagnostics
==============================================================================
