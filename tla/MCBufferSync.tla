---------------------------- MODULE MCBufferSync ----------------------------
(***************************************************************************)
(* One file is enough: an entry is written only by jobs on its own file.   *)
(* Two goroutines beside the handler are what it takes for a rescan to run *)
(* into another one and into an edit at once.                              *)
(***************************************************************************)
EXTENDS BufferSync
=============================================================================
