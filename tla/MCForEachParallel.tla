-------------------------- MODULE MCForEachParallel --------------------------
(* Three goroutines and four calls: more calls than goroutines, so indices  *)
(* are claimed in every order, and a goroutine claims more than once.       *)
EXTENDS ForEachParallel
=============================================================================
