------------------------------ MODULE BulkCalls ------------------------------
(***************************************************************************)
(* What the callers of forEachParallel (internal/lspserver/index.go) rely  *)
(* on: fn is called at most once per index, nothing is still running when  *)
(* the call returns, and a call that was not cancelled has covered every   *)
(* index.  How the calls are spread over goroutines is left open.          *)
(***************************************************************************)
EXTENDS Naturals

CONSTANT N                \* number of calls to make, the n of forEachParallel

Items == 0 .. N - 1

VARIABLES started,        \* indices fn has been called with
          finished,       \* indices whose call has returned
          cancelled,      \* ctx.Err() # nil
          returned        \* the bulk call has returned to its caller

bulkVars == <<started, finished, cancelled, returned>>

BulkInit == /\ started = {}
            /\ finished = {}
            /\ cancelled \in BOOLEAN   \* a caller may pass a dead context
            /\ returned = FALSE

StartCall(i) == /\ ~returned
                /\ i \notin started
                /\ started' = started \cup {i}
                /\ UNCHANGED <<finished, cancelled, returned>>

FinishCall(i) == /\ i \in started \ finished
                 /\ finished' = finished \cup {i}
                 /\ UNCHANGED <<started, cancelled, returned>>

CancelBulk == /\ cancelled' = TRUE
              /\ UNCHANGED <<started, finished, returned>>

ReturnBulk == /\ finished = started
              /\ cancelled \/ started = Items
              /\ returned' = TRUE
              /\ UNCHANGED <<started, finished, cancelled>>

BulkNext == \/ \E i \in Items : StartCall(i) \/ FinishCall(i)
            \/ CancelBulk
            \/ ReturnBulk

BulkSpec == BulkInit /\ [][BulkNext]_bulkVars
=============================================================================
