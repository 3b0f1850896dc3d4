--------------------------- MODULE ForEachParallel ---------------------------
(***************************************************************************)
(* forEachParallel(ctx, n, fn) of internal/lspserver/index.go: the worker  *)
(* pool every bulk rescan goes through.  The goroutines share one atomic   *)
(* counter; each looks at ctx, claims the next index, and calls fn with    *)
(* it.  The look and the claim are two steps, and cancellation may fall    *)
(* between them.                                                           *)
(***************************************************************************)
EXTENDS Naturals, FiniteSets

CONSTANTS N,              \* the n argument: how many calls to make
          GOMAXPROCS      \* runtime.GOMAXPROCS(0)

ASSUME PoolAssumption == N \in Nat /\ GOMAXPROCS \in Nat \ {0}

Items      == 0 .. N - 1
NumWorkers == IF GOMAXPROCS <= N THEN GOMAXPROCS ELSE N
Workers    == 1 .. NumWorkers

VARIABLES next,           \* the shared counter
          spawned,        \* goroutines the caller has started so far
          pc,             \* where each goroutine is
          item,           \* the index each goroutine last claimed
          finished,       \* indices whose fn call has returned
          cancelled,      \* ctx has been cancelled
          returned,       \* wg.Wait() has returned
          lateStarts      \* history: calls begun after the cancellation

vars == <<next, spawned, pc, item, finished, cancelled, returned, lateStarts>>

-----------------------------------------------------------------------------
(* Broken variants of the steps below, kept to show that the properties     *)
(* notice: the counter read and written without the atomic Add, the bound   *)
(* tested with > instead of >=, the return after it forgotten, ctx never    *)
(* consulted, and Wait counting only the goroutines inside fn.              *)
Claim_Torn(w) == /\ pc[w] = "claim"
                 /\ \/ next' = next + 1
                    \/ next' = next
                 /\ item' = [item EXCEPT ![w] = next]
                 /\ pc' = [pc EXCEPT ![w] = IF next >= N THEN "done" ELSE "call"]
                 /\ lateStarts' = IF cancelled /\ next < N THEN lateStarts + 1 ELSE lateStarts
                 /\ UNCHANGED <<spawned, finished, cancelled, returned>>

Claim_OffByOne(w) == /\ pc[w] = "claim"
                     /\ next' = next + 1
                     /\ item' = [item EXCEPT ![w] = next]
                     /\ pc' = [pc EXCEPT ![w] = IF next > N THEN "done" ELSE "call"]
                     /\ UNCHANGED <<spawned, finished, cancelled, returned, lateStarts>>

Claim_NoReturn(w) == /\ pc[w] = "claim"
                     /\ next' = IF next >= N THEN next ELSE next + 1
                     /\ item' = [item EXCEPT ![w] = next]
                     /\ pc' = [pc EXCEPT ![w] = IF next >= N THEN "check" ELSE "call"]
                     /\ UNCHANGED <<spawned, finished, cancelled, returned, lateStarts>>

CheckCtx_Ignored(w) == /\ pc[w] = "check"
                       /\ pc' = [pc EXCEPT ![w] = "claim"]
                       /\ UNCHANGED <<next, spawned, item, finished, cancelled, returned, lateStarts>>

WaitDone_Partial == /\ spawned = NumWorkers
                    /\ ~returned
                    /\ \A w \in Workers : pc[w] # "call"
                    /\ returned' = TRUE
                    /\ UNCHANGED <<next, spawned, pc, item, finished, cancelled, lateStarts>>
-----------------------------------------------------------------------------
Init == /\ next = 0
        /\ spawned = 0
        /\ pc = [w \in Workers |-> "unborn"]
        /\ item = [w \in Workers |-> 0]
        /\ finished = {}
        /\ cancelled \in BOOLEAN
        /\ returned = FALSE
        /\ lateStarts = 0

\* for range min(GOMAXPROCS, n) { wg.Go(...) }
Spawn == /\ spawned < NumWorkers
         /\ spawned' = spawned + 1
         /\ pc' = [pc EXCEPT ![spawned + 1] = "check"]
         /\ UNCHANGED <<next, item, finished, cancelled, returned, lateStarts>>

\* for ctx.Err() == nil
CheckCtx(w) == /\ pc[w] = "check"
               /\ pc' = [pc EXCEPT ![w] = IF cancelled THEN "done" ELSE "claim"]
               /\ UNCHANGED <<next, spawned, item, finished, cancelled, returned, lateStarts>>

\* i := int(next.Add(1)) - 1; if i >= n { return }
Claim(w) == /\ pc[w] = "claim"
            /\ next' = next + 1
            /\ item' = [item EXCEPT ![w] = next]
            /\ pc' = [pc EXCEPT ![w] = IF next >= N THEN "done" ELSE "call"]
            /\ lateStarts' = IF cancelled /\ next < N THEN lateStarts + 1 ELSE lateStarts
            /\ UNCHANGED <<spawned, finished, cancelled, returned>>

\* fn(i) returns
Call(w) == /\ pc[w] = "call"
           /\ finished' = finished \cup {item[w]}
           /\ pc' = [pc EXCEPT ![w] = "check"]
           /\ UNCHANGED <<next, spawned, item, cancelled, returned, lateStarts>>

\* wg.Wait() returns once every goroutine has
WaitDone == /\ spawned = NumWorkers
            /\ ~returned
            /\ \A w \in Workers : pc[w] = "done"
            /\ returned' = TRUE
            /\ UNCHANGED <<next, spawned, pc, item, finished, cancelled, lateStarts>>

\* Shutdown, or a second initialize, cancels the context at any moment.
Cancel == /\ ~cancelled
          /\ cancelled' = TRUE
          /\ UNCHANGED <<next, spawned, pc, item, finished, returned, lateStarts>>

Next == \/ Spawn
        \/ \E w \in Workers : CheckCtx(w) \/ Claim(w) \/ Call(w)
        \/ WaitDone
        \/ Cancel

\* The Go scheduler runs every goroutine that can run, and fn (a read and a
\* scan) returns.  Cancellation is never owed.
Fairness == /\ WF_vars(Spawn)
            /\ WF_vars(WaitDone)
            /\ \A w \in Workers : WF_vars(CheckCtx(w) \/ Claim(w) \/ Call(w))

Spec     == Init /\ [][Next]_vars
FairSpec == Spec /\ Fairness
-----------------------------------------------------------------------------
TypeOK == /\ next \in Nat
          /\ spawned \in 0 .. NumWorkers
          /\ pc \in [Workers -> {"unborn", "check", "claim", "call", "done"}]
          /\ item \in [Workers -> Nat]
          /\ finished \in SUBSET Items
          /\ cancelled \in BOOLEAN
          /\ returned \in BOOLEAN
          /\ lateStarts \in Nat

Claimed == {i \in Items : i < next}
Calling == {w \in Workers : pc[w] = "call"}
Late    == {w \in Workers : cancelled /\ pc[w] = "claim"}

\* No index is handed to two goroutines, and none is run again after it has
\* finished: the atomic Add is the only thing that keeps two scans of one
\* file apart inside a bulk rescan.
CallsDisjoint == /\ \A w \in Calling : item[w] \in Items \ finished
                 /\ \A v, w \in Calling : item[v] = item[w] => v = w

\* A return without a cancellation has covered every index, and no return
\* leaves a call behind (rebuildIndex's staleness pass reads the result of
\* every call as soon as forEachParallel returns).
ReturnIsComplete == returned => /\ Calling = {}
                                /\ cancelled \/ finished = Items
                                /\ finished = Claimed

\* "Cancelling ctx stops new calls from starting": a goroutine that looked
\* before the cancellation still makes its one claim, so at most one call per
\* goroutine begins late, however many indices are left.
LateStartsBounded == lateStarts + Cardinality(Late) <= NumWorkers

\* The inductive strengthening of CallsDisjoint and ReturnIsComplete: what
\* each goroutine's position says about the counter, and that every claimed
\* index is running or finished.
PoolInv == /\ TypeOK
           /\ \A w \in Calling : item[w] \in Claimed \ finished
           /\ \A v, w \in Calling : item[v] = item[w] => v = w
           /\ finished \subseteq Claimed
           /\ \A i \in Claimed \ finished : \E w \in Calling : item[w] = i
           /\ \A w \in Workers : pc[w] = "unborn" <=> w > spawned
           /\ \A w \in Workers : pc[w] = "done" => cancelled \/ next >= N
           /\ returned => \A w \in Workers : pc[w] = "done"

\* The pool as its callers see it.
Bulk == INSTANCE BulkCalls WITH started <- Claimed

\* Every behaviour of the pool is one of the abstract bulk call.
ImplementsBulkCall == Bulk!BulkSpec

\* Every bulk rescan comes back, cancelled or not.
EventuallyReturns == <>returned
=============================================================================
