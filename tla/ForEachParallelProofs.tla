------------------------ MODULE ForEachParallelProofs ------------------------
(* PoolInv is inductive; the two safety properties of the pool follow from  *)
(* it, and with it every step of the pool is a step of the abstract bulk    *)
(* call or leaves that unchanged.                                           *)
EXTENDS ForEachParallel, FiniteSetTheorems, TLAPS

LEMMA WorkersFact == /\ NumWorkers \in Nat
                     /\ Workers \subseteq Nat \ {0}
                     /\ N > 0 => Workers # {}
<1>1. NumWorkers \in Nat /\ (N > 0 => NumWorkers >= 1)
  BY PoolAssumption DEF NumWorkers
<1>2. N > 0 => 1 \in Workers
  BY <1>1 DEF Workers
<1> QED BY <1>1, <1>2 DEF Workers

LEMMA PoolInit == Init => PoolInv
<1> SUFFICES ASSUME Init PROVE PoolInv
  OBVIOUS
<1> USE PoolAssumption, WorkersFact
<1>1. TypeOK
  <2>1. cancelled \in BOOLEAN /\ returned \in BOOLEAN
    BY Zenon DEF Init
  <2>2. /\ next \in Nat /\ lateStarts \in Nat
        /\ spawned \in 0 .. NumWorkers
        /\ pc \in [Workers -> {"unborn", "check", "claim", "call", "done"}]
        /\ item \in [Workers -> Nat]
        /\ finished \in SUBSET Items
    BY SMT DEF Init
  <2> QED BY <2>1, <2>2 DEF TypeOK
<1>2. Claimed = {} /\ Calling = {} /\ finished = {}
  BY DEF Init, Claimed, Calling, Items
<1>3. \A w \in Workers : pc[w] = "unborn" /\ w > spawned
  BY DEF Init
<1> QED BY <1>1, <1>2, <1>3 DEF Init, PoolInv

LEMMA PoolStep == PoolInv /\ [Next]_vars => PoolInv'
<1> SUFFICES ASSUME PoolInv, [Next]_vars PROVE PoolInv'
  OBVIOUS
<1> USE PoolAssumption, WorkersFact
<1>1. CASE Spawn
  BY <1>1 DEF Spawn, PoolInv, TypeOK, Items, Workers, Claimed, Calling
<1>2. ASSUME NEW w \in Workers, CheckCtx(w) PROVE PoolInv'
  BY <1>2 DEF CheckCtx, PoolInv, TypeOK, Items, Workers, Claimed, Calling
<1>3. ASSUME NEW w \in Workers, Claim(w) PROVE PoolInv'
  <2>1. TypeOK'
    BY <1>3 DEF Claim, PoolInv, TypeOK, Items, Workers
  <2>2. CASE next >= N
    BY <1>3, <2>1, <2>2 DEF Claim, PoolInv, TypeOK, Items, Workers, Claimed, Calling
  <2>3. CASE next < N
    <3>1. Claimed' = Claimed \cup {next} /\ next \notin Claimed
      BY <1>3, <2>3 DEF Claim, PoolInv, TypeOK, Items, Claimed
    <3>2. Calling' = Calling \cup {w} /\ w \notin Calling
      BY <1>3, <2>3 DEF Claim, PoolInv, TypeOK, Calling
    <3>3. item' = [item EXCEPT ![w] = next] /\ finished' = finished
      BY <1>3 DEF Claim
    <3>4. \A v \in Calling : item'[v] = item[v] /\ item[v] # next
      BY <3>1, <3>2, <3>3 DEF PoolInv, TypeOK, Calling
    <3>5. item'[w] = next
      BY <3>3 DEF PoolInv, TypeOK
    <3>6. \A v \in Calling' : item'[v] \in Claimed' \ finished'
      BY <3>1, <3>2, <3>3, <3>4, <3>5 DEF PoolInv
    <3>7. \A u, v \in Calling' : item'[u] = item'[v] => u = v
      BY <3>2, <3>4, <3>5 DEF PoolInv
    <3>8. \A i \in Claimed' \ finished' : \E v \in Calling' : item'[v] = i
      BY <3>1, <3>2, <3>3, <3>4, <3>5 DEF PoolInv
    <3>9. finished' \subseteq Claimed'
      BY <3>1, <3>3 DEF PoolInv
    <3>10. \A v \in Workers : pc'[v] = "unborn" <=> v > spawned'
      BY <1>3 DEF Claim, PoolInv, TypeOK
    <3>11. \A v \in Workers : pc'[v] = "done" => cancelled' \/ next' >= N
      BY <1>3, <2>3 DEF Claim, PoolInv, TypeOK
    <3>12. returned' => \A v \in Workers : pc'[v] = "done"
      BY <1>3 DEF Claim, PoolInv, TypeOK
    <3> QED BY <2>1, <3>6, <3>7, <3>8, <3>9, <3>10, <3>11, <3>12 DEF PoolInv
  <2> QED BY <2>2, <2>3 DEF PoolInv, TypeOK
<1>4. ASSUME NEW w \in Workers, Call(w) PROVE PoolInv'
  <2>1. Calling' = Calling \ {w} /\ w \in Calling
    BY <1>4 DEF Call, PoolInv, TypeOK, Calling
  <2>2. Claimed' = Claimed /\ item' = item /\ finished' = finished \cup {item[w]}
    BY <1>4 DEF Call, Claimed
  <2>3. TypeOK'
    BY <1>4, <2>1 DEF Call, PoolInv, TypeOK, Claimed
  <2>4. \A v \in Calling' : item'[v] \in Claimed' \ finished'
    BY <2>1, <2>2 DEF PoolInv
  <2>5. \A u, v \in Calling' : item'[u] = item'[v] => u = v
    BY <2>1, <2>2 DEF PoolInv
  <2>6. \A i \in Claimed' \ finished' : \E v \in Calling' : item'[v] = i
    BY <2>1, <2>2 DEF PoolInv
  <2>7. finished' \subseteq Claimed'
    BY <2>1, <2>2 DEF PoolInv
  <2>8. /\ \A v \in Workers : pc'[v] = "unborn" <=> v > spawned'
        /\ \A v \in Workers : pc'[v] = "done" => cancelled' \/ next' >= N
        /\ returned' => \A v \in Workers : pc'[v] = "done"
    BY <1>4 DEF Call, PoolInv, TypeOK
  <2> QED BY <2>3, <2>4, <2>5, <2>6, <2>7, <2>8 DEF PoolInv
<1>5. CASE WaitDone
  BY <1>5 DEF WaitDone, PoolInv, TypeOK, Claimed, Calling
<1>6. CASE Cancel
  BY <1>6 DEF Cancel, PoolInv, TypeOK, Claimed, Calling
<1>7. CASE UNCHANGED vars
  BY <1>7 DEF vars, PoolInv, TypeOK, Claimed, Calling
<1> QED BY <1>1, <1>2, <1>3, <1>4, <1>5, <1>6, <1>7 DEF Next

(* The pool never loses an index it handed out, whatever the number of      *)
(* goroutines and calls and wherever the cancellation falls.                *)
THEOREM PoolInvariant == Spec => []PoolInv
<1> QED BY PoolInit, PoolStep, PTL DEF Spec

(* No two goroutines of forEachParallel are ever inside fn with the same    *)
(* index, and no index is run twice.                                        *)
THEOREM DisjointCalls == Spec => []CallsDisjoint
<1>1. PoolInv => CallsDisjoint
  BY DEF PoolInv, CallsDisjoint, Claimed
<1> QED BY <1>1, PoolInvariant, PTL

LEMMA CompleteFromInv == PoolInv => ReturnIsComplete
<1> SUFFICES ASSUME PoolInv, returned PROVE /\ Calling = {}
                                            /\ cancelled \/ finished = Items
                                            /\ finished = Claimed
  BY DEF ReturnIsComplete
<1> USE PoolAssumption, WorkersFact
<1>1. Calling = {}
  BY DEF PoolInv, Calling
<1>2. finished = Claimed
  BY <1>1 DEF PoolInv
<1>3. ASSUME ~cancelled PROVE Claimed = Items
  <2>1. CASE N = 0
    BY <2>1 DEF Claimed, Items
  <2>2. CASE N > 0
    <3>1. PICK w \in Workers : pc[w] = "done"
      BY <2>2 DEF PoolInv
    <3>2. next >= N
      BY <3>1, <1>3 DEF PoolInv
    <3> QED BY <3>2 DEF Claimed, Items, PoolInv, TypeOK
  <2> QED BY <2>1, <2>2
<1> QED BY <1>1, <1>2, <1>3

(* forEachParallel returns only after every call it made has, and without a *)
(* cancellation only after it has made all n.                               *)
THEOREM CompleteReturn == Spec => []ReturnIsComplete
<1> QED BY CompleteFromInv, PoolInvariant, PTL

(* No call is late before the cancellation; after it, every late call and   *)
(* every goroutine that may still make one are different goroutines' doing. *)
LateInv == /\ LateStartsBounded
           /\ ~cancelled => lateStarts = 0

LEMMA LateFinite == \A S \in SUBSET Workers : /\ IsFiniteSet(S)
                                              /\ Cardinality(S) \in 0 .. NumWorkers
<1>1. IsFiniteSet(Workers) /\ Cardinality(Workers) = NumWorkers
  BY WorkersFact, FS_Interval DEF Workers
<1>2. ASSUME NEW S \in SUBSET Workers
      PROVE  IsFiniteSet(S) /\ Cardinality(S) \in 0 .. NumWorkers
  <2>1. IsFiniteSet(S) /\ Cardinality(S) <= Cardinality(Workers)
    BY <1>1, FS_Subset
  <2> QED BY <2>1, <1>1, FS_CardinalityType, WorkersFact
<1> QED BY <1>2

(* A step that begins no call and puts no goroutine before a late claim.    *)
LEMMA LateShrinks ==
  ASSUME PoolInv, LateInv, Late' \subseteq Late, UNCHANGED lateStarts
  PROVE  LateStartsBounded'
<1>1. Late \in SUBSET Workers
  BY DEF Late
<1>2. Cardinality(Late') <= Cardinality(Late)
  BY <1>1, LateFinite, FS_Subset
<1>3. Cardinality(Late) \in Nat /\ Cardinality(Late') \in Nat
  BY <1>1, LateFinite, WorkersFact
<1> QED BY <1>2, <1>3, WorkersFact DEF LateInv, LateStartsBounded, PoolInv, TypeOK

LEMMA LateStep == PoolInv /\ LateInv /\ [Next]_vars => LateInv'
<1> SUFFICES ASSUME PoolInv, LateInv, [Next]_vars PROVE LateInv'
  OBVIOUS
<1> USE PoolAssumption, WorkersFact
<1>1. CASE Spawn
  <2>1. Late' \subseteq Late
    BY <1>1 DEF Spawn, PoolInv, TypeOK, Late, Workers
  <2> QED BY <1>1, <2>1, LateShrinks DEF Spawn, LateInv
<1>2. ASSUME NEW w \in Workers, CheckCtx(w) PROVE LateInv'
  <2>1. Late' \subseteq Late
    BY <1>2 DEF CheckCtx, PoolInv, TypeOK, Late
  <2> QED BY <1>2, <2>1, LateShrinks DEF CheckCtx, LateInv
<1>3. ASSUME NEW w \in Workers, Claim(w) PROVE LateInv'
  <2>1. CASE cancelled
    <3>1. Late' = Late \ {w} /\ w \in Late
      BY <1>3, <2>1 DEF Claim, PoolInv, TypeOK, Late
    <3>2. Late \in SUBSET Workers
      BY DEF Late
    <3>3. Cardinality(Late') = Cardinality(Late) - 1 /\ Cardinality(Late) \in Nat
      BY <3>1, <3>2, LateFinite, FS_RemoveElement
    <3>4. lateStarts' \in {lateStarts, lateStarts + 1} /\ lateStarts \in Nat /\ cancelled'
      BY <1>3, <2>1 DEF Claim, PoolInv, TypeOK
    <3> QED BY <3>3, <3>4 DEF LateInv, LateStartsBounded
  <2>2. CASE ~cancelled
    <3>1. Late' = {} /\ lateStarts' = 0 /\ ~cancelled'
      BY <1>3, <2>2 DEF Claim, Late, LateInv
    <3> QED BY <3>1, FS_EmptySet DEF LateInv, LateStartsBounded
  <2> QED BY <2>1, <2>2
<1>4. ASSUME NEW w \in Workers, Call(w) PROVE LateInv'
  <2>1. Late' \subseteq Late
    BY <1>4 DEF Call, PoolInv, TypeOK, Late
  <2> QED BY <1>4, <2>1, LateShrinks DEF Call, LateInv
<1>5. CASE WaitDone
  <2>1. Late' \subseteq Late
    BY <1>5 DEF WaitDone, Late
  <2> QED BY <1>5, <2>1, LateShrinks DEF WaitDone, LateInv
<1>6. CASE Cancel
  <2>1. Late' \in SUBSET Workers /\ lateStarts' = 0 /\ cancelled'
    BY <1>6 DEF Cancel, LateInv, Late
  <2>2. Cardinality(Late') \in 0 .. NumWorkers
    BY <2>1, LateFinite
  <2> QED BY <2>1, <2>2 DEF LateInv, LateStartsBounded
<1>7. CASE UNCHANGED vars
  <2>1. Late' \subseteq Late
    BY <1>7 DEF vars, Late
  <2> QED BY <1>7, <2>1, LateShrinks DEF vars, LateInv
<1> QED BY <1>1, <1>2, <1>3, <1>4, <1>5, <1>6, <1>7 DEF Next

(* A cancelled forEachParallel begins at most one more call per goroutine,  *)
(* however many are left to make.                                           *)
THEOREM FewLateStarts == Spec => []LateStartsBounded
<1>1. Init => LateInv
  <2>1. ASSUME Init PROVE Late = {} /\ lateStarts = 0
    BY <2>1 DEF Init, Late
  <2> QED BY <2>1, FS_EmptySet, WorkersFact DEF LateInv, LateStartsBounded
<1>2. LateInv => LateStartsBounded
  BY DEF LateInv
<1> QED BY <1>1, <1>2, LateStep, PoolInvariant, PTL DEF Spec

LEMMA BulkStep == PoolInv /\ [Next]_vars => [Bulk!BulkNext]_(Bulk!bulkVars)
<1> SUFFICES ASSUME PoolInv, [Next]_vars
             PROVE  Bulk!BulkNext \/ UNCHANGED Bulk!bulkVars
  OBVIOUS
<1> USE PoolAssumption, WorkersFact DEF Bulk!bulkVars
<1>1. CASE Spawn
  BY <1>1 DEF Spawn, Claimed
<1>2. ASSUME NEW w \in Workers, CheckCtx(w) PROVE UNCHANGED Bulk!bulkVars
  BY <1>2 DEF CheckCtx, Claimed
<1>3. ASSUME NEW w \in Workers, Claim(w) PROVE Bulk!BulkNext \/ UNCHANGED Bulk!bulkVars
  <2>1. CASE next >= N
    BY <1>3, <2>1 DEF Claim, Claimed, Items, PoolInv, TypeOK
  <2>2. CASE next < N
    <3>1. Claimed' = Claimed \cup {next} /\ next \notin Claimed /\ next \in Items
      BY <1>3, <2>2 DEF Claim, PoolInv, TypeOK, Items, Claimed
    <3>2. ~returned
      BY <1>3 DEF Claim, PoolInv
    <3>3. Bulk!StartCall(next)
      BY <1>3, <3>1, <3>2 DEF Claim, Bulk!StartCall
    <3> QED BY <3>1, <3>3 DEF Bulk!BulkNext, Bulk!Items, Items
  <2> QED BY <2>1, <2>2 DEF PoolInv, TypeOK
<1>4. ASSUME NEW w \in Workers, Call(w) PROVE Bulk!BulkNext
  <2>1. item[w] \in Claimed \ finished
    BY <1>4 DEF Call, PoolInv, Calling
  <2>2. Bulk!FinishCall(item[w])
    BY <1>4, <2>1 DEF Call, Bulk!FinishCall, Claimed
  <2> QED BY <2>1, <2>2 DEF Bulk!BulkNext, Bulk!Items, Items, Claimed
<1>5. CASE WaitDone
  <2>1. PoolInv'
    BY <1>5, PoolStep DEF Next
  <2>2. ReturnIsComplete'
    BY <2>1, CompleteFromInv, PTL
  <2>3. Bulk!ReturnBulk
    BY <1>5, <2>2 DEF WaitDone, ReturnIsComplete, Bulk!ReturnBulk, Claimed, Items, Bulk!Items
  <2> QED BY <2>3 DEF Bulk!BulkNext
<1>6. CASE Cancel
  BY <1>6 DEF Cancel, Bulk!BulkNext, Bulk!CancelBulk, Claimed
<1>7. CASE UNCHANGED vars
  BY <1>7 DEF vars, Claimed
<1> QED BY <1>1, <1>2, <1>3, <1>4, <1>5, <1>6, <1>7 DEF Next

(* forEachParallel implements the bulk call its callers assume.             *)
THEOREM PoolRefinesBulkCall == Spec => ImplementsBulkCall
<1>1. Init => Bulk!BulkInit
  BY PoolAssumption DEF Init, Bulk!BulkInit, Claimed, Items
<1> QED BY <1>1, BulkStep, PoolInvariant, PTL DEF Spec, ImplementsBulkCall, Bulk!BulkSpec
=============================================================================
