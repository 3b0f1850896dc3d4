----------------------------- MODULE SymbolQueries -----------------------------
(***************************************************************************)
(* What the index answers when it is asked for symbols rather than about a *)
(* place: CompleteSymbols, which walks a run of the sorted name list, and  *)
(* WorkspaceSymbols, which keeps the first few of everything in a heap     *)
(* (topk.go), both as operators on the index's maps.                       *)
(*                                                                         *)
(* A name is known by its place in the order of names.  The names with a   *)
(* prefix are neighbours in that order, and the prefix itself sorts before *)
(* them: a prefix is the first and the last place.  A query in the symbol  *)
(* picker is the set of names it matches.                                  *)
(***************************************************************************)
EXTENDS SvIndex

CONSTANTS NameOrder,          \* Names and
          URIOrder,           \* URIs, in lexical order
          TypedPrefixes,           \* pairs of places in NameOrder
          PickerQueries,            \* sets of names
          Limits              \* how many are asked for; 0: all

ASSUME SymbolAssumption == /\ ToSet(NameOrder) = Names /\ IsInjective(NameOrder)
                           /\ ToSet(URIOrder) = URIs /\ IsInjective(URIOrder)
                           /\ NameOrder \in Seq(Names) /\ URIOrder \in Seq(URIs)
                           /\ TypedPrefixes \subseteq (1 .. Len(NameOrder) + 1) \X (0 .. Len(NameOrder))
                           /\ PickerQueries \subseteq SUBSET Names
                           /\ Limits \subseteq Nat

Place(x, order) == CHOOSE i \in DOMAIN order : order[i] = x

\* By file, then place in the file.
RefBefore(r, s) == \/ Place(r.uri, URIOrder) < Place(s.uri, URIOrder)
                   \/ r.uri = s.uri /\ r.idx < s.idx

\* By name, then file, then place in the file.
Before(a, b) == \/ Place(a.name, NameOrder) < Place(b.name, NameOrder)
                \/ a.name = b.name /\ RefBefore(a.ref, b.ref)

\* One symbol per declaration of n, in the order the files were indexed in.
SymbolsOf(n) == [i \in DOMAIN byName[n] |-> [name |-> n, ref |-> byName[n][i]]]

-------------------------------------------------------------------------------
(* Completion.                                                               *)

PrimaryRef(refs) == CHOOSE r \in ToSet(refs) : \A s \in ToSet(refs) : ~RefBefore(s, r)

\* sortedNamesLocked: the list as it is kept, or made anew.
NameList ==
  LET keys   == IF names = NoList THEN {n \in Names : byName[n] # <<>>} ELSE UNION names
      places == {i \in DOMAIN NameOrder : NameOrder[i] \in keys}
  IN [i \in 1 .. Cardinality(places) |-> NameOrder[InOrder(places)[i]]]

\* CompleteSymbols: from where the prefix sorts to the first name without it.
CompleteSymbols(prefix, limit) ==
  LET list  == NameList
      place == [i \in DOMAIN list |-> Place(list[i], NameOrder)]
      start == 1 + Cardinality({i \in DOMAIN list : place[i] < prefix[1]})
      run   == {i \in start .. Len(list) : \A j \in start .. i : place[j] <= prefix[2]}
      count == Cardinality(run)
      shown == IF limit > 0 /\ count > limit THEN limit ELSE count
  IN [syms |-> [i \in 1 .. shown |-> [name |-> list[start + i - 1],
                                      ref  |-> PrimaryRef(byName[list[start + i - 1]])]],
      truncated |-> shown < count]

-------------------------------------------------------------------------------
(* topK: a heap with the largest of what is kept at its root.                *)

Swapped(h, i, j) == [h EXCEPT ![i] = h[j], ![j] = h[i]]

\* One turn of siftUp's loop, which ends where a turn changes nothing.
Rise(t) == LET parent == t.at \div 2
           IN IF t.at > 1 /\ Before(t.heap[parent], t.heap[t.at])
              THEN [heap |-> Swapped(t.heap, t.at, parent), at |-> parent] ELSE t

Rising(h, i) == LET turn[k \in 0 .. Len(h)] == IF k = 0 THEN [heap |-> h, at |-> i]
                                               ELSE Rise(turn[k - 1])
                IN turn

SiftUp(h, i) == Rising(h, i)[Len(h)].heap

Larger(h, i, j) == IF j <= Len(h) /\ Before(h[i], h[j]) THEN j ELSE i

\* Broken variant: only the left child is looked at.
LargestChild_Left(h, i) == Larger(h, i, 2 * i)

LargestChild(h, i) == Larger(h, Larger(h, i, 2 * i), 2 * i + 1)

\* One turn of siftDown's loop.
Sink(t) == LET largest == LargestChild(t.heap, t.at)
           IN IF largest = t.at THEN t
              ELSE [heap |-> Swapped(t.heap, t.at, largest), at |-> largest]

Sinking(h, i) == LET turn[k \in 0 .. Len(h)] == IF k = 0 THEN [heap |-> h, at |-> i]
                                                ELSE Sink(turn[k - 1])
                 IN turn

SiftDown(h, i) == Sinking(h, i)[Len(h)].heap

Push(top, limit, v) ==
  IF limit = 0 THEN [heap |-> Append(top.heap, v), dropped |-> top.dropped]
  ELSE IF Len(top.heap) < limit
  THEN [heap |-> SiftUp(Append(top.heap, v), Len(top.heap) + 1), dropped |-> top.dropped]
  ELSE [heap |-> IF Before(v, top.heap[1]) THEN SiftDown([top.heap EXCEPT ![1] = v], 1)
                 ELSE top.heap,
        dropped |-> TRUE]

\* The collector after the first i of the symbols.
Pushed(all, limit) == LET top[i \in 0 .. Len(all)] ==
                            IF i = 0 THEN [heap |-> <<>>, dropped |-> FALSE]
                            ELSE Push(top[i - 1], limit, all[i])
                      IN top

\* topK.sorted: symbols that compare equal are the same symbol.
SortFunc(h) ==
  LET place == [k \in DOMAIN h |->
                  Cardinality({j \in DOMAIN h : Before(h[j], h[k]) \/ (h[j] = h[k] /\ j <= k)})]
  IN [i \in DOMAIN h |-> h[CHOOSE k \in DOMAIN h : place[k] = i]]

\* The declarations of the first i of the names.
Matches(order) == LET all[i \in 0 .. Len(order)] ==
                        IF i = 0 THEN <<>> ELSE all[i - 1] \o SymbolsOf(order[i])
                  IN all

\* WorkspaceSymbols, with the names that match in the order the map yields them.
WorkspaceSymbols(order, limit) ==
  LET all == Matches(order)[Len(order)]
      top == Pushed(all, limit)[Len(all)]
  IN [syms |-> SortFunc(top.heap), truncated |-> top.dropped]

-------------------------------------------------------------------------------
\* The first limit of the symbols in S, and whether there are more.
FirstOf(S, limit) ==
  LET sorted == [i \in 1 .. Cardinality(S) |->
                   CHOOSE a \in S : Cardinality({b \in S : Before(b, a)}) = i - 1]
      shown  == IF limit = 0 \/ Len(sorted) < limit THEN Len(sorted) ELSE limit
  IN [syms |-> [i \in 1 .. shown |-> sorted[i]], truncated |-> shown < Len(sorted)]

DeclarationsOf(n) ==
  {[name |-> n, ref |-> r] :
     r \in {k \in DeclRef : k.idx \in DOMAIN files[k.uri] /\ files[k.uri][k.idx].name = n}}

\* What is shown is the front of everything declared, in one fixed order, and is
\* called incomplete exactly when there is more: whatever rescans left in the
\* cached name list, whatever order the files were indexed in and the map is
\* walked in, and however the heap had to be shuffled to stay at its limit.  A
\* symbol lost here could not be reached by typing on (handlers.go:443-451).
SymbolsExact ==
  \A limit \in Limits :
    /\ \A q \in TypedPrefixes :
         CompleteSymbols(q, limit) =
           FirstOf({FirstOf(DeclarationsOf(NameOrder[i]), 1).syms[1] :
                          i \in {j \in q[1] .. q[2] : DeclarationsOf(NameOrder[j]) # {}}}, limit)
    /\ \A Q \in PickerQueries : \A order \in SetToSeqs(Q) :
         WorkspaceSymbols(order, limit) = FirstOf(UNION {DeclarationsOf(n) : n \in Q}, limit)
===============================================================================
