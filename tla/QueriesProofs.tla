----------------------------- MODULE QueriesProofs -----------------------------
(***************************************************************************)
(* What holds of the queries in any workspace: the two paths of an         *)
(* occurrence query agree whatever the files hold, well formed or half     *)
(* typed; jumps, hover and the accesses to fields, in texts that parse.    *)
(***************************************************************************)
EXTENDS Queries, FiniteSetTheorems, TLAPS

-------------------------------------------------------------------------------
(* Texts.                                                                    *)

\* The positions of a text are numbers, and an include leads to a file.
Texts == \A u \in URIs : /\ DOMAIN text[u] \subseteq Nat
                         /\ \A i \in DOMAIN text[u] : text[u][i].t = "include" => text[u][i].of \in URIs

LEMMA TextsStep == Texts /\ [Next]_vars => Texts'
<1> SUFFICES ASSUME Texts, [Next]_vars, NEW u \in URIs
             PROVE  /\ DOMAIN text'[u] \subseteq Nat
                    /\ \A i \in DOMAIN text'[u] : text'[u][i].t = "include" => text'[u][i].of \in URIs
  BY DEF Texts
<1>1. ASSUME NEW at, Rename(at) PROVE DOMAIN text'[u] = DOMAIN text[u]
  BY <1>1 DEF Rename
<1>2. ASSUME NEW at, Rename(at), NEW i \in DOMAIN text[u]
      PROVE  text'[u][i].t = text[u][i].t /\ text'[u][i].of = text[u][i].of
  BY <1>2 DEF Rename
<1>3. CASE UNCHANGED vars
  BY <1>3 DEF vars, Texts
<1> QED BY <1>1, <1>2, <1>3 DEF Next, Texts

LEMMA TextsInit == Init => Texts
<1> SUFFICES ASSUME Init, NEW u \in URIs
             PROVE  /\ DOMAIN text[u] \subseteq Nat
                    /\ \A i \in DOMAIN text[u] : text[u][i].t = "include" => text[u][i].of \in URIs
  BY DEF Texts
<1>1. PICK w \in Workspaces : text = [v \in URIs |-> Scanned(w[v])]
  BY DEF Init
<1>2. DOMAIN text[u] = DOMAIN w[u]
  BY <1>1 DEF Scanned
<1>3. ASSUME NEW i \in DOMAIN w[u] PROVE text[u][i].t = w[u][i].t /\ text[u][i].of = w[u][i].of
  BY <1>1 DEF Scanned
<1> QED BY <1>2, <1>3, QueriesAssumption

-------------------------------------------------------------------------------
(* Every lookup answers declarations of the name, in files of the workspace. *)

DeclaredAs(refs, w) == \A r \in refs : /\ r.uri \in URIs /\ r.idx \in Nat
                                       /\ ItemOf(r).name = w /\ r \in Refs(w)

LEMMA Least == ASSUME NEW T \in SUBSET Nat, T # {}
               PROVE  \E m \in T : \A k \in T : m <= k
<1>1. PICK m \in T : \A k \in T : <<k, m>> \notin OpToRel(<, Nat)
  BY NatLessThanWellFounded, WFMin
<1>2. \A k \in T : ~ (k < m)
  BY <1>1 DEF OpToRel
<1> QED BY <1>2

LEMMA StepsIs ==
  ASSUME NEW files, NEW map, NEW N, N = Cardinality(URIs), N \in Nat
  PROVE  Steps(files, map) =
           [n \in 0 .. N |-> IF n = 0 THEN files
                             ELSE LET before == Steps(files, map)[n - 1]
                                  IN before \union UNION {map[g] : g \in before}]
<1> DEFINE a(h, n) == IF n = 0 THEN files ELSE h[n - 1] \union UNION {map[g] : g \in h[n - 1]}
           T == {m \in Nat : ~ \E h : h = [n \in 0 .. m |-> a(h, n)]}
<1>1. T \subseteq Nat
  OBVIOUS
<1>2. T = {}
  <2> SUFFICES ASSUME T # {} PROVE FALSE
    OBVIOUS
  <2>1. PICK m \in T : \A k \in T : m <= k
    BY <1>1, Least
  <2>2. CASE m = 0
    <3> DEFINE h == [n \in 0 .. 0 |-> a(<<>>, n)]
    <3>1. h = [n \in 0 .. 0 |-> a(h, n)]
      OBVIOUS
    <3> QED BY <2>1, <2>2, <3>1
  <2>3. CASE m # 0
    <3>1. PICK h : h = [n \in 0 .. m - 1 |-> a(h, n)]
      <4> HIDE DEF T
      <4>1. m - 1 \in Nat /\ m - 1 \notin T
        BY <1>1, <2>1, <2>3
      <4> USE DEF T
      <4> QED BY <4>1, Zenon
    <3> DEFINE f == [n \in 0 .. m |-> IF n = m THEN a(h, m) ELSE h[n]]
    <3>2. f = [n \in 0 .. m |-> a(f, n)]
      <4>1. ASSUME NEW n \in 0 .. m PROVE f[n] = a(f, n)
        <5>1. CASE n = m
          BY <5>1, <2>3
        <5>2. CASE n # m
          <6>1. f[n] = a(h, n)
            <7> HIDE DEF a
            <7>1. f[n] = h[n] /\ n \in 0 .. m - 1
              BY <5>2, <2>1, <1>1
            <7> QED BY <7>1, <3>1
          <6>2. n # 0 => f[n - 1] = h[n - 1]
            BY <5>2, <2>1, <1>1
          <6> QED BY <6>1, <6>2
        <5> QED BY <5>1, <5>2
      <4> HIDE DEF a
      <4> QED BY <4>1
    <3> QED BY <2>1, <3>2
  <2> QED BY <2>2, <2>3
<1>3. \E h : h = [n \in 0 .. N |-> a(h, n)]
  <2>1. N \notin T
    BY <1>2, Zenon
  <2> HIDE DEF a
  <2> QED BY <2>1, Zenon
<1> QED BY <1>3 DEF Steps

\* However many links are followed, they lead to where each of them leads.
LEMMA ReachStays ==
  ASSUME NEW U, NEW files \in SUBSET U, NEW map, \A u \in U : map[u] \subseteq U
  PROVE  Reach(files, map) \subseteq U
<1> DEFINE N == Cardinality(URIs)
           s == Steps(files, map)
           T == {n \in 0 .. N : ~ (s[n] \subseteq U)}
<1>1. N \in Nat
  BY ResolveAssumption, FS_CardinalityType
<1>2. \A n \in 0 .. N : s[n] = IF n = 0 THEN files
                               ELSE s[n - 1] \union UNION {map[g] : g \in s[n - 1]}
  <2>1. s = [n \in 0 .. N |-> IF n = 0 THEN files
                              ELSE LET before == s[n - 1]
                                   IN before \union UNION {map[g] : g \in before}]
    BY <1>1, StepsIs
  <2> HIDE DEF s
  <2> QED BY <2>1
<1> HIDE DEF s
<1>3. T = {}
  <2> SUFFICES ASSUME T # {} PROVE FALSE
    OBVIOUS
  <2>1. T \subseteq Nat
    OBVIOUS
  <2>2. PICK n \in T : \A k \in T : n <= k
    BY <2>1, Least
  <2>3. n # 0
    BY <1>1, <1>2, <2>2
  <2>4. n - 1 \in 0 .. N /\ n - 1 \notin T
    BY <1>1, <2>1, <2>2, <2>3
  <2>5. s[n - 1] \subseteq U
    BY <2>4
  <2>6. s[n] = s[n - 1] \union UNION {map[g] : g \in s[n - 1]}
    BY <1>2, <2>2, <2>3
  <2> QED BY <2>2, <2>5, <2>6
<1> QED BY <1>1, <1>3 DEF Reach, s

LEMMA IncludesStay ==
  ASSUME Texts, NEW u \in URIs
  PROVE  /\ DependsOn(u) \subseteq URIs
         /\ \A c : MembersOf(u, c) \subseteq URIs
<1>1. \A v \in URIs : AllIncludes(v) \subseteq URIs /\ \A c : IncludesIn(v, c) \subseteq URIs
  BY DEF Texts, AllIncludes, IncludesIn
<1>2. DependsOn(u) \subseteq URIs
  <2> DEFINE map == [g \in URIs |-> AllIncludes(g)]
  <2>1. \A v \in URIs : map[v] \subseteq URIs
    BY <1>1
  <2> HIDE DEF map
  <2>2. Reach(AllIncludes(u), map) \subseteq URIs
    BY <1>1, <2>1, ReachStays
  <2> QED BY <2>2 DEF DependsOn, map
<1>3. ASSUME NEW c PROVE MembersOf(u, c) \subseteq URIs
  <2> DEFINE map == [h \in URIs |-> IncludesIn(h, FileScope)]
  <2>1. \A v \in URIs : map[v] \subseteq URIs
    BY <1>1
  <2> HIDE DEF map
  <2>2. Reach(IncludesIn(u, c), map) \subseteq URIs
    BY <1>1, <2>1, ReachStays
  <2> QED BY <2>2 DEF MembersOf, map
<1> QED BY <1>2, <1>3

LEMMA NamedAre ==
  ASSUME Texts, NEW u \in URIs, NEW w
  PROVE  /\ Named(u, w) \subseteq Nat
         /\ \A i \in Named(u, w) : DeclaredAs({Ref(u, i)}, w)
BY DEF Named, Decls, Texts, DeclaredAs, Refs, Ref, ItemOf

LEMMA ChildrenAre ==
  ASSUME Texts, NEW w
  PROVE  /\ \A u \in URIs : \A c : DeclaredAs(ChildRefs(u, c, w), w)
         /\ \A owners : (\A q \in owners : q.uri \in URIs) => DeclaredAs(ChildrenOf(owners, w), w)
<1>1. ASSUME NEW u \in URIs, NEW c PROVE DeclaredAs(ChildRefs(u, c, w), w)
  BY NamedAre, IncludesStay DEF ChildRefs, DeclaredAs
<1> QED BY <1>1 DEF ChildrenOf, DeclaredAs

LEMMA RefsAre ==
  ASSUME Texts, NEW w
  PROVE  DeclaredAs(Refs(w), w)
BY NamedAre DEF Refs, DeclaredAs

LEMMA ImportsAre ==
  ASSUME Texts, NEW w, NEW u \in URIs, NEW scopes
  PROVE  DeclaredAs(ThroughImports(u, scopes, w), w)
<1>1. ASSUME NEW v \in URIs, NEW imp PROVE DeclaredAs(ImportMembers(v, imp, w), w)
  <2>1. \A q \in Refs(text[v][imp].name) : q.uri \in URIs
    BY RefsAre DEF DeclaredAs
  <2>2. DeclaredAs({}, w)
    BY DEF DeclaredAs
  <2> QED BY <2>1, <2>2, ChildrenAre DEF ImportMembers
<1>2. DeclaredAs(IncludedImports(u, w), w)
  BY <1>1, IncludesStay DEF IncludedImports, DeclaredAs
<1> QED BY <1>1, <1>2 DEF ThroughImports, OrElse, DeclaredAs

\* What every rung of the search answers, unqualified and qualified.
LEMMA ResolvedAre ==
  ASSUME Texts, NEW o, o.uri \in URIs
  PROVE  DeclaredAs(Resolved(o), ItemOf(o).name)
<1> DEFINE u == o.uri
           w == ItemOf(o).name
           pos == o.idx
<1>1. DeclaredAs(LookupQualified(Qualifier(o), w), w)
  <2>1. \A q \in Refs(Qualifier(o)) : q.uri \in URIs
    BY RefsAre DEF DeclaredAs
  <2> DEFINE owners == Refs(Qualifier(o))
             enums == {Ref(r.uri, Parent(r.uri, r.idx)) : r \in {s \in owners : ItemOf(s).kind = "typedef"}}
             named == {r \in owners : ItemOf(r).kind \in {"class", "package"}}
  <2>2. \A q \in enums : q.uri \in URIs
    BY <2>1 DEF Ref
  <2>3. \A q \in named : q.uri \in URIs
    BY <2>1
  <2> HIDE DEF enums, named, w
  <2>4. DeclaredAs(ChildrenOf(named, w), w) /\ DeclaredAs(ChildrenOf(enums, w), w)
    BY <2>2, <2>3, ChildrenAre
  <2>5. LookupQualified(Qualifier(o), w) =
          ChildrenOf(named, w) \union {r \in ChildrenOf(enums, w) : ItemOf(r).kind = "enumMember"}
    BY DEF LookupQualified, enums, named
  <2> QED BY <2>4, <2>5 DEF DeclaredAs
<1>2. DeclaredAs(LookupSelf(u, pos, w), w)
  <2> DEFINE S == {i \in Named(u, w) : Within(u, i, pos)}
  <2>1. S \subseteq Nat
    BY NamedAre
  <2>2. CASE S = {}
    BY <2>2 DEF LookupSelf, DeclaredAs
  <2>3. CASE S # {}
    <3>1. Min(S) \in S
      BY <2>1, <2>3, Least DEF Min
    <3>2. LookupSelf(u, pos, w) = {Ref(u, Min(S))}
      BY <2>3 DEF LookupSelf
    <3> QED BY <3>1, <3>2, NamedAre
  <2> QED BY <2>2, <2>3
<1>3. DeclaredAs(LookupInScope(u, pos, w), w)
  <2> DEFINE rungs == {c \in AncestorScopes(u, pos) : \E i \in Named(u, w) : Parent(u, i) = c}
  <2>1. CASE rungs = {}
    BY <2>1, ChildrenAre DEF LookupInScope
  <2>2. CASE rungs # {}
    <3>1. LookupInScope(u, pos, w) =
            {Ref(u, i) : i \in {j \in Named(u, w) : Parent(u, j) = Narrowest(u, rungs)}}
      BY <2>2 DEF LookupInScope
    <3> HIDE DEF rungs, w
    <3> QED BY <3>1, NamedAre DEF DeclaredAs
  <2> QED BY <2>1, <2>2
<1>4. DeclaredAs(LookupInEnclosingContainers(u, w), w)
  <2>1. \A c \in ContainerOf(u) : c.uri \in URIs
    BY DEF ContainerOf, Ref
  <2> HIDE DEF w
  <2>2. ASSUME NEW c \in ContainerOf(u)
        PROVE  DeclaredAs(OrElse(ChildRefs(c.uri, c.idx, w), ThroughImports(c.uri, {c.idx}, w)), w)
    BY <2>1, ChildrenAre, ImportsAre DEF OrElse
  <2> QED BY <2>2 DEF LookupInEnclosingContainers, DeclaredAs
<1>5. DeclaredAs(LookupInImports(u, pos, w), w)
  BY ImportsAre DEF LookupInImports
<1>6. DeclaredAs(Refs(w), w)
  BY RefsAre
<1>7. DeclaredAs(LookupInIncludes(u, w), w)
  BY <1>6 DEF LookupInIncludes, DeclaredAs
<1>8. DeclaredAs(ResolveRefs(u, pos, w), w)
  BY <1>2, <1>3, <1>4, <1>5, <1>6, <1>7 DEF ResolveRefs, OrElse, DeclaredAs
<1> QED BY <1>1, <1>8 DEF Resolved, ResolveAt

\* There is a first place.
Placed(refs) == \A r \in refs : r.uri \in URIs /\ r.idx \in Nat

LEMMA PrimaryIs ==
  ASSUME NEW refs, Placed(refs), refs # {}
  PROVE  PrimaryRef(refs) \in refs
<1> DEFINE U == {r.uri : r \in refs}
<1>1. PICK u \in U : \A v \in U : u <= v
  BY ResolveAssumption, Least DEF Placed
<1> DEFINE I == {r.idx : r \in {s \in refs : s.uri = u}}
<1>2. I # {} /\ I \subseteq Nat
  BY <1>1 DEF Placed
<1>3. PICK i \in I : \A j \in I : i <= j
  BY <1>2, Least
<1>4. PICK r \in refs : r.uri = u /\ r.idx = i
  BY <1>3
<1>5. \A s \in refs : r.uri < s.uri \/ (r.uri = s.uri /\ r.idx <= s.idx)
  <2> SUFFICES ASSUME NEW s \in refs PROVE r.uri < s.uri \/ (r.uri = s.uri /\ r.idx <= s.idx)
    OBVIOUS
  <2>1. s.uri \in Nat /\ u \in Nat /\ s.uri \in U
    BY <1>4, ResolveAssumption DEF Placed
  <2>2. u <= s.uri
    BY <1>1, <2>1
  <2>3. s.uri = u => i <= s.idx
    BY <1>3
  <2> QED BY <1>4, <2>1, <2>2, <2>3
<1> QED BY <1>4, <1>5 DEF PrimaryRef

-------------------------------------------------------------------------------
(* Highlight and references.                                                 *)

LEMMA PathsAgree ==
  ASSUME Texts, NEW at, at.uri \in URIs, NEW o
  PROVE  /\ o \in ScopedOccurrences(at) /\ o.uri = at.uri => o \in OccurrencesInFile(at)
         /\ o \in OccurrencesInFile(at) /\ o \notin ScopedOccurrences(at) => IsConn(o)
<1> DEFINE refs  == Resolved(at)
           r     == PrimaryRef(refs)
           scope == ContainerScope(r)
           w     == ItemOf(at).name
<1> USE DEF ScopedOccurrences, OccurrencesInFile
<1>1. CASE refs = {}
  BY <1>1 DEF OccurrencesOf, OccurrencesOfInFile
<1>2. CASE refs # {} /\ scope # FileScope
  <2>1. ItemOf(r).name = w
    BY <1>2, ResolvedAre, PrimaryIs DEF DeclaredAs, Placed
  <2>2. Outside(r, scope) \subseteq Occurrences(w)
    BY <2>1 DEF Outside, ConnectionOccurrences, NamedArgOccurrences
  <2>3. OccurrencesOf(at, refs) =
          {p \in Occurrences(w) : InScope(p, r, scope) /\ ~IsConn(p)} \union Outside(r, scope)
    BY <1>2 DEF OccurrencesOf
  <2>4. OccurrencesOfInFile(at, refs) =
          {p \in {q \in Occurrences(w) : q.uri = at.uri} :
              InScope(p, r, scope) \/ p \in Outside(r, scope)}
    BY <1>2 DEF OccurrencesOfInFile
  <2> HIDE DEF refs, r, scope, w
  <2> QED BY <2>2, <2>3, <2>4 DEF refs
<1>3. CASE refs # {} /\ scope = FileScope
  BY <1>3 DEF OccurrencesOf, OccurrencesOfInFile
<1> QED BY <1>1, <1>2, <1>3

(* Whatever the files hold, well formed or half typed, the highlight of a   *)
(* file shows every reference that find-references has in it, and besides   *)
(* them nothing but connections: the two paths of the code, OccurrencesIn-  *)
(* File and ScopedOccurrences (index.go), cannot drift further apart.       *)
THEOREM HighlightsCover == Spec => []HighlightCovers
<1>1. Spec => []Texts
  BY TextsInit, TextsStep, PTL DEF Spec
<1>2. Texts => HighlightCovers
  <2> SUFFICES ASSUME Texts, NEW at \in Asked
               PROVE  /\ InFile(Found(at), at.uri) \subseteq Highlighted(at)
                      /\ \A o \in Highlighted(at) \ Found(at) : IsConn(o)
    BY DEF HighlightCovers
  <2>1. at.uri \in URIs
    BY DEF Asked, Occurrences, Tokens, Ref
  <2>2. CASE Module(at) # NoModule \/ FieldAt(at) # {}
    BY <2>2 DEF Found, Highlighted, InFile
  <2>3. CASE Module(at) = NoModule /\ FieldAt(at) = {}
    <3>1. Found(at) = ScopedOccurrences(at) /\ Highlighted(at) = OccurrencesInFile(at)
      BY <2>3 DEF Found, Highlighted
    <3> QED BY <2>1, <3>1, PathsAgree DEF InFile
  <2> QED BY <2>2, <2>3
<1> QED BY <1>1, <1>2, PTL

-------------------------------------------------------------------------------
(* Texts that parse.                                                         *)

\* The files are as they were scanned until a rename.
Fresh == renamed = {} => \E w \in Workspaces : text = [u \in URIs |-> Scanned(w[u])]

LEMMA FreshInvariant == Spec => []Fresh
<1>1. Init => Fresh
  BY DEF Init, Fresh
<1>2. Fresh /\ [Next]_vars => Fresh'
  BY DEF Next, Rename, vars, Fresh
<1> QED BY <1>1, <1>2, PTL DEF Spec

\* One item more changes the depth by one at most.
LEMMA DepthStep ==
  ASSUME NEW t, NEW i \in Nat, NEW j \in Nat
  PROVE  /\ Depth(t, i, j) \in Int
         /\ i <= j + 1 => Depth(t, i, j + 1) >= Depth(t, i, j) - 1
<1> DEFINE O(n) == {k \in i .. n : t[k].t = "open"}
           C(n) == {k \in i .. n : t[k].t = "close"}
<1>1. ASSUME NEW n \in Nat
      PROVE  /\ IsFiniteSet(O(n)) /\ Cardinality(O(n)) \in Nat
             /\ IsFiniteSet(C(n)) /\ Cardinality(C(n)) \in Nat
  <2>1. IsFiniteSet(i .. n)
    BY FS_Interval
  <2>2. O(n) \subseteq i .. n /\ C(n) \subseteq i .. n
    OBVIOUS
  <2>3. IsFiniteSet(O(n)) /\ IsFiniteSet(C(n))
    BY <2>1, <2>2, FS_Subset
  <2> QED BY <2>3, FS_CardinalityType
<1>2. \A n : Depth(t, i, n) = Cardinality(O(n)) - Cardinality(C(n))
  BY DEF Depth
<1>3. ASSUME i <= j + 1
      PROVE  O(j) \subseteq O(j + 1) /\ C(j + 1) \subseteq C(j) \union {j + 1}
  BY <1>3
<1>4. i <= j + 1 => Cardinality(O(j)) <= Cardinality(O(j + 1))
  <2> HIDE DEF O
  <2>1. j + 1 \in Nat
    OBVIOUS
  <2> QED BY <1>1, <1>3, <2>1, FS_Subset
<1>5. i <= j + 1 => Cardinality(C(j + 1)) <= Cardinality(C(j)) + 1
  <2> HIDE DEF C
  <2>1. IsFiniteSet(C(j) \union {j + 1}) /\ Cardinality(C(j) \union {j + 1}) <= Cardinality(C(j)) + 1
    <3>1. /\ IsFiniteSet(C(j) \union {j + 1})
          /\ Cardinality(C(j) \union {j + 1}) = IF j + 1 \in C(j) THEN Cardinality(C(j)) ELSE Cardinality(C(j)) + 1
      BY <1>1, FS_AddElement
    <3>2. Cardinality(C(j)) \in Nat
      BY <1>1
    <3>3. CASE j + 1 \in C(j)
      BY <3>1, <3>2, <3>3
    <3>4. CASE j + 1 \notin C(j)
      BY <3>1, <3>2, <3>4
    <3> QED BY <3>3, <3>4
  <2>2. Cardinality(C(j)) \in Nat /\ Cardinality(C(j + 1)) \in Nat
    <3>1. j + 1 \in Nat
      OBVIOUS
    <3> QED BY <1>1, <3>1
  <2>3. Cardinality(C(j) \union {j + 1}) \in Nat
    BY <2>1, FS_CardinalityType
  <2>4. i <= j + 1 => Cardinality(C(j + 1)) <= Cardinality(C(j) \union {j + 1})
    BY <1>3, <2>1, FS_Subset
  <2> QED BY <2>1, <2>2, <2>3, <2>4
<1> HIDE DEF O, C
<1>6. j + 1 \in Nat
  OBVIOUS
<1> QED BY <1>1, <1>2, <1>4, <1>5, <1>6

LEMMA DepthSplit ==
  ASSUME NEW t, NEW i \in Nat, NEW c \in Nat, NEW j \in Nat, i < c, c <= j + 1
  PROVE  Depth(t, i, j) = Depth(t, i, c - 1) + Depth(t, c, j)
<1> DEFINE A(a, b, mark) == {k \in a .. b : t[k].t = mark}
<1>1. ASSUME NEW mark
      PROVE  /\ Cardinality(A(i, j, mark)) = Cardinality(A(i, c - 1, mark)) + Cardinality(A(c, j, mark))
             /\ Cardinality(A(i, c - 1, mark)) \in Nat /\ Cardinality(A(c, j, mark)) \in Nat
  <2>1. A(i, j, mark) = A(i, c - 1, mark) \union A(c, j, mark)
    OBVIOUS
  <2>2. A(i, c - 1, mark) \intersect A(c, j, mark) = {}
    OBVIOUS
  <2>3. IsFiniteSet(i .. c - 1) /\ IsFiniteSet(c .. j)
    BY FS_Interval
  <2>4. A(i, c - 1, mark) \subseteq i .. c - 1 /\ A(c, j, mark) \subseteq c .. j
    OBVIOUS
  <2>5. IsFiniteSet(A(i, c - 1, mark)) /\ IsFiniteSet(A(c, j, mark))
    BY <2>3, <2>4, FS_Subset
  <2> HIDE DEF A
  <2>6. /\ Cardinality(A(i, c - 1, mark)) \in Nat /\ Cardinality(A(c, j, mark)) \in Nat
    BY <2>5, FS_CardinalityType
  <2>7. Cardinality(A(i, c - 1, mark) \union A(c, j, mark))
          = Cardinality(A(i, c - 1, mark)) + Cardinality(A(c, j, mark))
            - Cardinality(A(i, c - 1, mark) \intersect A(c, j, mark))
    BY <2>5, FS_Union
  <2>8. Cardinality(A(i, c - 1, mark) \intersect A(c, j, mark)) = 0
    BY <2>2, FS_EmptySet
  <2> QED BY <2>1, <2>6, <2>7, <2>8
<1>2. \A a, b : Depth(t, a, b) = Cardinality(A(a, b, "open")) - Cardinality(A(a, b, "close"))
  BY DEF Depth
<1> HIDE DEF A
<1> QED BY <1>1, <1>2

LEMMA Greatest == ASSUME NEW b \in Nat, NEW S \in SUBSET (0 .. b), S # {}
                  PROVE  \E m \in S : \A k \in S : k <= m
<1> DEFINE T == {b - k : k \in S}
<1>1. T \subseteq Nat /\ T # {}
  <2>1. \A k \in S : k \in 0 .. b
    OBVIOUS
  <2>2. \A k \in S : b - k \in Nat
    BY <2>1
  <2> QED BY <2>2
<1>2. PICK n \in T : \A k \in T : n <= k
  <2> HIDE DEF T
  <2> QED BY <1>1, Least
<1>3. PICK m \in S : n = b - m
  OBVIOUS
<1>4. \A k \in S : n <= b - k
  BY <1>2
<1> QED BY <1>3, <1>4

\* What starts at one and falls by one at most does not get past zero unseen.
LEMMA NoCrossing ==
  ASSUME NEW t, NEW i \in Nat, NEW b \in Nat, i <= b,
         Depth(t, i, i) = 1, \A j \in i .. b : Depth(t, i, j) # 0
  PROVE  Depth(t, i, b) >= 1
<1> DEFINE Low == {j \in i .. b : ~(Depth(t, i, j) >= 1)}
<1>1. Low = {}
  <2> SUFFICES ASSUME Low # {} PROVE FALSE
    OBVIOUS
  <2>1. Low \subseteq Nat
    OBVIOUS
  <2>2. PICK m \in Low : \A k \in Low : m <= k
    <3> HIDE DEF Low
    <3> QED BY <2>1, Least
  <2>3. m # i /\ m \in i .. b
    BY <2>2
  <2>4. m - 1 \in i .. b /\ m - 1 \in Nat /\ m - 1 \notin Low
    BY <2>1, <2>2, <2>3
  <2>5. Depth(t, i, m - 1) >= 1 /\ Depth(t, i, m - 1) \in Int
    BY <2>4, DepthStep
  <2>6. Depth(t, i, m) >= Depth(t, i, m - 1) - 1 /\ Depth(t, i, m) \in Int
    <3>1. i <= (m - 1) + 1 /\ (m - 1) + 1 = m
      BY <2>3
    <3>2. i <= (m - 1) + 1 => Depth(t, i, (m - 1) + 1) >= Depth(t, i, m - 1) - 1
      BY <2>4, DepthStep
    <3>3. m \in Nat
      BY <2>1, <2>2
    <3>4. Depth(t, i, m) \in Int
      BY <3>3, DepthStep
    <3> QED BY <3>1, <3>2, <3>4
  <2> QED BY <2>2, <2>3, <2>5, <2>6
<1> QED BY <1>1

LEMMA DepthAtOpen ==
  ASSUME NEW t, NEW i \in Nat, t[i].t = "open"
  PROVE  Depth(t, i, i) = 1
<1>1. {k \in i .. i : t[k].t = "open"} = {i} /\ {k \in i .. i : t[k].t = "close"} = {}
  OBVIOUS
<1>2. Cardinality({i}) = 1 /\ Cardinality({}) = 0
  BY FS_Singleton, FS_EmptySet
<1> QED BY <1>1, <1>2 DEF Depth

LEMMA EndIs ==
  ASSUME NEW t, Len(t) \in Nat, NEW i \in 1 .. Len(t), t[i].t = "open",
         \E j \in i .. Len(t) : Depth(t, i, j) = 0
  PROVE  /\ EndIn(t, i) \in i + 1 .. Len(t)
         /\ Depth(t, i, EndIn(t, i)) = 0
         /\ \A j \in i .. Len(t) : Depth(t, i, j) = 0 => EndIn(t, i) <= j
<1> DEFINE S == {j \in i .. Len(t) : Depth(t, i, j) = 0}
<1>1. S \subseteq Nat /\ S # {}
  OBVIOUS
<1>2. EndIn(t, i) = Min(S)
  BY DEF EndIn
<1>3. Min(S) \in S /\ \A j \in S : Min(S) <= j
  <2> HIDE DEF S
  <2> QED BY <1>1, Least DEF Min
<1>4. Depth(t, i, i) = 1
  BY DepthAtOpen
<1> QED BY <1>2, <1>3, <1>4

\* A declaration that starts in the body of another ends there.
LEMMA SpansNest ==
  ASSUME NEW t, Len(t) \in Nat, NEW i \in 1 .. Len(t), NEW c \in 1 .. Len(t),
         \A k \in 1 .. Len(t) : t[k].t = "open" => \E j \in k .. Len(t) : Depth(t, k, j) = 0,
         i < c, c < EndIn(t, i)
  PROVE  EndIn(t, c) <= EndIn(t, i)
<1> DEFINE e == EndIn(t, i)
<1>1. t[i].t = "open"
  BY DEF EndIn
<1>2. e \in i + 1 .. Len(t) /\ Depth(t, i, e) = 0 /\ \A j \in i .. Len(t) : Depth(t, i, j) = 0 => e <= j
  BY <1>1, EndIs
<1> HIDE DEF e
<1>3. CASE t[c].t # "open"
  BY <1>2, <1>3 DEF EndIn, e
<1>4. CASE t[c].t = "open"
  <2>1. Depth(t, i, c - 1) >= 1 /\ Depth(t, i, c - 1) \in Int
    <3>1. \A j \in i .. c - 1 : Depth(t, i, j) # 0
      BY <1>2 DEF e
    <3>2. Depth(t, i, i) = 1
      BY <1>1, DepthAtOpen
    <3>3. c - 1 \in Nat /\ i <= c - 1
      OBVIOUS
    <3>4. Depth(t, i, c - 1) \in Int
      BY <3>3, DepthStep
    <3>5. Depth(t, i, c - 1) >= 1
      BY <3>1, <3>2, <3>3, NoCrossing
    <3> QED BY <3>4, <3>5
  <2>2. Depth(t, c, e) = 0 - Depth(t, i, c - 1)
    <3>1. e \in Nat /\ c <= e + 1
      BY <1>2 DEF e
    <3>2. Depth(t, i, e) = Depth(t, i, c - 1) + Depth(t, c, e)
      BY <3>1, DepthSplit
    <3>3. Depth(t, c, e) \in Int
      BY <3>1, DepthStep
    <3> QED BY <1>2, <2>1, <3>2, <3>3
  <2>3. PICK j \in c .. e : Depth(t, c, j) = 0
    <3> SUFFICES ASSUME \A j \in c .. e : Depth(t, c, j) # 0 PROVE FALSE
      OBVIOUS
    <3>1. Depth(t, c, c) = 1
      BY <1>4, DepthAtOpen
    <3>2. e \in Nat /\ c <= e
      BY <1>2 DEF e
    <3>3. Depth(t, c, e) >= 1
      BY <3>1, <3>2, NoCrossing
    <3> QED BY <2>1, <2>2, <3>3
  <2>4. j \in c .. Len(t) /\ j <= e
    BY <1>2, <2>3
  <2>5. EndIn(t, c) \in Int /\ EndIn(t, c) <= j
    BY <1>4, <2>3, <2>4, EndIs
  <2> QED BY <1>2, <2>4, <2>5 DEF e
<1> QED BY <1>3, <1>4

\* What a scan makes of the text of u: a field has no receiver, nor has what is no
\* scope, a declaration has a name and a span, that of no scope only its name, and the spans nest.
Items(u) ==
  \A i \in DOMAIN text[u] :
    /\ i \in Nat /\ i # FileScope /\ 1 .. i \subseteq DOMAIN text[u]
    /\ text[u][i].t = "field" \/ (i \in Decls(u) /\ text[u][i].kind \notin ContainerKinds)
         => ReceiverOf(text[u], i) = 0
Spans(u) ==
  \A i \in Decls(u) : /\ text[u][i].name # "" /\ text[u][i].end \in Nat /\ i < text[u][i].end
                      /\ text[u][i].kind \notin ContainerKinds => text[u][i].end = i + 1
Nested(u) ==
  \A i, c \in Decls(u) : i < c /\ c < text[u][i].end => text[u][c].end <= text[u][i].end

\* The parent is the last scope to open before an item that is still open there.
Tree(u) ==
  /\ Len(text[u]) \in Nat /\ DOMAIN text[u] = 1 .. Len(text[u])
  /\ \A i \in DOMAIN text[u] :
        /\ Parent(u, i) \in Nat /\ Parent(u, i) < i
        /\ Parent(u, i) # FileScope
             => /\ Parent(u, i) \in Decls(u) /\ text[u][Parent(u, i)].t = "open"
                /\ text[u][Parent(u, i)].kind \in ContainerKinds /\ i < text[u][Parent(u, i)].end
        /\ \A c \in Decls(u) : c < i /\ i < text[u][c].end => c <= Parent(u, i)
        /\ text[u][i].kind = "argument" => /\ Parent(u, i) # FileScope
                                           /\ text[u][Parent(u, i)].kind \in Subprograms

Parsed == \A u \in URIs : Items(u) /\ Spans(u) /\ Nested(u) /\ Tree(u)

LEMMA FreshParsed == Fresh /\ renamed = {} => Parsed
<1> SUFFICES ASSUME Fresh, renamed = {}, NEW u \in URIs PROVE Items(u) /\ Spans(u) /\ Nested(u) /\ Tree(u)
  BY DEF Parsed
<1>0. PICK w \in Workspaces : text = [v \in URIs |-> Scanned(w[v])]
  BY DEF Fresh
<1> DEFINE t == w[u]
<1>1. Len(t) \in Nat /\ DOMAIN t = 1 .. Len(t)
  BY QueriesAssumption
<1>2. DOMAIN text[u] = 1 .. Len(t)
  BY <1>0, <1>1 DEF Scanned
<1>3. ASSUME NEW i \in 1 .. Len(t)
      PROVE  /\ text[u][i].t = t[i].t /\ text[u][i].kind = t[i].kind /\ text[u][i].name = t[i].name
             /\ text[u][i].end = EndIn(t, i)
  BY <1>0, <1>1 DEF Scanned
<1>4. ASSUME NEW i \in 1 .. Len(t)
      PROVE  /\ t[i].t = "open" => t[i].kind \in ContainerKinds /\ \E j \in i .. Len(t) : Depth(t, i, j) = 0
             /\ t[i].t \in {"open", "leaf"} => t[i].name # ""
             /\ t[i].t = "field" \/ (t[i].t = "leaf" /\ t[i].kind \notin ContainerKinds)
                  => ReceiverOf(t, i) = 0
  BY <1>1, ParsedAssumption
<1> HIDE DEF t
<1>5. ASSUME NEW i \in 1 .. Len(t) PROVE ReceiverOf(text[u], i) = ReceiverOf(t, i)
  <2>1. \A j, mark : IsPunct(text[u], j, mark) <=> IsPunct(t, j, mark)
    BY <1>1, <1>2, <1>3 DEF IsPunct
  <2>2. \A j : IsIdent(text[u], j) <=> IsIdent(t, j)
    BY <1>1, <1>2, <1>3 DEF IsIdent
  <2> QED BY <2>1, <2>2 DEF ReceiverOf
<1>6. Decls(u) = {i \in 1 .. Len(t) : t[i].t \in {"open", "leaf"}}
  BY <1>2, <1>3 DEF Decls
<1>7. ASSUME NEW i \in Decls(u)
      PROVE  /\ EndIn(t, i) \in Nat /\ i < EndIn(t, i)
             /\ t[i].kind \notin ContainerKinds => EndIn(t, i) = i + 1
  <2>1. CASE t[i].t = "open"
    <3>1. EndIn(t, i) \in i + 1 .. Len(t) /\ t[i].kind \in ContainerKinds
      BY <1>1, <1>4, <1>6, <2>1, EndIs
    <3> QED BY <1>1, <1>6, <3>1
  <2>2. CASE t[i].t # "open"
    BY <1>1, <1>6, <2>2 DEF EndIn
  <2> QED BY <2>1, <2>2
<1>8. ASSUME NEW i \in Decls(u), NEW c \in Decls(u), i < c, c < EndIn(t, i)
      PROVE  EndIn(t, c) <= EndIn(t, i)
  <2>1. \A k \in 1 .. Len(t) : t[k].t = "open" => \E j \in k .. Len(t) : Depth(t, k, j) = 0
    BY <1>4
  <2> QED BY <1>1, <1>6, <1>8, <2>1, SpansNest
<1>9. Items(u)
  <2> SUFFICES ASSUME NEW i \in DOMAIN text[u]
               PROVE  /\ i \in Nat /\ i # FileScope /\ 1 .. i \subseteq DOMAIN text[u]
                      /\ text[u][i].t = "field" \/ (i \in Decls(u) /\ text[u][i].kind \notin ContainerKinds)
                           => ReceiverOf(text[u], i) = 0
    BY DEF Items
  <2>1. i \in 1 .. Len(t) /\ i \in Nat /\ i # FileScope /\ 1 .. i \subseteq DOMAIN text[u]
    BY <1>1, <1>2 DEF FileScope
  <2>2. ReceiverOf(text[u], i) = ReceiverOf(t, i)
    BY <1>5, <2>1
  <2> QED BY <1>3, <1>4, <1>6, <2>1, <2>2
<1>10. Spans(u)
  <2> SUFFICES ASSUME NEW i \in Decls(u)
               PROVE  /\ text[u][i].name # "" /\ text[u][i].end \in Nat /\ i < text[u][i].end
                      /\ text[u][i].kind \notin ContainerKinds => text[u][i].end = i + 1
    BY DEF Spans
  <2>1. i \in 1 .. Len(t) /\ t[i].t \in {"open", "leaf"}
    BY <1>6
  <2> QED BY <1>3, <1>4, <1>7, <2>1
<1>11. Nested(u)
  BY <1>3, <1>6, <1>8 DEF Nested
<1>12. Tree(u)
  <2>1. Len(text[u]) = Len(t)
    <3>1. text[u] = [i \in 1 .. Len(t) |-> [t |-> t[i].t, kind |-> t[i].kind, name |-> t[i].name,
                                           of |-> t[i].of, end |-> EndIn(t, i), parent |-> ParentIn(t, i)]]
      BY <1>0, <1>1 DEF Scanned, t
    <3> QED BY <1>1, <3>1
  <2>2. ASSUME NEW i \in 1 .. Len(t)
        PROVE  /\ ParentIn(t, i) \in Nat /\ ParentIn(t, i) < i
               /\ ParentIn(t, i) # FileScope => t[ParentIn(t, i)].t = "open" /\ i < EndIn(t, ParentIn(t, i))
               /\ \A c \in 1 .. i - 1 : t[c].t = "open" /\ i < EndIn(t, c) => c <= ParentIn(t, i)
    <3> DEFINE bodies == {c \in 1 .. i - 1 : t[c].t = "open" /\ i < EndIn(t, c)}
    <3>1. ParentIn(t, i) = IF bodies = {} THEN FileScope ELSE Max(bodies)
      BY DEF ParentIn
    <3>2. CASE bodies = {}
      BY <3>1, <3>2 DEF FileScope
    <3>3. CASE bodies # {}
      <4>1. bodies \subseteq 0 .. i /\ i \in Nat
        OBVIOUS
      <4>2. \E m \in bodies : \A k \in bodies : k <= m
        <5> HIDE DEF bodies
        <5> QED BY <3>3, <4>1, Greatest
      <4>3. Max(bodies) \in bodies /\ \A k \in bodies : k <= Max(bodies)
        <5>1. PICK m \in bodies : \A k \in bodies : m >= k
          BY <4>1, <4>2
        <5> HIDE DEF bodies
        <5> QED BY <4>1, <5>1 DEF Max
      <4> QED BY <3>1, <3>3, <4>3
    <3> QED BY <3>2, <3>3
  <2>3. \A i \in 1 .. Len(t) : Parent(u, i) = ParentIn(t, i)
    BY <1>0, <1>1 DEF Scanned, Parent, t
  <2> SUFFICES ASSUME NEW i \in 1 .. Len(t)
               PROVE  /\ Parent(u, i) \in Nat /\ Parent(u, i) < i
                      /\ Parent(u, i) # FileScope
                           => /\ Parent(u, i) \in Decls(u) /\ text[u][Parent(u, i)].t = "open"
                              /\ text[u][Parent(u, i)].kind \in ContainerKinds
                              /\ i < text[u][Parent(u, i)].end
                      /\ \A c \in Decls(u) : c < i /\ i < text[u][c].end => c <= Parent(u, i)
                      /\ text[u][i].kind = "argument" => /\ Parent(u, i) # FileScope
                                                         /\ text[u][Parent(u, i)].kind \in Subprograms
    BY <1>1, <1>2, <2>1 DEF Tree
  <2> DEFINE p == Parent(u, i)
  <2>4. /\ p \in Nat /\ p < i
        /\ p # FileScope => t[p].t = "open" /\ i < EndIn(t, p)
        /\ \A c \in 1 .. i - 1 : t[c].t = "open" /\ i < EndIn(t, c) => c <= p
    BY <2>2, <2>3
  <2>5. p = ParentIn(t, i)
    BY <2>3
  <2> HIDE DEF p
  <2>6. ASSUME p # FileScope
        PROVE  /\ p \in Decls(u) /\ text[u][p].t = "open"
               /\ text[u][p].kind \in ContainerKinds /\ i < text[u][p].end
    <3>1. p \in 1 .. Len(t)
      BY <1>1, <2>4, <2>6 DEF FileScope
    <3> QED BY <1>3, <1>4, <1>6, <2>4, <2>6, <3>1
  <2>7. ASSUME NEW c \in Decls(u), c < i, i < text[u][c].end PROVE c <= p
    <3>1. c \in 1 .. i - 1 /\ c \in 1 .. Len(t) /\ i < EndIn(t, c)
      BY <1>1, <1>3, <1>6, <2>7
    <3>2. t[c].t = "open"
      BY <1>1, <2>7, <3>1 DEF EndIn
    <3> QED BY <2>4, <3>1, <3>2
  <2>8. text[u][i].kind = "argument" => p # FileScope /\ text[u][p].kind \in Subprograms
    <3>1. t[i].kind = "argument" => p # FileScope /\ t[p].kind \in Subprograms
      BY <1>1, <2>5, ParsedAssumption DEF t
    <3>2. p # FileScope => p \in 1 .. Len(t)
      BY <1>1, <2>4 DEF FileScope
    <3> QED BY <1>3, <3>1, <3>2
  <2> QED BY <2>4, <2>6, <2>7, <2>8 DEF p
<1> QED BY <1>9, <1>10, <1>11, <1>12

-------------------------------------------------------------------------------
(* Jumps and hover.                                                          *)

LEMMA FirstIs ==
  ASSUME NEW refs, Placed(refs)
  PROVE  First(refs) \subseteq refs /\ (First(refs) = {} <=> refs = {})
BY PrimaryIs DEF First

LEMMA FieldsAre ==
  ASSUME Texts, NEW type, NEW w
  PROVE  /\ Placed(StructFields(type))
         /\ \A f \in StructFields(type) : ItemOf(f).t = "field"
         /\ Field(type, w) \subseteq {f \in StructFields(type) : Name(f) = w}
         /\ Field(type, w) = {} <=> {f \in StructFields(type) : Name(f) = w} = {}
<1>1. ASSUME Structs(type) # {}
      PROVE  /\ Placed(StructFields(type))
             /\ \A f \in StructFields(type) : ItemOf(f).t = "field"
  <2> DEFINE r == PrimaryRef(Structs(type))
  <2>1. Placed(Structs(type))
    BY RefsAre DEF Structs, Placed, DeclaredAs
  <2>2. r \in Structs(type)
    BY <1>1, <2>1, PrimaryIs
  <2>3. r.uri \in URIs /\ r.idx \in Nat
    BY <2>1, <2>2 DEF Placed
  <2> HIDE DEF r
  <2>4. \A j \in Fields(r.uri, r.idx) : j \in Nat /\ text[r.uri][j].t = "field"
    <3> SUFFICES ASSUME NEW j \in Fields(r.uri, r.idx) PROVE j \in Nat /\ text[r.uri][j].t = "field"
      OBVIOUS
    <3>1. j \in 1 .. r.idx - 1 /\ \A k \in j .. r.idx - 1 : text[r.uri][k].t = "field"
      BY DEF Fields
    <3>2. j \in j .. r.idx - 1
      BY <2>3, <3>1
    <3> QED BY <3>1, <3>2
  <2>5. StructFields(type) = {Ref(r.uri, j) : j \in Fields(r.uri, r.idx)}
    BY <1>1 DEF StructFields, r
  <2> QED BY <2>3, <2>4, <2>5 DEF Placed, Ref, ItemOf
<1>2. Placed(StructFields(type)) /\ \A f \in StructFields(type) : ItemOf(f).t = "field"
  <2>1. Structs(type) = {} => StructFields(type) = {}
    BY DEF StructFields
  <2> QED BY <1>1, <2>1 DEF Placed
<1> DEFINE F == {f \in StructFields(type) : Name(f) = w}
<1>3. Placed(F)
  BY <1>2 DEF Placed
<1>4. First(F) \subseteq F /\ (First(F) = {} <=> F = {})
  <2> HIDE DEF F
  <2> QED BY <1>3, FirstIs
<1> QED BY <1>2, <1>4 DEF Field

LEMMA PortsAre ==
  ASSUME Texts, NEW m, NEW w
  PROVE  DeclaredAs(LookupInstantiationPort(m, w), w) /\ DeclaredAs(InterfaceMember(m, w), w)
<1>1. /\ \A q \in {p \in Refs(m) : ItemOf(p).kind \in PortContainers} : q.uri \in URIs
      /\ \A q \in Interfaces(m) : q.uri \in URIs
  BY RefsAre DEF DeclaredAs, Interfaces
<1> QED BY <1>1, ChildrenAre DEF LookupInstantiationPort, InterfaceMember

LEMMA ConnectionIs ==
  ASSUME Texts, NEW at
  PROVE  DeclaredAs(Connection(at), Name(at))
<1>1. DeclaredAs({}, Name(at))
  BY DEF DeclaredAs
<1> QED BY <1>1, PortsAre DEF Connection

LEMMA MembersAre ==
  ASSUME Texts, NEW recv, NEW w
  PROVE  \A r \in MemberLocations(recv, w) :
            /\ r.uri \in URIs /\ r.idx \in Nat /\ Name(r) = w
            /\ ItemOf(r).t # "field" => r \in Refs(w)
<1> DEFINE p == PrimaryRef(recv)
           inOf == InterfaceMember(ItemOf(p).of, w)
           inOwn == InterfaceMember(ItemOf(p).name, w)
           field == Field(ItemOf(p).of, w)
<1>1. \A r \in field : r.uri \in URIs /\ r.idx \in Nat /\ Name(r) = w /\ ItemOf(r).t = "field"
  BY FieldsAre DEF Placed
<1>2. DeclaredAs(inOf, w) /\ DeclaredAs(inOwn, w)
  BY PortsAre
<1>3. MemberLocations(recv, w) \subseteq field \union inOf \union inOwn
  BY DEF MemberLocations, OrElse
<1> HIDE DEF field, inOf, inOwn
<1> QED BY <1>1, <1>2, <1>3 DEF DeclaredAs, Name

\* Hover looks for a member where the jumps do.
LEMMA MemberHoverIs ==
  ASSUME Texts, NEW recv, NEW w
  PROVE  /\ MemberHover(recv, w) \subseteq MemberLocations(recv, w)
         /\ MemberHover(recv, w) = {} <=> MemberLocations(recv, w) = {}
<1> DEFINE p == PrimaryRef(recv)
           inOf == InterfaceMember(ItemOf(p).of, w)
           own == IF ItemOf(p).kind = "interface" THEN InterfaceMember(ItemOf(p).name, w) ELSE {}
           field == Field(ItemOf(p).of, w)
<1>1. Placed(OrElse(inOf, own))
  BY PortsAre DEF OrElse, DeclaredAs, Placed
<1>2. /\ First(OrElse(inOf, own)) \subseteq OrElse(inOf, own)
      /\ First(OrElse(inOf, own)) = {} <=> OrElse(inOf, own) = {}
  <2> HIDE DEF inOf, own
  <2> QED BY <1>1, FirstIs
<1>3. MemberLocations(recv, w) = IF recv = {} THEN {} ELSE OrElse(field, OrElse(inOf, own))
  BY DEF MemberLocations
<1>4. MemberHover(recv, w) = IF recv = {} THEN {} ELSE IF field # {} THEN field
                             ELSE First(OrElse(inOf, own))
  BY DEF MemberHover
<1> HIDE DEF field, inOf, own
<1> QED BY <1>2, <1>3, <1>4 DEF OrElse

LEMMA PrototypeOr == ASSUME NEW r PROVE Prototype(r) = TRUE \/ Prototype(r) = FALSE
BY DEF Prototype

LEMMA SpanOf ==
  ASSUME Parsed, NEW u \in URIs, NEW i \in Decls(u)
  PROVE  /\ text[u][i].name # "" /\ text[u][i].end \in Nat /\ i < text[u][i].end
         /\ text[u][i].kind \notin ContainerKinds => text[u][i].end = i + 1
<1>1. Spans(u)
  BY DEF Parsed
<1> QED BY <1>1, Zenon DEF Spans

LEMMA RefsIn == ASSUME NEW w, NEW r \in Refs(w)
                PROVE  /\ r.uri \in URIs /\ r.idx \in Named(r.uri, w) /\ r = Ref(r.uri, r.idx)
                       /\ Name(r) = w
BY DEF Refs, Ref, Name, ItemOf, Named

LEMMA Hovers ==
  ASSUME Texts, NEW at, at.uri \in URIs
  PROVE  HoverAgrees(Hover(at), Jumps(at, FALSE), Jumps(at, TRUE))
<1> DEFINE conn    == Connection(at)
           members == MemberLocations(ReceiverAt(at), Name(at))
           hovered == MemberHover(ReceiverAt(at), Name(at))
           refs    == Resolved(at)
<1>1. First(conn) \subseteq conn /\ (First(conn) = {} <=> conn = {})
  <2>1. Placed(conn)
    BY ConnectionIs DEF DeclaredAs, Placed
  <2> QED BY <2>1, FirstIs
<1>2. hovered \subseteq members /\ (hovered = {} <=> members = {})
  BY MemberHoverIs
<1>3. First(refs) \subseteq refs /\ (First(refs) = {} <=> refs = {})
  <2>1. Placed(refs)
    BY ResolvedAre DEF DeclaredAs, Placed
  <2> QED BY <2>1, FirstIs
<1>4. Hover(at) = OrElse(First(conn), OrElse(hovered, First(refs)))
  BY DEF Hover
<1>5. \A want : Jumps(at, want) = IF conn # {} THEN {conn}
                                  ELSE IF members # {} THEN {{r} : r \in members}
                                  ELSE {Preferred(refs, r, want) : r \in refs}
  BY DEF Jumps, Destinations
<1> HIDE DEF conn, members, hovered, refs
<1>6. CASE conn # {}
  <2>1. Hover(at) = First(conn) /\ First(conn) # {}
    BY <1>1, <1>4, <1>6 DEF OrElse
  <2>2. Jumps(at, FALSE) = {conn} /\ Jumps(at, TRUE) = {conn}
    BY <1>5, <1>6
  <2> QED BY <1>1, <2>1, <2>2 DEF HoverAgrees
<1>7. CASE conn = {} /\ members # {}
  <2>1. Hover(at) = hovered /\ hovered # {}
    BY <1>1, <1>2, <1>4, <1>7 DEF OrElse
  <2>2. Jumps(at, FALSE) = {{r} : r \in members} /\ Jumps(at, TRUE) = {{r} : r \in members}
    BY <1>5, <1>7
  <2>3. \A d : {{r} : r \in members} = {d} => hovered \subseteq d
    BY <1>2
  <2>4. {{r} : r \in members} # {}
    BY <1>7
  <2> QED BY <2>1, <2>2, <2>3, <2>4 DEF HoverAgrees
<1>8. CASE conn = {} /\ members = {}
  <2>1. Hover(at) = First(refs)
    BY <1>1, <1>2, <1>4, <1>8 DEF OrElse
  <2>2. \A want : Jumps(at, want) = {Preferred(refs, r, want) : r \in refs}
    BY <1>5, <1>8
  <2>3. CASE refs = {}
    BY <1>3, <2>1, <2>2, <2>3 DEF HoverAgrees
  <2>4. CASE refs # {}
    <3>1. PICK p \in refs : TRUE
      BY <2>4
    <3>2. Preferred(refs, p, FALSE) = refs \/ Preferred(refs, p, TRUE) = refs
      <4>1. Prototype(p) = TRUE \/ Prototype(p) = FALSE
        BY PrototypeOr
      <4> QED BY <3>1, <4>1 DEF Preferred
    <3>3. \A d, c : Jumps(at, FALSE) = {d} /\ Jumps(at, TRUE) = {c} => refs = d \/ refs = c
      BY <2>2, <3>1, <3>2
    <3>4. Jumps(at, TRUE) # {} /\ Hover(at) # {}
      <4>1. Preferred(refs, p, TRUE) \in Jumps(at, TRUE)
        BY <2>2, <3>1
      <4> QED BY <1>3, <2>1, <2>4, <4>1
    <3>5. First(refs) \subseteq refs
      BY <1>3
    <3>6. \A d \in Jumps(at, FALSE), c \in Jumps(at, TRUE) :
             Jumps(at, FALSE) = {d} /\ Jumps(at, TRUE) = {c} => Hover(at) \subseteq d \union c
      BY <2>1, <3>3, <3>5
    <3>7. (Hover(at) = {}) = (Jumps(at, TRUE) = {})
      BY <3>4
    <3> QED BY <3>6, <3>7 DEF HoverAgrees
  <2> QED BY <2>3, <2>4
<1> QED BY <1>6, <1>7, <1>8

\* What is chosen of refs is one of them, or a declaration of that name that is wanted.
LEMMA PreferredIs ==
  ASSUME NEW refs, NEW q \in refs, NEW want \in BOOLEAN, NEW r, Preferred(refs, q, want) = {r}
  PROVE  \/ r \in Refs(Name(q)) /\ Prototype(r) = want
         \/ refs = {r} /\ Preferred({r}, r, want) = {r}
<1> DEFINE like == {s \in Refs(Name(q)) : ItemOf(s).kind = ItemOf(q).kind /\ Prototype(s) = want}
           sameFile == {s \in like : s.uri = q.uri}
           sameContainer == {s \in like : ContainerName(s) # "" /\ ContainerName(s) = ContainerName(q)}
<1>1. Preferred(refs, q, want) =
        IF \E s \in refs : Prototype(s) = want THEN refs
        ELSE OrElse(sameFile, OrElse(sameContainer, OrElse(like, refs)))
  BY DEF Preferred
<1>2. r \in like => r \in Refs(Name(q)) /\ Prototype(r) = want
  OBVIOUS
<1>3. sameFile \subseteq like /\ sameContainer \subseteq like
  OBVIOUS
<1> HIDE DEF like, sameFile, sameContainer
<1>4. {r} \subseteq like \/ refs = {r}
  BY <1>1, <1>3 DEF OrElse
<1>5. CASE refs = {r}
  <2>1. q = r
    BY <1>5
  <2> QED BY <1>5, <2>1
<1> QED BY <1>2, <1>4, <1>5

LEMMA Stays ==
  ASSUME Texts, Parsed, NEW at, at.uri \in URIs, NEW want \in BOOLEAN, NEW r \in UNION Jumps(at, want),
         Jumps(at, want) = {{r}}, BareName(r), ByName(at) \/ Prototype(r) = want
  PROVE  Jumps(r, want) = {{r}}
<1> DEFINE conn    == Connection(at)
           members == MemberLocations(ReceiverAt(at), Name(at))
           refs    == Resolved(at)
<1>1. Jumps(at, want) = IF conn # {} THEN {conn}
                        ELSE IF members # {} THEN {{s} : s \in members}
                        ELSE {Preferred(refs, s, want) : s \in refs}
  BY DEF Jumps, Destinations
<1>2. DeclaredAs(conn, Name(at)) /\ DeclaredAs(refs, Name(at))
  BY ConnectionIs, ResolvedAre DEF Name
<1>3. \A s \in members : s.uri \in URIs /\ s.idx \in Nat /\ Name(s) = Name(at)
                         /\ (ItemOf(s).t # "field" => s \in Refs(Name(at)))
  BY MembersAre
<1>4. ByName(at) => conn = {} /\ members = {}
  BY DEF ByName
<1> HIDE DEF conn, members, refs
<1>5. r \in Refs(Name(at)) /\ (ByName(at) => Preferred({r}, r, want) = {r} \/ Prototype(r) = want)
  <2>1. CASE conn # {}
    <3>1. r \in conn
      BY <1>1, <2>1
    <3> QED BY <1>2, <1>4, <2>1, <3>1 DEF DeclaredAs
  <2>2. CASE conn = {} /\ members # {}
    <3>1. r \in members /\ ItemOf(r).t # "field"
      <4>1. {r} \in {{s} : s \in members}
        BY <1>1, <2>2
      <4>2. r \in members
        BY <4>1
      <4> QED BY <4>2 DEF BareName
    <3> QED BY <1>3, <1>4, <2>2, <3>1
  <2>3. CASE conn = {} /\ members = {}
    <3>1. PICK q \in refs : Preferred(refs, q, want) = {r}
      BY <1>1, <2>3
    <3>2. Name(q) = Name(at) /\ q \in Refs(Name(at))
      BY <1>2, <3>1 DEF DeclaredAs, Name
    <3>3. \/ r \in Refs(Name(q)) /\ Prototype(r) = want
          \/ refs = {r} /\ Preferred({r}, r, want) = {r}
      BY <3>1, PreferredIs
    <3> QED BY <3>1, <3>2, <3>3
  <2> QED BY <2>1, <2>2, <2>3
<1>6. r.uri \in URIs /\ r.idx \in Named(r.uri, Name(at)) /\ r = Ref(r.uri, r.idx) /\ Name(r) = Name(at)
  BY <1>5, RefsIn
<1>7. Resolved(r) = {r}
  <2> DEFINE S == {i \in Named(r.uri, Name(r)) : Within(r.uri, i, r.idx)}
  <2>1. r.idx \in S /\ S \subseteq {r.idx} /\ r.idx \in Nat
    <3>1. r.idx \in Decls(r.uri) /\ r.idx \in Named(r.uri, Name(r))
      BY <1>6 DEF Named
    <3>2. r.idx \in Nat
      BY <1>6, <3>1 DEF Texts, Decls
    <3>3. Within(r.uri, r.idx, r.idx)
      <4>2. text[r.uri][r.idx].end \in Nat /\ r.idx < text[r.uri][r.idx].end
        BY <1>6, <3>1, SpanOf
      <4> QED BY <3>2, <4>2 DEF Within
    <3>4. \A i \in Named(r.uri, Name(r)) : i # r.idx => ~Within(r.uri, i, r.idx)
      BY DEF BareName, Namesake
    <3> QED BY <3>1, <3>2, <3>3, <3>4
  <2>2. S = {r.idx}
    BY <2>1
  <2>3. Min(S) = r.idx
    <3> HIDE DEF S
    <3> QED BY <2>1, <2>2 DEF Min
  <2>4. LookupSelf(r.uri, r.idx, Name(r)) = {r}
    BY <1>6, <2>2, <2>3 DEF LookupSelf
  <2> QED BY <2>4 DEF Resolved, ResolveAt, BareName, ResolveRefs, OrElse, Name
<1>8. Connection(r) = {} /\ MemberLocations(ReceiverAt(r), Name(r)) = {}
  BY DEF BareName, Connection, ReceiverAt, MemberLocations
<1>9. Jumps(r, want) = {Preferred({r}, r, want)}
  <2>1. Jumps(r, want) = {Preferred(Resolved(r), s, want) : s \in Resolved(r)}
    BY <1>8 DEF Jumps, Destinations
  <2> QED BY <1>7, <2>1
<1>10. Prototype(r) = want => Preferred({r}, r, want) = {r}
  BY DEF Preferred
<1> QED BY <1>5, <1>9, <1>10

LEMMA Pairs ==
  ASSUME NEW at, NEW p \in Refs(Name(at)), NEW b \in Refs(Name(at)),
         Prototype(p), ~Prototype(b), Resolved(at) \in {{p}, {b}}, Module(at) = NoModule, ~HasReceiver(at),
         {r \in Refs(Name(at)) : ItemOf(r).kind = ItemOf(p).kind} = {p, b}
  PROVE  Jumps(at, FALSE) = {{b}} /\ Jumps(at, TRUE) = {{p}}
<1>1. Connection(at) = {} /\ MemberLocations(ReceiverAt(at), Name(at)) = {}
  BY DEF Connection, ReceiverAt, MemberLocations
<1>2. Prototype(p) = TRUE /\ Prototype(b) = FALSE
  BY DEF Prototype
<1>3. ASSUME NEW x \in {p, b}, NEW want \in BOOLEAN, NEW y \in {p, b}, Prototype(y) = want,
             Resolved(at) = {x}
      PROVE  Jumps(at, want) = {{y}}
  <2>1. Jumps(at, want) = {Preferred({x}, x, want)}
    <3>1. Jumps(at, want) = {Preferred(Resolved(at), s, want) : s \in Resolved(at)}
      BY <1>1 DEF Jumps, Destinations
    <3> QED BY <1>3, <3>1
  <2>2. CASE Prototype(x) = want
    <3>1. x = y
      BY <1>2, <1>3, <2>2
    <3> QED BY <2>1, <2>2, <3>1 DEF Preferred
  <2>3. CASE Prototype(x) # want
    <3>1. Name(x) = Name(at) /\ ItemOf(x).kind = ItemOf(p).kind
      BY <1>3, RefsIn
    <3> DEFINE like == {s \in Refs(Name(x)) : ItemOf(s).kind = ItemOf(x).kind /\ Prototype(s) = want}
    <3>2. like = {s \in {p, b} : Prototype(s) = want}
      BY <3>1
    <3>3. {s \in {p, b} : Prototype(s) = want} = {y}
      BY <1>2, <1>3
    <3>4. like = {y}
      BY <3>2, <3>3
    <3>5. Preferred({x}, x, want) =
            OrElse({s \in like : s.uri = x.uri},
            OrElse({s \in like : ContainerName(s) # "" /\ ContainerName(s) = ContainerName(x)},
            OrElse(like, {x})))
      BY <2>3 DEF Preferred
    <3> HIDE DEF like
    <3>6. Preferred({x}, x, want) = {y}
      BY <3>4, <3>5 DEF OrElse
    <3> QED BY <2>1, <3>6
  <2> QED BY <2>2, <2>3
<1> QED BY <1>2, <1>3

LEMMA NamesGiven == ASSUME Parsed PROVE Refs("") = {}
<1>1. \A u \in URIs : Named(u, "") = {}
  BY SpanOf DEF Named
<1> QED BY <1>1 DEF Refs

LEMMA Offers ==
  ASSUME Texts, Parsed, NEW at, NEW m \in OfferedMembers(at)
  PROVE  \E n \in OfferedMembers(at) : Name(n) = Name(m) /\ n \in MemberLocations(ReceiverAt(at), Name(m))
<1> DEFINE recv == ReceiverAt(at)
           type == TypeName(recv)
           w    == Name(m)
<1>1. recv # {}
  <2> SUFFICES ASSUME recv = {} PROVE FALSE
    OBVIOUS
  <2>1. type = ""
    BY DEF TypeName
  <2>2. Structs("") = {} /\ Interfaces("") = {}
    BY NamesGiven DEF Structs, Interfaces
  <2>3. OfferedMembers(at) = {}
    BY <2>1, <2>2 DEF OfferedMembers, InterfaceMembers
  <2> QED BY <2>3
<1>2. type = ItemOf(PrimaryRef(recv)).of
  BY <1>1 DEF TypeName
<1>3. Field(type, w) \union InterfaceMember(type, w) # {}
        => IF Field(type, w) # {} THEN MemberLocations(recv, w) = Field(type, w)
           ELSE MemberLocations(recv, w) = InterfaceMember(type, w)
  BY <1>1, <1>2 DEF MemberLocations, OrElse
<1>. ConnectionList(at) = 0
  BY DEF OfferedMembers
<1>4. CASE Structs(type) # {}
  <2>1. OfferedMembers(at) = StructFields(type)
    BY <1>4 DEF OfferedMembers
  <2>2. Field(type, w) # {} /\ Field(type, w) \subseteq {f \in StructFields(type) : Name(f) = w}
    BY <2>1, FieldsAre
  <2>3. PICK n \in Field(type, w) : n \in StructFields(type) /\ Name(n) = w
    BY <2>2
  <2> QED BY <1>3, <2>1, <2>2, <2>3
<1>5. CASE Structs(type) = {}
  <2>1. OfferedMembers(at) = InterfaceMembers(type)
    BY <1>5 DEF OfferedMembers
  <2>2. PICK q \in Interfaces(type) : m \in {Ref(q.uri, i) : i \in {j \in Decls(q.uri) :
                                        /\ Parent(q.uri, j) = q.idx
                                        /\ text[q.uri][j].kind \in {"variable", "port"}}}
    BY <2>1 DEF InterfaceMembers
  <2>3. PICK i \in Decls(q.uri) : m = Ref(q.uri, i) /\ Parent(q.uri, i) = q.idx
    BY <2>2
  <2>4. text[q.uri][i].name = w
    BY <2>3 DEF Name, ItemOf, Ref
  <2>5. m \in ChildRefs(q.uri, q.idx, w)
    BY <2>3, <2>4 DEF ChildRefs, Named
  <2>6. m \in InterfaceMember(type, w)
    BY <2>2, <2>5 DEF InterfaceMember, ChildrenOf
  <2>7. Field(type, w) = {}
    BY <1>5 DEF Field, StructFields, First
  <2> QED BY <1>3, <2>6, <2>7
<1> QED BY <1>4, <1>5

(* Definition, declaration, hover and completion agree in every workspace   *)
(* that parses: the copies of the order connection, member, name (in        *)
(* resolveWordAt and memberLocation of handlers.go, and in hover.go) lead   *)
(* to the same declarations, and a jump repeated from where it led stays    *)
(* there.                                                                   *)
THEOREM JumpsTogether == Spec => []JumpsAgree
<1>1. Spec => []Texts
  BY TextsInit, TextsStep, PTL DEF Spec
<1>2. Spec => []Fresh
  BY FreshInvariant
<1>3. Texts /\ Fresh => JumpsAgree
  <2> SUFFICES ASSUME Texts, Fresh, NEW at \in Asked
               PROVE  /\ HoverAgrees(Hover(at), Jumps(at, FALSE), Jumps(at, TRUE))
                      /\ \A want \in BOOLEAN : \A r \in UNION Jumps(at, want) :
                            /\ Jumps(at, want) = {{r}} /\ BareName(r)
                            /\ ByName(at) \/ Prototype(r) = want
                            => Jumps(r, want) = {{r}}
                      /\ \A p, b \in Refs(Name(at)) :
                            /\ Prototype(p) /\ ~Prototype(b) /\ Resolved(at) \in {{p}, {b}}
                            /\ Module(at) = NoModule /\ ~HasReceiver(at)
                            /\ {r \in Refs(Name(at)) : ItemOf(r).kind = ItemOf(p).kind} = {p, b}
                            => Jumps(at, FALSE) = {{b}} /\ Jumps(at, TRUE) = {{p}}
                      /\ \A m \in OfferedMembers(at) :
                            \E n \in OfferedMembers(at) :
                               Name(n) = Name(m) /\ n \in MemberLocations(ReceiverAt(at), Name(m))
    BY DEF JumpsAgree
  <2>1. at.uri \in URIs
    BY DEF Asked, Occurrences, Tokens, Ref
  <2>2. Parsed
    BY FreshParsed DEF Asked
  <2>3. HoverAgrees(Hover(at), Jumps(at, FALSE), Jumps(at, TRUE))
    BY <2>1, Hovers
  <2>4. ASSUME NEW want \in BOOLEAN, NEW r \in UNION Jumps(at, want), Jumps(at, want) = {{r}},
               BareName(r), ByName(at) \/ Prototype(r) = want
        PROVE  Jumps(r, want) = {{r}}
    BY <2>1, <2>2, <2>4, Stays
  <2>5. ASSUME NEW p \in Refs(Name(at)), NEW b \in Refs(Name(at)),
               Prototype(p), ~Prototype(b), Resolved(at) \in {{p}, {b}},
               Module(at) = NoModule, ~HasReceiver(at),
               {r \in Refs(Name(at)) : ItemOf(r).kind = ItemOf(p).kind} = {p, b}
        PROVE  Jumps(at, FALSE) = {{b}} /\ Jumps(at, TRUE) = {{p}}
    BY <2>5, Pairs
  <2>6. \A m \in OfferedMembers(at) :
           \E n \in OfferedMembers(at) :
              Name(n) = Name(m) /\ n \in MemberLocations(ReceiverAt(at), Name(m))
    BY <2>2, Offers
  <2> QED BY <2>3, <2>4, <2>5, <2>6
<1> QED BY <1>1, <1>2, <1>3, PTL

-------------------------------------------------------------------------------
(* Accesses to the fields of a struct.                                       *)

\* The scopes a position stands in.
Scopes(u, pos) == {c \in Decls(u) : text[u][c].kind \in ContainerKinds /\ Within(u, c, pos)}

\* They are nested, so of any of them one is the narrowest.
LEMMA NarrowestIs ==
  ASSUME Parsed, NEW u \in URIs, NEW pos \in Nat, NEW S \in SUBSET Scopes(u, pos), S # {}
  PROVE  Narrowest(u, S) \in S /\ \A d \in S : Narrower(u, Narrowest(u, S), d)
<1>1. \A c \in S : c \in Decls(u) /\ c \in Nat /\ c <= pos /\ pos < text[u][c].end
  BY DEF Parsed, Items, Decls, Scopes, Within
<1>2. PICK m \in S : \A k \in S : k <= m
  <2>1. S \subseteq 0 .. pos
    BY <1>1
  <2> QED BY <2>1, Greatest
<1>3. ASSUME NEW d \in S PROVE Narrower(u, m, d)
  <2>1. /\ m \in Decls(u) /\ m \in Nat /\ m <= pos
        /\ d \in Decls(u) /\ d \in Nat /\ pos < text[u][d].end /\ d <= m
    BY <1>1, <1>2
  <2>2. text[u][m].end \in Nat /\ text[u][d].end \in Nat
    BY <2>1, SpanOf
  <2>3. d < m => text[u][m].end <= text[u][d].end
    <3>1. m < text[u][d].end
      BY <2>1, <2>2
    <3> QED BY <2>1, <3>1 DEF Parsed, Nested
  <2> QED BY <2>1, <2>2, <2>3 DEF Narrower
<1>4. Narrowest(u, S) = CHOOSE c \in S : \A d \in S : Narrower(u, c, d)
  BY DEF Narrowest
<1> QED BY <1>3, <1>4

LEMMA InnermostIs ==
  ASSUME Parsed, NEW u \in URIs, NEW pos \in Nat
  PROVE  IF Scopes(u, pos) = {} THEN InnermostContaining(u, pos) = FileScope
         ELSE /\ InnermostContaining(u, pos) \in Scopes(u, pos)
              /\ InnermostContaining(u, pos) # FileScope
              /\ \A d \in Scopes(u, pos) : Narrower(u, InnermostContaining(u, pos), d)
<1>1. InnermostContaining(u, pos) = Narrowest(u, Scopes(u, pos))
  BY DEF InnermostContaining, Scopes
<1>2. FileScope \notin Scopes(u, pos)
  BY DEF Parsed, Items, Decls, Scopes
<1>3. Scopes(u, pos) = {} => Narrowest(u, Scopes(u, pos)) = FileScope
  BY DEF Narrowest
<1> QED BY <1>1, <1>2, <1>3, NarrowestIs

\* Two accesses in one scope stand in the same declarations.
LEMMA SameAround ==
  ASSUME Parsed, NEW u \in URIs, NEW p \in DOMAIN text[u], NEW q \in DOMAIN text[u],
         ReceiverOf(text[u], p) > 0,
         InnermostContaining(u, p) = InnermostContaining(u, q), NEW i \in Decls(u), Within(u, i, p)
  PROVE  Within(u, i, q)
<1>1. p \in Nat /\ q \in Nat /\ i \in Nat
  BY DEF Parsed, Items, Decls
<1>2. text[u][i].end \in Nat /\ i <= p /\ p < text[u][i].end
  BY SpanOf DEF Within
<1>3. text[u][i].kind \in ContainerKinds
  <2> SUFFICES ASSUME text[u][i].kind \notin ContainerKinds PROVE FALSE
    OBVIOUS
  <2>1. text[u][i].end = i + 1
    BY SpanOf
  <2>2. p = i
    BY <1>1, <1>2, <2>1
  <2>3. ReceiverOf(text[u], i) = 0
    BY <2>2 DEF Parsed, Items
  <2> QED BY <2>2, <2>3
<1> DEFINE c == InnermostContaining(u, p)
<1>4. i \in Scopes(u, p)
  BY <1>3 DEF Scopes
<1>5. c # FileScope /\ Narrower(u, c, i)
  BY <1>1, <1>4, InnermostIs
<1>6. c \in Scopes(u, q)
  <2>1. c = InnermostContaining(u, q)
    OBVIOUS
  <2> QED BY <1>1, <1>5, <2>1, InnermostIs
<1>7. c \in Decls(u) /\ c <= q /\ q < text[u][c].end
  BY <1>6 DEF Scopes, Within
<1>8. c \in Nat /\ text[u][c].end \in Nat /\ c >= i /\ text[u][c].end <= text[u][i].end
  BY <1>5, <1>7, SpanOf DEF Narrower, Parsed, Items, Decls
<1> HIDE DEF c
<1> QED BY <1>1, <1>2, <1>7, <1>8 DEF Within

LEMMA SameResolution ==
  ASSUME Parsed, NEW u \in URIs, NEW p \in DOMAIN text[u], NEW q \in DOMAIN text[u],
         ReceiverOf(text[u], p) > 0, ReceiverOf(text[u], q) > 0,
         InnermostContaining(u, p) = InnermostContaining(u, q), NEW w
  PROVE  ResolveRefs(u, p, w) = ResolveRefs(u, q, w)
<1>1. {i \in Named(u, w) : Within(u, i, p)} = {i \in Named(u, w) : Within(u, i, q)}
  <2>1. \A i \in Named(u, w) : Within(u, i, p) => Within(u, i, q)
    BY SameAround DEF Named
  <2>2. \A i \in Named(u, w) : Within(u, i, q) => Within(u, i, p)
    BY SameAround DEF Named
  <2> QED BY <2>1, <2>2
<1>2. LookupSelf(u, p, w) = LookupSelf(u, q, w)
  BY <1>1 DEF LookupSelf
<1>3. AncestorScopes(u, p) = AncestorScopes(u, q)
  BY DEF AncestorScopes
<1>4. LookupInScope(u, p, w) = LookupInScope(u, q, w)
  BY <1>3 DEF LookupInScope
<1>5. LookupInImports(u, p, w) = LookupInImports(u, q, w)
  BY <1>3 DEF LookupInImports
<1> QED BY <1>2, <1>4, <1>5 DEF ResolveRefs

LEMMA StructOf ==
  ASSUME Texts, NEW x, NEW f \in StructFields(x)
  PROVE  \E r \in Refs(x) : r.uri = f.uri /\ f.idx \in Fields(r.uri, r.idx)
<1>1. Structs(x) # {}
  BY DEF StructFields
<1>2. Placed(Structs(x))
  BY RefsAre DEF Structs, Placed, DeclaredAs
<1>3. PrimaryRef(Structs(x)) \in Structs(x)
  BY <1>1, <1>2, PrimaryIs
<1>4. f \in {Ref(PrimaryRef(Structs(x)).uri, j) :
               j \in Fields(PrimaryRef(Structs(x)).uri, PrimaryRef(Structs(x)).idx)}
  BY <1>1 DEF StructFields
<1> QED BY <1>3, <1>4 DEF Ref, Structs

\* A field stands before the name of one struct only.
LEMMA OneStruct ==
  ASSUME Texts, NEW type, NEW other, NEW f \in StructFields(type), f \in StructFields(other)
  PROVE  type = other
<1>2. PICK r \in Refs(type) : r.uri = f.uri /\ f.idx \in Fields(r.uri, r.idx)
  BY StructOf
<1>3. PICK s \in Refs(other) : s.uri = f.uri /\ f.idx \in Fields(s.uri, s.idx)
  BY StructOf
<1>4. ASSUME NEW x \in {r, s}
      PROVE  /\ x.idx \in Nat /\ text[f.uri][x.idx].t # "field"
             /\ f.idx \in 1 .. x.idx - 1 /\ \A k \in f.idx .. x.idx - 1 : text[f.uri][k].t = "field"
  <2>1. x.uri = f.uri /\ x.uri \in URIs /\ x.idx \in Decls(x.uri) /\ f.idx \in Fields(x.uri, x.idx)
    BY <1>2, <1>3, RefsIn DEF Named
  <2> QED BY <2>1 DEF Fields, Decls, Texts
<1>5. r.idx = s.idx
  <2>1. /\ r.idx \in Nat /\ text[f.uri][r.idx].t # "field"
        /\ f.idx \in 1 .. r.idx - 1 /\ \A k \in f.idx .. r.idx - 1 : text[f.uri][k].t = "field"
    BY <1>4
  <2>2. /\ s.idx \in Nat /\ text[f.uri][s.idx].t # "field"
        /\ f.idx \in 1 .. s.idx - 1 /\ \A k \in f.idx .. s.idx - 1 : text[f.uri][k].t = "field"
    BY <1>4
  <2>3. ~(r.idx < s.idx)
    <3> SUFFICES ASSUME r.idx < s.idx PROVE FALSE
      OBVIOUS
    <3>1. r.idx \in f.idx .. s.idx - 1
      BY <2>1, <2>2
    <3> QED BY <2>1, <2>2, <3>1
  <2>4. ~(s.idx < r.idx)
    <3> SUFFICES ASSUME s.idx < r.idx PROVE FALSE
      OBVIOUS
    <3>1. s.idx \in f.idx .. r.idx - 1
      BY <2>1, <2>2
    <3> QED BY <2>1, <2>2, <3>1
  <2> QED BY <2>1, <2>2, <2>3, <2>4
<1>6. r = s
  BY <1>2, <1>3, <1>5, RefsIn
<1> QED BY <1>2, <1>3, <1>6, RefsIn

LEMMA TokensIn ==
  ASSUME Texts, NEW w, NEW o \in Occurrences(w)
  PROVE  /\ o.uri \in URIs /\ o.idx \in DOMAIN text[o.uri] /\ o.idx \in Nat /\ Name(o) = w
BY DEF Occurrences, Tokens, IsIdent, Ref, Name, ItemOf, Texts

\* An access of type "" is one without a receiver, and no field has that.
LEMMA NoField ==
  ASSUME Texts, Parsed, NEW o, NEW w, ~HasReceiver(o)
  PROVE  Field(TypeName(ReceiverAt(o)), w) = {}
<1>1. TypeName(ReceiverAt(o)) = ""
  BY DEF ReceiverAt, TypeName
<1>2. StructFields("") = {}
  BY NamesGiven DEF StructFields, Structs
<1> QED BY <1>1, <1>2, FieldsAre

\* The first access with a key is in the same scope, so it has the same type.
LEMMA RememberedType ==
  ASSUME Texts, Parsed, NEW w, NEW o \in Occurrences(w), HasReceiver(o)
  PROVE  ReceiverType(PrimaryRef({p \in {q \in Occurrences(w) : HasReceiver(q)} : MemoKey(p) = MemoKey(o)}))
           = ReceiverType(o)
<1> DEFINE S == {p \in {q \in Occurrences(w) : HasReceiver(q)} : MemoKey(p) = MemoKey(o)}
           p == PrimaryRef(S)
<1>1. Placed(S)
  BY TokensIn DEF Placed
<1>2. p \in S
  <2> HIDE DEF S
  <2>1. S # {}
    BY DEF S
  <2> QED BY <1>1, <2>1, PrimaryIs
<1> HIDE DEF p
<1>3. p \in Occurrences(w) /\ HasReceiver(p) /\ MemoKey(p) = MemoKey(o)
  BY <1>2
<1>4. /\ p.uri = o.uri /\ Name(Receiver(p)) = Name(Receiver(o))
      /\ InnermostContaining(p.uri, p.idx) = InnermostContaining(o.uri, o.idx)
  BY <1>3 DEF MemoKey
<1>5. /\ o.uri \in URIs /\ o.idx \in DOMAIN text[o.uri] /\ p.idx \in DOMAIN text[o.uri]
      /\ ReceiverOf(text[o.uri], o.idx) > 0 /\ ReceiverOf(text[o.uri], p.idx) > 0
  BY <1>3, <1>4, TokensIn DEF HasReceiver
<1>6. ResolveRefs(o.uri, p.idx, Name(Receiver(o))) = ResolveRefs(o.uri, o.idx, Name(Receiver(o)))
  BY <1>4, <1>5, SameResolution
<1>7. ReceiverType(p) = ReceiverType(o)
  BY <1>4, <1>6 DEF ReceiverType
<1> QED BY <1>7 DEF p

LEMMA AccessType ==
  ASSUME NEW o, HasReceiver(o), ~QualifiedReceiver(o)
  PROVE  TypeName(ReceiverAt(o)) = ReceiverType(o)
BY DEF ReceiverType, ReceiverAt, ResolveAt, QualifiedReceiver

LEMMA FieldsBare ==
  ASSUME NEW u, Items(u), NEW i \in DOMAIN text[u], text[u][i].t = "field"
  PROVE  ReceiverOf(text[u], i) = 0
BY DEF Items

LEMMA Accesses ==
  ASSUME Texts, Parsed, NEW at \in Asked, NEW f \in FieldAt(at), Module(at) = NoModule,
         NEW o \in Occurrences(Name(at)), ~QualifiedReceiver(o)
  PROVE  o \in Found(at) <=> (o = f \/ f \in FieldAt(o))
<1> DEFINE w == Name(at)
           T == TypeName(ReceiverAt(at))
<1>1. f \in Field(T, w) /\ Field(T, w) \subseteq {g \in StructFields(T) : Name(g) = w}
  BY FieldsAre DEF FieldAt
<1>2. Field(T, w) = {f}
  BY <1>1 DEF Field, First
<1>3. ~HasReceiver(f)
  <2>1. f.uri \in URIs /\ ItemOf(f).t = "field"
    BY <1>1, FieldsAre DEF Placed
  <2>2. PICK r \in Refs(T) : r.uri = f.uri /\ f.idx \in Fields(r.uri, r.idx)
    BY <1>1, StructOf
  <2>3. r.idx \in DOMAIN text[f.uri] /\ f.idx \in 1 .. r.idx - 1
    BY <2>2, RefsIn DEF Fields, Named, Decls
  <2>4. Items(f.uri)
    BY <2>1 DEF Parsed
  <2>5. f.idx \in DOMAIN text[f.uri]
    BY <2>3, <2>4 DEF Items
  <2>6. ReceiverOf(text[f.uri], f.idx) = 0
    <3>1. text[f.uri][f.idx].t = "field"
      BY <2>1 DEF ItemOf
    <3> QED BY <2>4, <2>5, <3>1, FieldsBare
  <2> QED BY <2>6 DEF HasReceiver
<1>4. HasReceiver(at)
  BY <1>1, NoField
<1>5. o \in Found(at) <=> \/ HasReceiver(o) /\ ReceiverType(o) = T
                          \/ o = f
  <2>1. Found(at) = FieldOccurrences(T, w)
    BY DEF Found
  <2> DEFINE accesses == {q \in Occurrences(w) : HasReceiver(q)}
             Remembered(q) == PrimaryRef({p \in accesses : MemoKey(p) = MemoKey(q)})
  <2>2. FieldOccurrences(T, w) = {q \in accesses : ReceiverType(Remembered(q)) = T}
                                    \union {g \in Field(T, w) : ~HasReceiver(g)}
    BY DEF FieldOccurrences
  <2>3. o \in {g \in Field(T, w) : ~HasReceiver(g)} <=> o = f
    BY <1>2, <1>3
  <2>4. HasReceiver(o) => ReceiverType(Remembered(o)) = ReceiverType(o)
    BY RememberedType
  <2>5. o \in accesses <=> HasReceiver(o)
    OBVIOUS
  <2> HIDE DEF accesses, Remembered
  <2> QED BY <2>1, <2>2, <2>3, <2>4, <2>5
<1>6. f \in FieldAt(o) <=> HasReceiver(o) /\ TypeName(ReceiverAt(o)) = T
  <2>1. Name(o) = w
    BY TokensIn
  <2>2. FieldAt(o) = Field(TypeName(ReceiverAt(o)), w)
    BY <2>1 DEF FieldAt
  <2>3. ASSUME f \in FieldAt(o) PROVE HasReceiver(o) /\ TypeName(ReceiverAt(o)) = T
    <3>1. HasReceiver(o)
      BY <2>2, <2>3, NoField
    <3>2. f \in StructFields(TypeName(ReceiverAt(o))) /\ f \in StructFields(T)
      BY <1>1, <2>2, <2>3, FieldsAre
    <3> QED BY <3>1, <3>2, OneStruct
  <2> QED BY <1>1, <2>2, <2>3
<1>7. HasReceiver(o) => TypeName(ReceiverAt(o)) = ReceiverType(o)
  BY AccessType
<1> QED BY <1>5, <1>6, <1>7

-------------------------------------------------------------------------------
(* The scope chain.                                                          *)

LEMMA TreeOf ==
  ASSUME Parsed, NEW u \in URIs, NEW i \in DOMAIN text[u]
  PROVE  /\ Parent(u, i) \in Nat /\ Parent(u, i) < i /\ i \in Nat /\ i # FileScope
         /\ Parent(u, i) # FileScope
              => /\ Parent(u, i) \in Decls(u) /\ text[u][Parent(u, i)].t = "open"
                 /\ text[u][Parent(u, i)].kind \in ContainerKinds /\ i < text[u][Parent(u, i)].end
         /\ \A c \in Decls(u) : c < i /\ i < text[u][c].end => c <= Parent(u, i)
         /\ text[u][i].kind = "argument" => /\ Parent(u, i) # FileScope
                                            /\ text[u][Parent(u, i)].kind \in Subprograms
<1>1. Tree(u) /\ Items(u)
  BY DEF Parsed
<1> QED BY <1>1 DEF Tree, Items

LEMMA NestedIn ==
  ASSUME Parsed, NEW u \in URIs, NEW i \in Decls(u), NEW c \in Decls(u), i < c, c < text[u][i].end
  PROVE  text[u][c].end <= text[u][i].end
<1>1. Nested(u)
  BY DEF Parsed
<1> QED BY <1>1 DEF Nested

LEMMA ClimbIs ==
  ASSUME NEW u, NEW n \in Nat, NEW climb,
         \A i \in 1 .. n : Parent(u, i) \in 0 .. i - 1,
         climb = CHOOSE h : h = [i \in 0 .. n |-> IF i = FileScope THEN {} ELSE {i} \union h[Parent(u, i)]]
  PROVE  climb = [i \in 0 .. n |-> IF i = FileScope THEN {} ELSE {i} \union climb[Parent(u, i)]]
<1> DEFINE a(h, i) == IF i = FileScope THEN {} ELSE {i} \union h[Parent(u, i)]
           T == {m \in 0 .. n : ~ \E h : h = [i \in 0 .. m |-> a(h, i)]}
<1>1. T \subseteq Nat
  OBVIOUS
<1>2. T = {}
  <2> SUFFICES ASSUME T # {} PROVE FALSE
    OBVIOUS
  <2>1. PICK m \in T : \A k \in T : m <= k
    BY <1>1, Least
  <2>2. CASE m = 0
    <3> DEFINE h == [i \in 0 .. 0 |-> {}]
    <3>1. h = [i \in 0 .. 0 |-> a(h, i)]
      BY DEF FileScope
    <3> QED BY <2>1, <2>2, <3>1
  <2>3. CASE m # 0
    <3>1. PICK h : h = [i \in 0 .. m - 1 |-> a(h, i)]
      <4>1. m \in 0 .. n
        BY <2>1
      <4>2. m - 1 \in 0 .. n /\ m - 1 \notin T
        <5> HIDE DEF T
        <5> QED BY <1>1, <2>1, <2>3, <4>1
      <4> QED BY <4>2, Zenon
    <3> DEFINE f == [i \in 0 .. m |-> IF i = m THEN a(h, m) ELSE h[i]]
    <3>2. f = [i \in 0 .. m |-> a(f, i)]
      <4>1. ASSUME NEW i \in 0 .. m PROVE f[i] = a(f, i)
        <5>1. i # FileScope => f[Parent(u, i)] = h[Parent(u, i)]
          <6> SUFFICES ASSUME i # FileScope PROVE f[Parent(u, i)] = h[Parent(u, i)]
            OBVIOUS
          <6>1. i \in 1 .. n /\ m \in 0 .. n
            BY <2>1 DEF FileScope
          <6>2. Parent(u, i) \in 0 .. m /\ Parent(u, i) # m
            BY <6>1
          <6> QED BY <6>2
        <5>2. f[i] = a(h, i)
          <6>1. CASE i = m
            BY <6>1
          <6>2. CASE i # m
            <7>1. f[i] = h[i] /\ i \in 0 .. m - 1
              BY <6>2, <2>1, <1>1
            <7> HIDE DEF a, f
            <7> QED BY <7>1, <3>1
          <6> QED BY <6>1, <6>2
        <5> QED BY <5>1, <5>2
      <4> HIDE DEF a
      <4> QED BY <4>1
    <3> QED BY <2>1, <3>2
  <2> QED BY <2>2, <2>3
<1>3. \E h : h = [i \in 0 .. n |-> a(h, i)]
  <2>1. n \in 0 .. n /\ n \notin T
    <3> HIDE DEF T
    <3> QED BY <1>2
  <2> HIDE DEF a
  <2> QED BY <2>1, Zenon
<1> QED BY <1>3

\* The chain of parents of the innermost scope is every scope around the position.
LEMMA AncestorsAre ==
  ASSUME Parsed, NEW u \in URIs, NEW pos \in Nat
  PROVE  AncestorScopes(u, pos) = Scopes(u, pos)
<1> DEFINE n == Len(text[u])
           climb == CHOOSE h : h = [i \in 0 .. n |-> IF i = FileScope THEN {} ELSE {i} \union h[Parent(u, i)]]
           Around(i) == {d \in Decls(u) : d < i /\ i < text[u][d].end}
           c == InnermostContaining(u, pos)
<1>1. AncestorScopes(u, pos) = climb[c]
  BY DEF AncestorScopes
<1>2. n \in Nat /\ DOMAIN text[u] = 1 .. n
  BY DEF Parsed, Tree
<1>3. \A i \in 1 .. n : Parent(u, i) \in 0 .. i - 1
  <2> SUFFICES ASSUME NEW i \in 1 .. n PROVE Parent(u, i) \in 0 .. i - 1
    OBVIOUS
  <2>1. Parent(u, i) \in Nat /\ Parent(u, i) < i
    BY <1>2, TreeOf
  <2> QED BY <1>2, <2>1
<1> HIDE DEF n
<1>4. climb = [i \in 0 .. n |-> IF i = FileScope THEN {} ELSE {i} \union climb[Parent(u, i)]]
  BY <1>2, <1>3, ClimbIs
<1> HIDE DEF climb
<1>5. climb[FileScope] = {} /\ \A i \in 1 .. n : climb[i] = {i} \union climb[Parent(u, i)]
  <2>1. FileScope \in 0 .. n
    BY <1>2 DEF FileScope
  <2>2. \A i \in 1 .. n : i \in 0 .. n /\ i # FileScope
    BY DEF FileScope
  <2> QED BY <1>4, <2>1, <2>2
<1>6. \A d \in Decls(u) : d \in 1 .. n /\ d \in Nat /\ text[u][d].end \in Nat /\ d < text[u][d].end
  <2> SUFFICES ASSUME NEW d \in Decls(u)
               PROVE  d \in 1 .. n /\ d \in Nat /\ text[u][d].end \in Nat /\ d < text[u][d].end
    OBVIOUS
  <2>1. d \in 1 .. n
    BY <1>2 DEF Decls
  <2>2. text[u][d].end \in Nat /\ d < text[u][d].end
    BY SpanOf
  <2>3. d \in Nat
    BY <1>2, <2>1
  <2> QED BY <2>1, <2>2, <2>3
<1>7. \A i \in 1 .. n : climb[i] = {i} \union Around(i)
  <2> DEFINE T == {i \in 1 .. n : climb[i] # {i} \union Around(i)}
  <2> SUFFICES ASSUME T # {} PROVE FALSE
    OBVIOUS
  <2>1. T \subseteq Nat
    OBVIOUS
  <2>2. PICK i \in T : \A k \in T : i <= k
    BY <2>1, Least
  <2>3. i \in 1 .. n /\ i \in DOMAIN text[u]
    BY <1>2, <2>2
  <2> DEFINE p == Parent(u, i)
  <2>4. /\ p \in Nat /\ p < i
        /\ p # FileScope => p \in Decls(u) /\ i < text[u][p].end
        /\ \A d \in Decls(u) : d < i /\ i < text[u][d].end => d <= p
    BY <2>3, TreeOf
  <2>5. climb[i] = {i} \union climb[p]
    BY <1>5, <2>3
  <2>6. climb[i] # {i} \union Around(i)
    BY <2>2
  <2> HIDE DEF p
  <2>7. CASE p = FileScope
    <3>1. Around(i) = {}
      BY <1>6, <2>4, <2>7 DEF FileScope
    <3> QED BY <1>5, <2>5, <2>6, <2>7, <3>1
  <2>8. CASE p # FileScope
    <3>1. p \in Decls(u) /\ i < text[u][p].end /\ p \in 1 .. n /\ p \notin T
      BY <1>6, <2>2, <2>3, <2>4, <2>8
    <3>2. climb[p] = {p} \union Around(p)
      BY <3>1
    <3>3. ASSUME NEW d \in Around(p) PROVE d \in Around(i)
      <4>1. d \in Decls(u) /\ d < p /\ p < text[u][d].end
        OBVIOUS
      <4>2. text[u][p].end <= text[u][d].end
        BY <3>1, <4>1, NestedIn
      <4>3. d < i /\ i < text[u][d].end
        BY <1>6, <2>3, <2>4, <3>1, <4>1, <4>2
      <4> QED BY <4>1, <4>3
    <3>4. ASSUME NEW d \in Around(i), d # p PROVE d \in Around(p)
      <4>1. d \in Decls(u) /\ d < i /\ i < text[u][d].end
        OBVIOUS
      <4>2. d <= p
        BY <2>4, <4>1
      <4>3. d < p /\ p < text[u][d].end
        BY <1>6, <2>3, <2>4, <3>4, <4>1, <4>2
      <4> QED BY <4>1, <4>3
    <3>5. p \in Around(i)
      BY <2>4, <3>1
    <3>6. Around(i) = {p} \union Around(p)
      <4> HIDE DEF Around
      <4> QED BY <3>3, <3>4, <3>5
    <3> QED BY <2>5, <2>6, <3>2, <3>6
  <2> QED BY <2>7, <2>8
<1>8. IF Scopes(u, pos) = {} THEN c = FileScope
      ELSE c # FileScope /\ c \in Scopes(u, pos) /\ \A d \in Scopes(u, pos) : Narrower(u, c, d)
  BY InnermostIs DEF Scopes
<1>9. CASE Scopes(u, pos) = {}
  BY <1>1, <1>5, <1>8, <1>9
<1>10. CASE Scopes(u, pos) # {}
  <2>1. c \in Scopes(u, pos) /\ \A d \in Scopes(u, pos) : Narrower(u, c, d)
    BY <1>8, <1>10
  <2>2. c \in Decls(u) /\ c \in 1 .. n /\ c \in Nat /\ text[u][c].end \in Nat /\ c <= pos /\ pos < text[u][c].end
    BY <1>6, <2>1 DEF Scopes, Within
  <2>3. AncestorScopes(u, pos) = {c} \union Around(c)
    BY <1>1, <1>7, <2>2
  <2> HIDE DEF c
  <2>4. ASSUME NEW d \in Around(c) PROVE d \in Scopes(u, pos)
    <3>1. d \in Decls(u) /\ d < c /\ c < text[u][d].end
      OBVIOUS
    <3>2. text[u][c].end <= text[u][d].end
      BY <2>2, <3>1, NestedIn
    <3>3. d \in Nat /\ text[u][d].end \in Nat
      BY <1>6, <3>1
    <3>4. d <= pos /\ pos < text[u][d].end
      BY <2>2, <3>1, <3>2, <3>3
    <3>5. text[u][d].kind \in ContainerKinds
      <4>1. text[u][d].kind \notin ContainerKinds => text[u][d].end = d + 1
        BY <3>1, SpanOf
      <4>2. text[u][d].end # d + 1
        BY <2>2, <3>1, <3>3
      <4> QED BY <4>1, <4>2
    <3> QED BY <3>1, <3>4, <3>5 DEF Scopes, Within
  <2>5. ASSUME NEW d \in Scopes(u, pos), d # c PROVE d \in Around(c)
    <3>1. d \in Decls(u) /\ d <= pos /\ pos < text[u][d].end
      BY DEF Scopes, Within
    <3>2. c >= d
      BY <2>1 DEF Narrower
    <3>3. d < c /\ c < text[u][d].end
      BY <1>6, <2>2, <2>5, <3>1, <3>2
    <3> QED BY <3>1, <3>3
  <2> HIDE DEF Around
  <2> QED BY <2>1, <2>3, <2>4, <2>5
<1> QED BY <1>9, <1>10

-------------------------------------------------------------------------------
(* References.                                                               *)

LEMMA ScopeIs ==
  ASSUME NEW r, ContainerScope(r) # FileScope
  PROVE  /\ ContainerScope(r) = Parent(r.uri, r.idx) /\ Parent(r.uri, r.idx) # FileScope
         /\ ItemOf(r).kind \notin GlobalKinds
         /\ text[r.uri][Parent(r.uri, r.idx)].kind
              \in IF ItemOf(r).kind = "argument" THEN Subprograms ELSE PortContainers
BY DEF ContainerScope

LEMMA ChildIs ==
  ASSUME NEW u, NEW c, NEW w, NEW r \in ChildRefs(u, c, w)
  PROVE  \/ r.uri = u /\ Parent(r.uri, r.idx) = c
         \/ r.uri \in MembersOf(u, c) /\ Parent(r.uri, r.idx) = FileScope
BY DEF ChildRefs, Ref

\* What a package declares can be named everywhere.
LEMMA PackageMembers ==
  ASSUME NEW owners, \A q \in owners : ItemOf(q).kind \in {"package", "class"},
         NEW w, NEW r \in ChildrenOf(owners, w)
  PROVE  ContainerScope(r) = FileScope
<1>1. PICK q \in owners : r \in ChildRefs(q.uri, q.idx, w)
  BY DEF ChildrenOf
<1>2. Parent(r.uri, r.idx) = FileScope
         \/ text[r.uri][Parent(r.uri, r.idx)].kind \in {"package", "class"}
  BY <1>1, ChildIs DEF ItemOf
<1>3. \A k \in {"package", "class"} : k \notin Subprograms /\ k \notin PortContainers
  BY DEF Subprograms, PortContainers
<1> QED BY <1>2, <1>3, ScopeIs

LEMMA ImportedAre ==
  ASSUME NEW u, NEW scopes, NEW w, NEW r \in ThroughImports(u, scopes, w)
  PROVE  ContainerScope(r) = FileScope
<1>1. \A v, imp : \A q \in ImportMembers(v, imp, w) : ContainerScope(q) = FileScope
  <2> SUFFICES ASSUME NEW v, NEW imp, NEW q \in ImportMembers(v, imp, w) PROVE ContainerScope(q) = FileScope
    OBVIOUS
  <2> DEFINE packages == {p \in Refs(text[v][imp].name) : ItemOf(p).kind = "package"}
  <2>1. q \in ChildrenOf(packages, w)
    BY DEF ImportMembers
  <2>2. \A p \in packages : ItemOf(p).kind \in {"package", "class"}
    OBVIOUS
  <2> HIDE DEF packages
  <2> QED BY <2>1, <2>2, PackageMembers
<1> QED BY <1>1 DEF ThroughImports, IncludedImports, OrElse

\* A name that is declared in the body of a module and written bare stands in that
\* body, unless the body is spread over files.
LEMMA InBody ==
  ASSUME Texts, Parsed, NEW o, o.uri \in URIs, o.idx \in Nat, NEW w,
         NEW r \in ResolveRefs(o.uri, o.idx, w), ~SpreadOverFiles(r), ContainerScope(r) # FileScope
  PROVE  InScope(o, r, ContainerScope(r))
<1> DEFINE u == o.uri
           pos == o.idx
           p == Parent(r.uri, r.idx)
<1>1. ContainerScope(r) = p /\ p # FileScope /\ ItemOf(r).kind \notin GlobalKinds
  BY ScopeIs
<1>2. r \in LookupSelf(u, pos, w) => r.uri = u /\ Within(u, p, pos)
  <2> SUFFICES ASSUME r \in LookupSelf(u, pos, w) PROVE r.uri = u /\ Within(u, p, pos)
    OBVIOUS
  <2> DEFINE at == {i \in Named(u, w) : Within(u, i, pos)}
  <2>1. at # {} /\ r = Ref(u, Min(at))
    BY DEF LookupSelf
  <2>2. Min(at) \in at
    <3>1. at \subseteq Nat
      BY NamedAre
    <3> HIDE DEF at
    <3> QED BY <2>1, <3>1, Least DEF Min
  <2>3. r.uri = u /\ r.idx \in at
    BY <2>1, <2>2 DEF Ref
  <2>4. r.idx \in Decls(u) /\ r.idx \in DOMAIN text[u] /\ r.idx <= pos /\ pos < text[u][r.idx].end
    BY <2>3 DEF Named, Within, Decls
  <2>5. /\ p \in Nat /\ p < r.idx /\ r.idx \in Nat
        /\ p \in Decls(u) /\ r.idx < text[u][p].end
    BY <1>1, <2>3, <2>4, TreeOf
  <2>6. text[u][r.idx].end <= text[u][p].end
    BY <2>4, <2>5, NestedIn
  <2>7. text[u][r.idx].end \in Nat /\ text[u][p].end \in Nat
    BY <2>4, <2>5, SpanOf
  <2> HIDE DEF p, at
  <2> QED BY <2>3, <2>4, <2>5, <2>6, <2>7 DEF Within
<1>3. r \in LookupInScope(u, pos, w) => r.uri = u /\ Within(u, p, pos)
  <2> SUFFICES ASSUME r \in LookupInScope(u, pos, w) PROVE r.uri = u /\ Within(u, p, pos)
    OBVIOUS
  <2> DEFINE rungs == {c \in AncestorScopes(u, pos) : \E i \in Named(u, w) : Parent(u, i) = c}
  <2>1. rungs # {}
    <3> SUFFICES ASSUME rungs = {} PROVE FALSE
      OBVIOUS
    <3>1. r \in ChildRefs(u, FileScope, w)
      BY DEF LookupInScope
    <3>2. p = FileScope
      BY <3>1, ChildIs
    <3> QED BY <1>1, <3>2
  <2>2. rungs \in SUBSET Scopes(u, pos)
    BY AncestorsAre
  <2>3. r \in {Ref(u, i) : i \in {j \in Named(u, w) : Parent(u, j) = Narrowest(u, rungs)}}
    BY <2>1 DEF LookupInScope
  <2> HIDE DEF rungs
  <2>4. r.uri = u /\ p = Narrowest(u, rungs)
    BY <2>3 DEF Ref
  <2>5. p \in Scopes(u, pos)
    BY <2>1, <2>2, <2>4, NarrowestIs
  <2> QED BY <2>4, <2>5 DEF Scopes
<1>4. r \notin LookupInEnclosingContainers(u, w)
  <2> SUFFICES ASSUME NEW c \in ContainerOf(u),
                      r \in OrElse(ChildRefs(c.uri, c.idx, w), ThroughImports(c.uri, {c.idx}, w))
               PROVE  FALSE
    BY DEF LookupInEnclosingContainers
  <2>1. r \in ChildRefs(c.uri, c.idx, w)
    BY ImportedAre DEF OrElse
  <2>2. r.uri = c.uri /\ p = c.idx
    BY <1>1, <2>1, ChildIs
  <2>3. u \in MembersOf(c.uri, c.idx)
    BY DEF ContainerOf, Ref
  <2>4. MembersOf(r.uri, ContainerScope(r)) # {}
    BY <1>1, <2>2, <2>3
  <2> QED BY <1>1, <2>4 DEF SpreadOverFiles
<1>5. r \notin LookupInImports(u, pos, w)
  BY ImportedAre DEF LookupInImports
<1>6. r \notin LookupInIncludes(u, w)
  BY <1>1 DEF LookupInIncludes
<1>7. r \in LookupSelf(u, pos, w) \/ r \in LookupInScope(u, pos, w)
  BY <1>1, <1>4, <1>5, <1>6 DEF ResolveRefs, OrElse
<1> HIDE DEF p
<1> QED BY <1>1, <1>2, <1>3, <1>7 DEF InScope

\* The innermost scope that declares the name is the one the search finds it in.
LEMMA SeesItsOwn ==
  ASSUME Texts, Parsed, NEW o, o.uri \in URIs, o.idx \in Nat, o = Ref(o.uri, o.idx),
         ~HasQualifier(o), ~Namesake(o), NEW r, Resolved(o) = {r}
  PROVE  o = r \/ ~Shadowed(o, {r})
<1> DEFINE u == o.uri
           pos == o.idx
           w == Name(o)
           at == {i \in Named(u, w) : Within(u, i, pos)}
           locals == {i \in Named(u, w) : Parent(u, i) # FileScope}
           scopes == {s \in {Parent(u, i) : i \in locals} : Within(u, s, pos)}
           rungs == {c \in AncestorScopes(u, pos) : \E i \in Named(u, w) : Parent(u, i) = c}
<1>1. ResolveRefs(u, pos, w) = {r}
  BY DEF Resolved, ResolveAt, Name
<1>2. at \subseteq {pos}
  BY DEF Namesake
<1>3. CASE at = {pos}
  <2>1. Min(at) = pos
    <3> HIDE DEF at
    <3> QED BY <1>3 DEF Min
  <2>2. LookupSelf(u, pos, w) = {o}
    <3>1. LookupSelf(u, pos, w) = IF at = {} THEN {} ELSE {Ref(u, Min(at))}
      BY DEF LookupSelf
    <3> HIDE DEF at
    <3> QED BY <1>3, <2>1, <3>1
  <2> QED BY <1>1, <2>2 DEF ResolveRefs, OrElse
<1>4. CASE at = {}
  <2>1. LookupSelf(u, pos, w) = {}
    BY <1>4 DEF LookupSelf
  <2>2. scopes = rungs
    <3>1. ASSUME NEW s \in scopes PROVE s \in rungs
      <4>1. PICK i \in locals : s = Parent(u, i) /\ Within(u, s, pos)
        OBVIOUS
      <4>2. i \in Named(u, w) /\ i \in DOMAIN text[u] /\ s # FileScope
        BY <4>1 DEF Named, Decls
      <4>3. s \in Decls(u) /\ text[u][s].kind \in ContainerKinds
        BY <4>1, <4>2, TreeOf
      <4>4. s \in AncestorScopes(u, pos)
        BY <4>1, <4>3, AncestorsAre DEF Scopes
      <4> QED BY <4>1, <4>2, <4>4
    <3>2. ASSUME NEW c \in rungs PROVE c \in scopes
      <4>1. PICK i \in Named(u, w) : c = Parent(u, i)
        OBVIOUS
      <4>2. c \in Scopes(u, pos)
        BY AncestorsAre
      <4>3. Within(u, c, pos) /\ c \in DOMAIN text[u]
        BY <4>2 DEF Scopes, Decls
      <4>4. c # FileScope
        BY <4>3, TreeOf
      <4> QED BY <4>1, <4>3, <4>4
    <3> HIDE DEF scopes, rungs
    <3> QED BY <3>1, <3>2
  <2>3. CASE scopes = {}
    <3>1. Shadowed(o, {r}) => scopes # {}
      BY DEF Shadowed, Name
    <3> QED BY <2>3, <3>1
  <2>4. CASE scopes # {}
    <3> DEFINE found == {Ref(u, i) : i \in {j \in Named(u, w) : Parent(u, j) = Narrowest(u, scopes)}}
    <3>1. LookupInScope(u, pos, w) = found
      <4>1. LookupInScope(u, pos, w) =
              IF rungs = {} THEN ChildRefs(u, FileScope, w)
              ELSE {Ref(u, i) : i \in {j \in Named(u, w) : Parent(u, j) = Narrowest(u, rungs)}}
        BY DEF LookupInScope
      <4> HIDE DEF scopes, rungs
      <4> QED BY <2>2, <2>4, <4>1
    <3>2. Narrowest(u, scopes) \in scopes
      <4>1. rungs \in SUBSET Scopes(u, pos)
        BY AncestorsAre
      <4> HIDE DEF scopes, rungs
      <4> QED BY <2>2, <2>4, <4>1, NarrowestIs
    <3>3. PICK i \in locals : Parent(u, i) = Narrowest(u, scopes)
      <4> DEFINE n == Narrowest(u, scopes)
      <4>1. n \in scopes
        BY <3>2
      <4> HIDE DEF n
      <4>2. \E i \in locals : Parent(u, i) = n
        BY <4>1
      <4> QED BY <4>2 DEF n
    <3>4. Ref(u, i) \in found
      BY <3>3
    <3> HIDE DEF found
    <3>5. found = {r}
      BY <1>1, <2>1, <3>1, <3>4 DEF ResolveRefs, OrElse
    <3>6. Ref(u, i) = r
      BY <3>4, <3>5
    <3>7. Shadowed(o, {r}) => \A j \in locals : Parent(u, j) = Narrowest(u, scopes) => Ref(u, j) \notin {r}
      BY DEF Shadowed, Name
    <3> HIDE DEF locals, scopes
    <3> QED BY <3>3, <3>6, <3>7
  <2> QED BY <2>3, <2>4
<1> HIDE DEF at
<1> QED BY <1>2, <1>3, <1>4

\* What a connection is to is declared in the body of a module of that name.
LEMMA PortsIn ==
  ASSUME Texts, Parsed, NEW m, NEW w, NEW r \in LookupInstantiationPort(m, w), ~SpreadOverFiles(r),
         ItemOf(r).kind \in {"port", "parameter"}
  PROVE  /\ Ref(r.uri, Parent(r.uri, r.idx)) \in Refs(m) /\ r \in Refs(w)
         /\ ContainerScope(r) # FileScope
<1>1. PICK q \in Refs(m) : ItemOf(q).kind \in PortContainers /\ r \in ChildRefs(q.uri, q.idx, w)
  BY DEF LookupInstantiationPort, ChildrenOf
<1>2. /\ q.uri \in URIs /\ q.idx \in Decls(q.uri) /\ q = Ref(q.uri, q.idx)
      /\ q.idx \in DOMAIN text[q.uri] /\ q.idx # FileScope
  <2>1. q.uri \in URIs /\ q.idx \in Decls(q.uri) /\ q = Ref(q.uri, q.idx)
    BY RefsIn DEF Named
  <2> QED BY <2>1, TreeOf DEF Decls
<1>3. r.uri \notin MembersOf(q.uri, q.idx) \/ Parent(r.uri, r.idx) # FileScope
  <2> SUFFICES ASSUME r.uri \in MembersOf(q.uri, q.idx), Parent(r.uri, r.idx) = FileScope PROVE FALSE
    OBVIOUS
  <2>1. text[q.uri][q.idx].t = "open"
    <3>1. IncludesIn(q.uri, q.idx) # {}
      <4> SUFFICES ASSUME IncludesIn(q.uri, q.idx) = {} PROVE FALSE
        OBVIOUS
      <4> DEFINE map == [h \in URIs |-> IncludesIn(h, FileScope)]
      <4>1. Reach({}, map) = {}
        <5>1. Reach({}, map) \subseteq {}
          BY ReachStays
        <5> QED BY <5>1
      <4> QED BY <4>1 DEF MembersOf
    <3>2. PICK j \in DOMAIN text[q.uri] : Parent(q.uri, j) = q.idx
      BY <3>1 DEF IncludesIn
    <3> QED BY <1>2, <3>2, TreeOf
  <2>2. q \in ContainerOf(r.uri)
    BY <1>2, <2>1 DEF ContainerOf
  <2> QED BY <1>1, <2>2 DEF SpreadOverFiles
<1>4. r.uri = q.uri /\ Parent(r.uri, r.idx) = q.idx
  BY <1>1, <1>3, ChildIs
<1>5. r \in Refs(w)
  BY PortsAre DEF DeclaredAs
<1>6. ContainerScope(r) = q.idx
  <2>1. ItemOf(r).kind \notin GlobalKinds /\ ItemOf(r).kind # "argument"
    BY DEF GlobalKinds
  <2>2. text[r.uri][Parent(r.uri, r.idx)].kind \in PortContainers
    BY <1>1, <1>4 DEF ItemOf
  <2> QED BY <1>2, <1>4, <2>1, <2>2 DEF ContainerScope
<1> QED BY <1>2, <1>4, <1>5, <1>6

\* What a token means, by the kind of token.
LEMMA BindingIs ==
  ASSUME Texts, NEW o, o.uri \in URIs
  PROVE  \A r \in Binding(o) :
           \/ IsConn(o) /\ r \in LookupInstantiationPort(ItemOf(o).of, Name(o))
                /\ ItemOf(r).kind \in {"port", "parameter"}
           \/ ~IsConn(o) /\ ItemOf(o).t = "field" /\ r = o
           \/ NamedArg(o) /\ r \in Refs(Name(o)) /\ ItemOf(r).kind = "argument"
           \/ HasReceiver(o) /\ r \in FieldAt(o) /\ Binding(o) = FieldAt(o)
           \/ ~IsConn(o) /\ ~HasReceiver(o) /\ r \in Resolved(o) /\ Binding(o) = Resolved(o)
<1> SUFFICES ASSUME NEW r \in Binding(o)
             PROVE \/ IsConn(o) /\ r \in LookupInstantiationPort(ItemOf(o).of, Name(o))
                        /\ ItemOf(r).kind \in {"port", "parameter"}
                   \/ ~IsConn(o) /\ ItemOf(o).t = "field" /\ r = o
                   \/ NamedArg(o) /\ r \in Refs(Name(o)) /\ ItemOf(r).kind = "argument"
                   \/ HasReceiver(o) /\ r \in FieldAt(o) /\ Binding(o) = FieldAt(o)
                   \/ ~IsConn(o) /\ ~HasReceiver(o) /\ r \in Resolved(o) /\ Binding(o) = Resolved(o)
  OBVIOUS
<1>1. CASE IsConn(o)
  BY <1>1 DEF Binding
<1>2. CASE ~IsConn(o) /\ ItemOf(o).t = "field"
  BY <1>2 DEF Binding
<1>3. CASE ~IsConn(o) /\ ItemOf(o).t # "field" /\ NamedArg(o)
  <2> DEFINE called == Called(o.uri, CallContext(text[o.uri], o.idx).callee)
  <2>1. Binding(o) = Formal(o)
    BY <1>3 DEF Binding
  <2>2. PICK q \in First(called) : r \in {a \in Args(q) : Name(a) = Name(o)}
    BY <2>1 DEF Formal
  <2>3. q \in called /\ q.uri \in URIs
    <3>1. Placed(called)
      <4>1. ASSUME NEW callee PROVE Placed(Resolved(Ref(o.uri, callee)))
        <5>1. Ref(o.uri, callee).uri \in URIs
          BY DEF Ref
        <5> QED BY <5>1, ResolvedAre DEF DeclaredAs, Placed
      <4>2. Placed({})
        BY DEF Placed
      <4> QED BY <4>1, <4>2 DEF Called
    <3> HIDE DEF called
    <3> QED BY <2>2, <3>1, FirstIs DEF Placed
  <2>4. r \in Refs(Name(o)) /\ ItemOf(r).kind = "argument"
    <3>1. PICK i \in Decls(q.uri) : r = Ref(q.uri, i) /\ text[q.uri][i].kind = "argument" /\ Name(r) = Name(o)
      BY <2>2 DEF Args
    <3> QED BY <2>3, <3>1 DEF Refs, Named, Name, ItemOf, Ref
  <2> QED BY <1>3, <2>4
<1>4. CASE ~IsConn(o) /\ ItemOf(o).t # "field" /\ ~NamedArg(o)
  BY <1>4 DEF Binding
<1> QED BY <1>1, <1>2, <1>3, <1>4

LEMMA NoFieldDeclared == ASSUME NEW w, NEW r \in Refs(w) PROVE ItemOf(r).t # "field"
<1>1. r.idx \in Named(r.uri, w)
  BY RefsIn
<1> QED BY <1>1 DEF Named, Decls, ItemOf

\* A search restricted to the body of r, with what is outside of it, misses none.
LEMMA RestrictedFinds ==
  ASSUME Texts, Parsed, NEW w, NEW o \in Occurrences(w), NEW r \in Refs(w), Binding(o) = {r},
         ~SpreadOverFiles(r), ContainerScope(r) # FileScope, ~HasQualifier(o)
  PROVE  (InScope(o, r, ContainerScope(r)) /\ ~IsConn(o)) \/ o \in Outside(r, ContainerScope(r))
<1>1. /\ o.uri \in URIs /\ o.idx \in Nat /\ Name(o) = w /\ Name(r) = w /\ ItemOf(r).name = w
      /\ ItemOf(r).t # "field"
  BY TokensIn, RefsIn, NoFieldDeclared DEF Name
<1>2. r \in Binding(o)
  OBVIOUS
<1>3. CASE IsConn(o) /\ r \in LookupInstantiationPort(ItemOf(o).of, w) /\ ItemOf(r).kind \in {"port", "parameter"}
  <2>1. Ref(r.uri, Parent(r.uri, r.idx)) \in Refs(ItemOf(o).of)
    BY <1>3, PortsIn
  <2> QED BY <1>1, <1>3, <2>1 DEF Outside, ConnectionOccurrences
<1>4. CASE NamedArg(o) /\ ItemOf(r).kind = "argument"
  BY <1>1, <1>4 DEF Outside, NamedArgOccurrences, NamedArg
<1>5. CASE ~IsConn(o) /\ r \in Resolved(o)
  <2>1. r \in ResolveRefs(o.uri, o.idx, w)
    BY <1>1, <1>5 DEF Resolved, ResolveAt, Name
  <2> QED BY <1>1, <1>5, <2>1, InBody
<1>6. ~(HasReceiver(o) /\ r \in FieldAt(o))
  BY <1>1, FieldsAre DEF FieldAt
<1> QED BY <1>1, <1>2, <1>3, <1>4, <1>5, <1>6, BindingIs

\* What may be named everywhere is searched for everywhere, but for what is hidden.
LEMMA FilterKeeps ==
  ASSUME Texts, Parsed, NEW w, NEW o \in Occurrences(w), NEW r \in Refs(w), Binding(o) = {r},
         ~SpreadOverFiles(r), ContainerScope(r) = FileScope, ~Namesake(o), NEW at
  PROVE  Keep(o, {r}, at)
<1>1. /\ o.uri \in URIs /\ o.idx \in Nat /\ Name(o) = w /\ ItemOf(r).t # "field"
      /\ r.uri \in URIs /\ r.idx \in DOMAIN text[r.uri] /\ o = Ref(o.uri, o.idx)
  <2>1. o.uri \in URIs /\ o.idx \in Nat /\ Name(o) = w
    BY TokensIn
  <2>2. r.uri \in URIs /\ r.idx \in DOMAIN text[r.uri]
    BY RefsIn DEF Named, Decls
  <2>3. o = Ref(o.uri, o.idx)
    BY DEF Occurrences, Tokens, Ref
  <2> QED BY <2>1, <2>2, <2>3, NoFieldDeclared
<1>2. r \in Binding(o)
  OBVIOUS
<1>3. ~(IsConn(o) /\ r \in LookupInstantiationPort(ItemOf(o).of, w) /\ ItemOf(r).kind \in {"port", "parameter"})
  BY PortsIn
<1>4. ItemOf(r).kind # "argument"
  <2> SUFFICES ASSUME ItemOf(r).kind = "argument" PROVE FALSE
    OBVIOUS
  <2>1. Parent(r.uri, r.idx) # FileScope /\ text[r.uri][Parent(r.uri, r.idx)].kind \in Subprograms
    BY <1>1, TreeOf DEF ItemOf
  <2>2. "argument" \notin GlobalKinds
    BY DEF GlobalKinds
  <2> QED BY <2>1, <2>2 DEF ContainerScope
<1>5. ~(HasReceiver(o) /\ r \in FieldAt(o))
  BY <1>1, FieldsAre DEF FieldAt
<1>6. ~IsConn(o) /\ ~HasReceiver(o) /\ Resolved(o) = {r}
  <2>1. ~IsConn(o) /\ ~HasReceiver(o) /\ r \in Resolved(o) /\ Binding(o) = Resolved(o)
    BY <1>1, <1>2, <1>3, <1>4, <1>5, BindingIs
  <2> QED BY <2>1
<1>7. CASE HasQualifier(o)
  <2>1. LookupQualified(Qualifier(o), ItemOf(o).name) = {r}
    BY <1>6, <1>7 DEF Resolved, ResolveAt
  <2>2. ~QualifiedElsewhere(o, {r})
    BY <2>1 DEF QualifiedElsewhere
  <2> QED BY <1>6, <1>7, <2>2 DEF Keep
<1>8. CASE ~HasQualifier(o)
  <2>1. o = r \/ ~Shadowed(o, {r})
    BY <1>1, <1>6, <1>8, SeesItsOwn
  <2>2. PrimaryRef({r}) = r
    <3>1. Placed({r})
      BY <1>1 DEF Placed, Texts
    <3> QED BY <3>1, PrimaryIs
  <2> QED BY <1>6, <1>8, <2>1, <2>2 DEF Keep
<1> QED BY <1>7, <1>8

LEMMA FindsAll ==
  ASSUME Texts, Parsed, NEW at \in Asked, NEW r \in Binding(at), NEW o \in Occurrences(Name(at)),
         Means(at, r), PlainCursor(at), ~SpreadOverFiles(r), Means(o, r),
         Recognised(at),
         HasQualifier(o) => ContainerScope(r) = FileScope
  PROVE  o \in Found(at)
<1> DEFINE w == Name(at)
           scope == ContainerScope(r)
<1>. Module(at) = IF IsConn(at) THEN ItemOf(at).of ELSE NoModule
  BY DEF Recognised
<1>1. Binding(at) = {r} /\ Binding(o) = {r} /\ ~Namesake(o) /\ ~QualifiedReceiver(o)
  BY DEF Means
<1>2. at.uri \in URIs /\ o.uri \in URIs /\ Name(o) = w
  <2>1. at.uri \in URIs
    BY DEF Asked, Occurrences, Tokens, Ref
  <2> QED BY <2>1, TokensIn
<1>3. CASE IsConn(at)
  <2> DEFINE m == ItemOf(at).of
  <2>1. r \in LookupInstantiationPort(m, w) /\ ItemOf(r).kind \in {"port", "parameter"}
    BY <1>3 DEF Binding
  <2>2. r \in Refs(w) /\ scope # FileScope
    BY <2>1, PortsIn
  <2>3. (InScope(o, r, scope) /\ ~IsConn(o)) \/ o \in Outside(r, scope)
    BY <1>1, <2>2, RestrictedFinds
  <2>4. m # NoModule
    BY <2>1, NamesGiven DEF LookupInstantiationPort, ChildrenOf, NoModule
  <2>5. Found(at) = ConnectionScoped(m, w)
    BY <1>3, <2>4 DEF Found
  <2>6. Outside(r, scope) = ConnectionOccurrences(r)
    BY <2>1 DEF Outside
  <2> HIDE DEF m, w, scope
  <2> QED BY <1>2, <2>1, <2>2, <2>3, <2>5, <2>6 DEF ConnectionScoped, scope, w
<1>4. CASE ~IsConn(at) /\ HasReceiver(at)
  <2>1. FieldAt(at) = {r} /\ ItemOf(r).t = "field"
    <3>1. FieldAt(at) = {r}
      BY <1>1, <1>4 DEF Binding, PlainCursor
    <3> QED BY <3>1, FieldsAre DEF FieldAt
  <2>2. o \in Found(at) <=> (o = r \/ r \in FieldAt(o))
    BY <1>1, <1>4, <2>1, Accesses
  <2>3. \A x : r \notin Refs(x)
    BY <2>1, NoFieldDeclared
  <2>4. r \in Binding(o)
    BY <1>1
  <2>5. ~(r \in LookupInstantiationPort(ItemOf(o).of, Name(o)))
    BY <2>3, PortsAre DEF DeclaredAs
  <2>6. ~(r \in Resolved(o))
    BY <1>2, <2>3, ResolvedAre DEF DeclaredAs
  <2> QED BY <1>2, <2>2, <2>3, <2>4, <2>5, <2>6, BindingIs
<1>5. CASE ~IsConn(at) /\ ~HasReceiver(at)
  <2>1. Resolved(at) = {r}
    BY <1>1, <1>5 DEF Binding, PlainCursor
  <2>2. Found(at) = OccurrencesOf(at, {r})
    <3>1. FieldAt(at) = {}
      BY <1>5, NoField DEF FieldAt
    <3> QED BY <1>5, <2>1, <3>1 DEF Found, ScopedOccurrences
  <2>3. r \in Refs(w)
    BY <1>2, <2>1, ResolvedAre DEF DeclaredAs, Name
  <2>4. PrimaryRef({r}) = r
    <3>1. Placed({r})
      BY <2>3, RefsAre DEF DeclaredAs, Placed
    <3> QED BY <3>1, PrimaryIs
  <2>5. OccurrencesOf(at, {r}) =
          IF scope # FileScope
          THEN {q \in Occurrences(w) : InScope(q, r, scope) /\ ~IsConn(q)} \union Outside(r, scope)
          ELSE IF FiltersUnrelated(r) THEN {q \in Occurrences(w) : Keep(q, {r}, at)} ELSE Occurrences(w)
    BY <2>4 DEF OccurrencesOf, Name
  <2>6. scope # FileScope => (InScope(o, r, scope) /\ ~IsConn(o)) \/ o \in Outside(r, scope)
    BY <1>1, <2>3, RestrictedFinds
  <2>7. scope = FileScope => Keep(o, {r}, at)
    BY <1>1, <2>3, FilterKeeps
  <2> HIDE DEF scope, w
  <2> QED BY <2>2, <2>5, <2>6, <2>7 DEF w
<1> QED BY <1>3, <1>4, <1>5

(* References, and rename, miss nothing: in every workspace that parses, a  *)
(* query at a token that means r finds every token that means r, whether    *)
(* the search is restricted to the body r is declared in (the restriction   *)
(* that index.go calls safe) or filtered by shadowing; and from an access   *)
(* to a field they answer the accesses whose own receiver is of that struct *)
(* and the field.  ScopedOccurrencesForStructField keeps a receiver's type  *)
(* by file, name and innermost scope, and where those are the same the      *)
(* receiver means the same, because spans nest and an access is not a       *)
(* declaration's name.                                                      *)
THEOREM ReferencesFound == Spec => []ReferencesExact
<1>1. Spec => []Texts
  BY TextsInit, TextsStep, PTL DEF Spec
<1>2. Spec => []Fresh
  BY FreshInvariant
<1>3. Texts /\ Fresh => MissesNone
  <2> SUFFICES ASSUME Texts, Fresh, NEW at \in Asked, NEW r \in Binding(at), NEW o \in Occurrences(Name(at)),
                      Means(at, r), PlainCursor(at), ~SpreadOverFiles(r), Means(o, r),
                      Recognised(at),
                      HasQualifier(o) => ContainerScope(r) = FileScope
               PROVE  o \in Found(at)
    BY DEF MissesNone
  <2>1. Parsed
    BY FreshParsed DEF Asked
  <2> QED BY <2>1, FindsAll
<1>4. Texts /\ Fresh => FieldsExact
  <2> SUFFICES ASSUME Texts, Fresh, NEW at \in Asked, NEW f \in FieldAt(at),
                      ~QualifiedReceiver(at), Module(at) = NoModule,
                      NEW o \in Occurrences(Name(at)), ~QualifiedReceiver(o)
               PROVE  o \in Found(at) <=> (o = f \/ f \in FieldAt(o))
    BY DEF FieldsExact
  <2>1. Parsed
    BY FreshParsed DEF Asked
  <2> QED BY <2>1, Accesses
<1> QED BY <1>1, <1>2, <1>3, <1>4, PTL DEF ReferencesExact

-------------------------------------------------------------------------------
(* A port or parameter, asked for from a connection and from its declaration. *)

\* Of ConnectionsAgree, what does not depend on whether the heuristic is right: the
\* two paths of scopedOccurrences (lspserver/occurrences.go:32-35) have one answer.
OnePath ==
    \A at \in Asked : \A r \in LookupInstantiationPort(Module(at), Name(at)) :
        /\ LookupInstantiationPort(Module(at), Name(at)) = {r}
        /\ ItemOf(r).kind \in {"port", "parameter"}
        /\ BareName(r) /\ ~SpreadOverFiles(r)
        => Found(at) = Found(r)

LEMMA PathsMeet ==
  ASSUME Texts, Parsed, NEW at \in Asked, NEW r,
         LookupInstantiationPort(Module(at), Name(at)) = {r},
         ItemOf(r).kind \in {"port", "parameter"}, BareName(r), ~SpreadOverFiles(r)
  PROVE  Found(at) = Found(r)
<1> DEFINE w == Name(at)
           scope == ContainerScope(r)
           inside == {o \in Occurrences(w) : InScope(o, r, scope) /\ ~IsConn(o)}
<1>1. r \in Refs(w) /\ scope # FileScope /\ Module(at) # NoModule
  <2>1. r \in LookupInstantiationPort(Module(at), w)
    OBVIOUS
  <2>2. Module(at) # ""
    BY <2>1, NamesGiven DEF LookupInstantiationPort, ChildrenOf
  <2> QED BY <2>1, <2>2, PortsIn DEF NoModule
<1>2. /\ r.uri \in URIs /\ r.idx \in Named(r.uri, w) /\ r = Ref(r.uri, r.idx) /\ Name(r) = w
      /\ ItemOf(r).name = w
  BY <1>1, RefsIn DEF Name
<1>3. Found(at) = inside \union ConnectionOccurrences(r)
  BY <1>1 DEF Found, ConnectionScoped
<1>4. Resolved(r) = {r}
  <2>1. Within(r.uri, r.idx, r.idx)
    <3>1. r.idx \in Decls(r.uri) /\ r.idx \in Nat
      BY <1>1, <1>2, RefsAre DEF Named, DeclaredAs
    <3>2. r.uri \in URIs
      BY <1>2
    <3>3. r.idx < text[r.uri][r.idx].end
      BY <3>1, <3>2, SpanOf
    <3> QED BY <3>1, <3>3 DEF Within
  <2>2. \A i \in Named(r.uri, w) : Within(r.uri, i, r.idx) => i = r.idx
    BY <1>2 DEF BareName, Namesake
  <2>3. {i \in Named(r.uri, w) : Within(r.uri, i, r.idx)} = {r.idx}
    BY <1>2, <2>1, <2>2
  <2>4. Min({r.idx}) = r.idx
    BY DEF Min
  <2>5. LookupSelf(r.uri, r.idx, w) = {r}
    BY <1>2, <2>3, <2>4 DEF LookupSelf
  <2>6. ~HasQualifier(r)
    BY DEF BareName
  <2> QED BY <1>2, <2>5, <2>6 DEF Resolved, ResolveAt, ResolveRefs, OrElse
<1>5. Found(r) = OccurrencesOf(r, {r})
  <2>1. Module(r) = NoModule /\ FieldAt(r) = {}
    BY NoField DEF BareName, FieldAt
  <2> QED BY <1>4, <2>1 DEF Found, ScopedOccurrences
<1>6. PrimaryRef({r}) = r
  <2>1. Placed({r})
    BY <1>1, RefsAre DEF DeclaredAs, Placed
  <2> QED BY <2>1, PrimaryIs
<1>7. OccurrencesOf(r, {r}) = inside \union Outside(r, scope)
  BY <1>1, <1>2, <1>6 DEF OccurrencesOf
<1>8. Outside(r, scope) = ConnectionOccurrences(r)
  BY DEF Outside
<1> QED BY <1>3, <1>5, <1>7, <1>8

(* In every workspace that parses, references to a port or a parameter, and  *)
(* so its rename, are the same from a connection as from where it is         *)
(* declared, although the code computes them on two paths: from a connection *)
(* the module is guessed and its ports searched, from the declaration the    *)
(* name is resolved in scope.                                                *)
THEOREM ConnectionPaths == Spec => []OnePath
<1>1. Spec => []Texts
  BY TextsInit, TextsStep, PTL DEF Spec
<1>2. Spec => []Fresh
  BY FreshInvariant
<1>3. Texts /\ Fresh => OnePath
  <2> SUFFICES ASSUME Texts, Fresh, NEW at \in Asked, NEW r,
                      LookupInstantiationPort(Module(at), Name(at)) = {r},
                      ItemOf(r).kind \in {"port", "parameter"}, BareName(r), ~SpreadOverFiles(r)
               PROVE  Found(at) = Found(r)
    BY DEF OnePath
  <2>1. Parsed
    BY FreshParsed DEF Asked
  <2> QED BY <2>1, PathsMeet
<1> QED BY <1>1, <1>2, <1>3, PTL
================================================================================
