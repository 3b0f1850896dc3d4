-------------------------------- MODULE Resolve --------------------------------
(***************************************************************************)
(* What a name means and where it occurs: resolveRefsLocked and the        *)
(* occurrence queries of internal/sv/index.go.  The index is the one that  *)
(* scanning every file from its present text leaves behind, so its maps    *)
(* are operators on the texts.                                             *)
(*                                                                         *)
(* A text is a sequence of items, each one token (see Cursor), with the    *)
(* parser's view of it:                                                    *)
(*   "open"/"close"  a declaration of kind `kind' and the end of its body  *)
(*   "leaf"          a declaration whose span is its name; `of' is its     *)
(*                   type, if that has a name.  A leaf function or task is *)
(*                   a prototype                                           *)
(*   "field"         a field of the struct typedef that follows            *)
(*   "use"           another identifier; that of a named argument has the  *)
(*                   name of what is called in `of'                        *)
(*   "conn"          the name in a connection to a port (its kind) or an   *)
(*                   override of a parameter of the module `of'            *)
(*   "import"        the package of an import, two tokens before the       *)
(*                   member it names or the mark "*"                       *)
(*   "include"       `include of the file `of'                             *)
(*   "punct"         a mark or a keyword                                   *)
(* A position is an item's place in its text.  A subprogram has arguments  *)
(* and no other declarations.                                              *)
(***************************************************************************)
EXTENDS Cursor

CONSTANT URIs          \* numbers, in the order of the files' names

ASSUME ResolveAssumption == URIs \subseteq Nat /\ IsFiniteSet(URIs)

VARIABLE text     \* text[u]: the items of u, as scanned

GlobalKinds    == {"module", "interface", "program", "class", "package"}
PortContainers == {"module", "interface", "program"}
Subprograms    == {"function", "task"}
ContainerKinds == GlobalKinds \union Subprograms

Ref(u, i)  == [uri |-> u, idx |-> i]
ItemOf(r)  == text[r.uri][r.idx]
FileScope  == 0

-------------------------------------------------------------------------------
(* The scan of one file gives every item the end of its span and its parent, *)
(* the declaration whose body it stands in.                                  *)

Depth(t, i, j) == Cardinality({k \in i .. j : t[k].t = "open"})
                  - Cardinality({k \in i .. j : t[k].t = "close"})

\* A span is half open; that of a leaf is its name.
EndIn(t, i) == IF t[i].t = "open" THEN Min({j \in i .. Len(t) : Depth(t, i, j) = 0}) ELSE i + 1

ParentIn(t, i) ==
    LET bodies == {c \in 1 .. i - 1 : t[c].t = "open" /\ i < EndIn(t, c)}
    IN IF bodies = {} THEN FileScope ELSE Max(bodies)

Scanned(t) == [i \in DOMAIN t |-> [t |-> t[i].t, kind |-> t[i].kind, name |-> t[i].name, of |-> t[i].of,
                                   end |-> EndIn(t, i), parent |-> ParentIn(t, i)]]

(* What fileDecls answers. *)

Decls(u) == {i \in DOMAIN text[u] : text[u][i].t \in {"open", "leaf"}}
Named(u, w) == {i \in Decls(u) : text[u][i].name = w}
Parent(u, i) == text[u][i].parent
Within(u, i, pos) == i <= pos /\ pos < text[u][i].end
Narrower(u, a, b) == a >= b /\ text[u][a].end <= text[u][b].end
Narrowest(u, S) == IF S = {} THEN FileScope
                   ELSE CHOOSE c \in S : \A d \in S : Narrower(u, c, d)

InnermostContaining(u, pos) ==
    Narrowest(u, {c \in Decls(u) : text[u][c].kind \in ContainerKinds /\ Within(u, c, pos)})

AncestorScopes(u, pos) ==
    LET climb[i \in 0 .. Len(text[u])] ==
            IF i = FileScope THEN {} ELSE {i} \union climb[Parent(u, i)]
    IN climb[InnermostContaining(u, pos)]

-------------------------------------------------------------------------------
(* All files: byName, dependsOn, and the links of headers to the containers  *)
(* whose bodies include them (membersOf, containerOf).                       *)

Refs(w) == UNION {{Ref(u, i) : i \in Named(u, w)} : u \in URIs}

\* What u includes in the body of c, or at file scope.
IncludesIn(u, c) == {text[u][i].of : i \in {j \in DOMAIN text[u] : /\ text[u][j].t = "include"
                                                                    /\ Parent(u, j) = c}}
AllIncludes(u) == {text[u][i].of : i \in {j \in DOMAIN text[u] : text[u][j].t = "include"}}

\* What n steps of the map lead to from files.
Steps(files, map) ==
    LET reach[n \in 0 .. Cardinality(URIs)] ==
            IF n = 0 THEN files
            ELSE reach[n - 1] \union UNION {map[g] : g \in reach[n - 1]}
    IN reach

Reach(files, map) == Steps(files, map)[Cardinality(URIs)]

DependsOn(u) == Reach(AllIncludes(u), [g \in URIs |-> AllIncludes(g)])

\* The parser makes a node of a declaration or an import, of nothing else.
HasNode(g) == \E i \in DOMAIN text[g] : /\ text[g][i].t \in {"open", "leaf", "import"}
                                        /\ Parent(g, i) = FileScope

\* The header's nodes cross into the body; those of a subprogram are not walked.
MembersOf(u, c) ==
    IF c = FileScope \/ text[u][c].kind \in Subprograms THEN {}
    ELSE {g \in Reach(IncludesIn(u, c), [h \in URIs |-> IncludesIn(h, FileScope)]) : HasNode(g)}

ContainerOf(g) == UNION {{Ref(u, c) : c \in {d \in Decls(u) : /\ text[u][d].t = "open"
                                                             /\ g \in MembersOf(u, d)}} : u \in URIs}

ChildRefs(u, c, w) ==
    {Ref(u, i) : i \in {j \in Named(u, w) : Parent(u, j) = c}}
    \union UNION {{Ref(g, i) : i \in {j \in Named(g, w) : Parent(g, j) = FileScope}} :
                     g \in MembersOf(u, c)}

ChildrenOf(owners, w) == UNION {ChildRefs(q.uri, q.idx, w) : q \in owners}

-------------------------------------------------------------------------------
(* The places a name is looked up in, in the order of resolveRefsLocked.     *)

OrElse(first, second) == IF first # {} THEN first ELSE second

\* A position in the span of a declaration of that name: the first in the bucket.
LookupSelf(u, pos, w) ==
    LET at == {i \in Named(u, w) : Within(u, i, pos)}
    IN IF at = {} THEN {} ELSE {Ref(u, Min(at))}

\* The innermost rung of the scope chain that declares the name, then file scope.
LookupInScope(u, pos, w) ==
    LET rungs == {c \in AncestorScopes(u, pos) : \E i \in Named(u, w) : Parent(u, i) = c}
    IN IF rungs = {} THEN ChildRefs(u, FileScope, w)
       ELSE {Ref(u, i) : i \in {j \in Named(u, w) : Parent(u, j) = Narrowest(u, rungs)}}

Imports(u) == {i \in DOMAIN text[u] : text[u][i].t = "import"}

ImportMembers(u, imp, w) ==
    IF text[u][imp + 2].name \notin {"*", w} THEN {}
    ELSE ChildrenOf({q \in Refs(text[u][imp].name) : ItemOf(q).kind = "package"}, w)

IncludedImports(u, w) ==
    UNION {UNION {ImportMembers(g, imp, w) : imp \in {i \in Imports(g) : Parent(g, i) = FileScope}} :
              g \in DependsOn(u)}

\* The imports that stand in one of the scopes or at file scope, then those of headers.
ThroughImports(u, scopes, w) ==
    LET own == UNION {ImportMembers(u, imp, w) :
                         imp \in {i \in Imports(u) : Parent(u, i) \in scopes \union {FileScope}}}
    IN OrElse(own, IncludedImports(u, w))

LookupInImports(u, pos, w) == ThroughImports(u, AncestorScopes(u, pos), w)

\* The container a header was included into: its members, then its imports.
LookupInEnclosingContainers(u, w) ==
    UNION {OrElse(ChildRefs(c.uri, c.idx, w), ThroughImports(c.uri, {c.idx}, w)) : c \in ContainerOf(u)}

LookupInIncludes(u, w) ==
    {r \in Refs(w) : r.uri \in DependsOn(u) /\ Parent(r.uri, r.idx) = FileScope}

ResolveRefs(u, pos, w) ==
    OrElse(LookupSelf(u, pos, w),
    OrElse(LookupInScope(u, pos, w),
    OrElse(LookupInEnclosingContainers(u, w),
    OrElse(LookupInImports(u, pos, w),
    OrElse(LookupInIncludes(u, w), {r \in Refs(w) : ItemOf(r).kind \in GlobalKinds})))))

\* q::w: a member of the class or package q, or of the enumeration q.
LookupQualified(q, w) ==
    LET owners == Refs(q)
        enums  == {Ref(r.uri, Parent(r.uri, r.idx)) : r \in {s \in owners : ItemOf(s).kind = "typedef"}}
    IN ChildrenOf({r \in owners : ItemOf(r).kind \in {"class", "package"}}, w)
       \union {r \in ChildrenOf(enums, w) : ItemOf(r).kind = "enumMember"}

LookupInstantiationPort(m, w) ==
    ChildrenOf({q \in Refs(m) : ItemOf(q).kind \in PortContainers}, w)

PrimaryRef(refs) ==
    CHOOSE r \in refs : \A s \in refs : r.uri < s.uri \/ (r.uri = s.uri /\ r.idx <= s.idx)

-------------------------------------------------------------------------------
(* Tokens.                                                                   *)

Tokens == UNION {{Ref(u, i) : i \in {j \in DOMAIN text[u] : IsIdent(text[u], j)}} : u \in URIs}

Occurrences(w) == {o \in Tokens : ItemOf(o).name = w}

IsConn(o) == ItemOf(o).t = "conn"
NamedArg(o) == ~IsConn(o) /\ IsNamedArg(text[o.uri], o.idx)
HasReceiver(o) == ReceiverOf(text[o.uri], o.idx) > 0
HasQualifier(o) == QualifierOf(text[o.uri], o.idx) > 0
Receiver(o) == Ref(o.uri, ReceiverOf(text[o.uri], o.idx))
Qualifier(o) == ItemOf(Ref(o.uri, QualifierOf(text[o.uri], o.idx))).name

\* resolveRefsLocked, for word w that is written where token p is.
ResolveAt(pos, p, w) == IF HasQualifier(p) THEN LookupQualified(Qualifier(p), w)
                        ELSE ResolveRefs(pos.uri, pos.idx, w)

\* What HoverInfo answers at a token.
Resolved(o) == ResolveAt(o, o, ItemOf(o).name)

-------------------------------------------------------------------------------
(* The occurrences of a declaration r: of the part of the workspace it can   *)
(* be named in.                                                              *)

\* containerScopeLocked: the container the search is restricted to, or file scope.
ContainerScope(r) ==
    LET parent == Parent(r.uri, r.idx)
        kinds  == IF ItemOf(r).kind = "argument" THEN Subprograms ELSE PortContainers
    IN IF ItemOf(r).kind \in GlobalKinds \/ parent = FileScope THEN FileScope
       ELSE IF text[r.uri][parent].kind \in kinds THEN parent ELSE FileScope

FiltersUnrelated(r) ==
    /\ ItemOf(r).kind \notin GlobalKinds
    /\ \/ Parent(r.uri, r.idx) = FileScope
       \/ text[r.uri][Parent(r.uri, r.idx)].kind = "package"

ConnectionOccurrences(r) ==
    {o \in Occurrences(ItemOf(r).name) :
        IsConn(o) /\ Ref(r.uri, Parent(r.uri, r.idx)) \in Refs(ItemOf(o).of)}

InScope(o, r, scope) == o.uri = r.uri /\ Within(r.uri, scope, o.idx)

NamedArgOccurrences(r, scope) ==
    {o \in Occurrences(ItemOf(r).name) : NamedArg(o) /\ ~InScope(o, r, scope)}

\* Mutant: a scope that declares the target itself hides it too.
Shadowed_ByTarget(o, targets) ==
    \E i \in Named(o.uri, ItemOf(o).name) :
        Parent(o.uri, i) # FileScope /\ Within(o.uri, Parent(o.uri, i), o.idx)

\* The innermost scope around o that declares the name declares no target.
Shadowed(o, targets) ==
    LET locals == {i \in Named(o.uri, ItemOf(o).name) : Parent(o.uri, i) # FileScope}
        scopes == {s \in {Parent(o.uri, i) : i \in locals} : Within(o.uri, s, o.idx)}
    IN scopes # {} /\ \A i \in locals : Parent(o.uri, i) = Narrowest(o.uri, scopes)
                                            => Ref(o.uri, i) \notin targets

QualifiedElsewhere(o, targets) ==
    LET refs == LookupQualified(Qualifier(o), ItemOf(o).name)
    IN refs # {} /\ refs \intersect targets = {}

\* occurrenceFilter.keep, for the query at token at.
Keep(o, targets, at) ==
    \/ o \in {at, PrimaryRef(targets)}
    \/ /\ ~IsConn(o) /\ ~HasReceiver(o)
       /\ IF HasQualifier(o) THEN ~QualifiedElsewhere(o, targets) ELSE ~Shadowed(o, targets)

\* What names r besides the tokens in its container.
Outside(r, scope) ==
    IF ItemOf(r).kind \in {"port", "parameter"} THEN ConnectionOccurrences(r)
    ELSE IF ItemOf(r).kind = "argument" THEN NamedArgOccurrences(r, scope) ELSE {}

\* What the query at token at finds, which means refs.
OccurrencesOf(at, refs) ==
    LET occs == Occurrences(ItemOf(at).name)
        r == PrimaryRef(refs)
        scope == ContainerScope(r)
    IN IF refs = {} THEN occs
       ELSE IF scope # FileScope
            THEN {o \in occs : InScope(o, r, scope) /\ ~IsConn(o)} \union Outside(r, scope)
       ELSE IF FiltersUnrelated(r) THEN {o \in occs : Keep(o, refs, at)} ELSE occs

ScopedOccurrences(at) == OccurrencesOf(at, Resolved(at))

\* From a connection of module m: the ports and parameters w may mean.
ConnectionScoped(m, w) ==
    UNION {LET scope == ContainerScope(r)
           IN (IF scope = FileScope THEN {}
               ELSE {o \in Occurrences(w) : InScope(o, r, scope) /\ ~IsConn(o)})
              \union ConnectionOccurrences(r) : r \in LookupInstantiationPort(m, w)}

\* Mutant: the highlight knows of no named arguments.
OccurrencesOfInFile_NoArgs(at, refs) ==
    LET occs == {o \in Occurrences(ItemOf(at).name) : o.uri = at.uri}
        r == PrimaryRef(refs)
        scope == ContainerScope(r)
    IN IF refs = {} THEN occs
       ELSE IF scope # FileScope
            THEN {o \in occs : \/ InScope(o, r, scope)
                               \/ ItemOf(r).kind # "argument" /\ o \in Outside(r, scope)}
       ELSE IF FiltersUnrelated(r) THEN {o \in occs : Keep(o, refs, at)} ELSE occs

\* Index.OccurrencesInFile, which has a path of its own for the restricted case.
OccurrencesOfInFile(at, refs) ==
    LET occs == {o \in Occurrences(ItemOf(at).name) : o.uri = at.uri}
        r == PrimaryRef(refs)
        scope == ContainerScope(r)
    IN IF refs = {} THEN occs
       ELSE IF scope # FileScope
            THEN {o \in occs : InScope(o, r, scope) \/ o \in Outside(r, scope)}
       ELSE IF FiltersUnrelated(r) THEN {o \in occs : Keep(o, refs, at)} ELSE occs

OccurrencesInFile(at) == OccurrencesOfInFile(at, Resolved(at))
===============================================================================
