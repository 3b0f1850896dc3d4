-------------------------------- MODULE Queries --------------------------------
(***************************************************************************)
(* The requests an editor makes about the name at its cursor: definition,  *)
(* declaration, hover, references, highlight, rename, completion and       *)
(* signature help (handlers.go, hover.go, references.go, occurrences.go    *)
(* and signature.go of internal/lspserver, with the queries of             *)
(* internal/sv/index.go that only they use).  Each handler probes for a    *)
(* connection, then for a member of a receiver, and resolves the name in   *)
(* the end, in code of its own.                                            *)
(***************************************************************************)
EXTENDS Resolve

CONSTANTS Workspaces,  \* what the files may hold, each a text for every file
          Words,       \* the names that are asked about
          NewName      \* what rename writes

ASSUME QueriesAssumption ==
    /\ NewName \notin Words
    /\ \A w \in Workspaces :
          /\ DOMAIN w = URIs
          /\ \A u \in URIs : /\ DOMAIN w[u] = 1 .. Len(w[u]) /\ Len(w[u]) \in Nat
                             /\ \A i \in DOMAIN w[u] : w[u][i].t = "include" => w[u][i].of \in URIs

\* What the parser made of the texts: whatever opens is closed, only scopes have a
\* body, names are not empty, what has no body, a field like any other, is declared
\* by its bare name, and an argument stands in a function or a task.
ASSUME ParsedAssumption ==
    \A w \in Workspaces : \A u \in URIs : \A i \in DOMAIN w[u] :
        LET item == w[u][i] IN
        /\ item.t = "open" => /\ item.kind \in ContainerKinds
                             /\ \E j \in i .. Len(w[u]) : Depth(w[u], i, j) = 0
        /\ item.t \in {"open", "leaf"} => item.name # ""
        /\ item.t = "field" \/ (item.t = "leaf" /\ item.kind \notin ContainerKinds)
             => ReceiverOf(w[u], i) = 0
        /\ item.kind = "argument" => /\ ParentIn(w[u], i) # FileScope
                                     /\ w[u][ParentIn(w[u], i)].kind \in Subprograms

VARIABLES renamed,     \* {}, or the token a rename was asked at
          meant        \* what meant one declaration with that token, and this one

vars == <<text, renamed, meant>>

Name(o) == ItemOf(o).name
Module(o) == ConnectionModule(text[o.uri], o.idx)

\* What the first probe finds.
Connection(o) == IF Module(o) = NoModule THEN {} ELSE LookupInstantiationPort(Module(o), Name(o))

-------------------------------------------------------------------------------
(* Members of a receiver, "r.name".                                          *)

\* Declaration.Fields of a struct: the fields that stand before its name.
Fields(u, i) == {j \in 1 .. i - 1 : \A k \in j .. i - 1 : text[u][k].t = "field"}

Structs(type) == {r \in Refs(type) : ItemOf(r).kind = "typedef" /\ Fields(r.uri, r.idx) # {}}

\* structTypedefLocked: the fields of the first struct of that name.
StructFields(type) ==
    IF Structs(type) = {} THEN {}
    ELSE LET r == PrimaryRef(Structs(type)) IN {Ref(r.uri, j) : j \in Fields(r.uri, r.idx)}

First(refs) == IF refs = {} THEN {} ELSE {PrimaryRef(refs)}

\* StructFieldLocation: the first field of that name.
Field(type, w) == First({f \in StructFields(type) : Name(f) = w})

Interfaces(name) == {q \in Refs(name) : ItemOf(q).kind = "interface"}
InterfaceMember(name, w) == ChildrenOf(Interfaces(name), w)

\* What interface completion lists.
InterfaceMembers(name) ==
    UNION {{Ref(q.uri, i) : i \in {j \in Decls(q.uri) : /\ Parent(q.uri, j) = q.idx
                                                       /\ text[q.uri][j].kind \in {"variable", "port"}}} :
              q \in Interfaces(name)}

\* receiverTypeNameLocked.
TypeName(refs) == IF refs = {} THEN "" ELSE ItemOf(PrimaryRef(refs)).of

\* Every handler resolves the receiver from where the cursor is.
ReceiverAt(o) == IF HasReceiver(o) THEN ResolveAt(o, Receiver(o), Name(Receiver(o))) ELSE {}

\* The search resolves it unqualified.
ReceiverType(o) == TypeName(ResolveRefs(o.uri, o.idx, Name(Receiver(o))))

\* Mutant: the memo does not tell the scopes of a file apart.
MemoKey_NoScope(o) == <<o.uri, Name(Receiver(o))>>

MemoKey(o) == <<o.uri, Name(Receiver(o)), InnermostContaining(o.uri, o.idx)>>

\* ScopedOccurrencesForStructField: the first access with a key answers for the rest.
FieldOccurrences(type, w) ==
    LET accesses == {o \in Occurrences(w) : HasReceiver(o)}
        Remembered(o) == PrimaryRef({p \in accesses : MemoKey(p) = MemoKey(o)})
    IN {o \in accesses : ReceiverType(Remembered(o)) = type}
       \union {f \in Field(type, w) : ~HasReceiver(f)}

\* The field an access is of, as references, rename and highlight see it.
FieldAt(o) == Field(TypeName(ReceiverAt(o)), Name(o))

-------------------------------------------------------------------------------
(* Occurrences.                                                              *)

\* scopedOccurrences, the answer of references and of rename.
Found(at) ==
    IF Module(at) # NoModule THEN ConnectionScoped(Module(at), Name(at))
    ELSE IF FieldAt(at) # {} THEN FieldOccurrences(TypeName(ReceiverAt(at)), Name(at))
    ELSE ScopedOccurrences(at)

InFile(S, u) == {o \in S : o.uri = u}

\* fileOccurrences, the answer of document highlight.
Highlighted(at) ==
    IF Module(at) # NoModule THEN InFile(ConnectionScoped(Module(at), Name(at)), at.uri)
    ELSE IF FieldAt(at) # {} THEN InFile(FieldOccurrences(TypeName(ReceiverAt(at)), Name(at)), at.uri)
    ELSE OccurrencesInFile(at)

-------------------------------------------------------------------------------
(* Definition, declaration and hover.                                        *)

Prototype(r) == ItemOf(r).t = "leaf" /\ ItemOf(r).kind \in Subprograms

ContainerName(r) ==
    LET parent == Parent(r.uri, r.idx) IN IF parent = FileScope THEN "" ELSE text[r.uri][parent].name

\* preferGloballyLocked, when it takes r for the first of refs, whose order is the
\* order the files were indexed in: only what is or only what is not a prototype.
Preferred(refs, r, want) ==
    LET like == {s \in Refs(Name(r)) : ItemOf(s).kind = ItemOf(r).kind /\ Prototype(s) = want}
        sameFile == {s \in like : s.uri = r.uri}
        sameContainer == {s \in like : ContainerName(s) # "" /\ ContainerName(s) = ContainerName(r)}
    IN IF \E s \in refs : Prototype(s) = want THEN refs
       ELSE OrElse(sameFile, OrElse(sameContainer, OrElse(like, refs)))

\* memberLocation, with receiver recv: a field, or any of the interfaces' members.
MemberLocations(recv, w) ==
    LET r == PrimaryRef(recv)
    IN IF recv = {} THEN {} ELSE
    OrElse(Field(ItemOf(r).of, w),
    OrElse(InterfaceMember(ItemOf(r).of, w),
           IF ItemOf(r).kind = "interface" THEN InterfaceMember(ItemOf(r).name, w) ELSE {}))

\* The answers the order of indexing lets it give, each a set of locations.
Destinations(connection, members, refs, want) ==
    IF connection # {} THEN {connection}
    ELSE IF members # {} THEN {{r} : r \in members}
    ELSE {Preferred(refs, r, want) : r \in refs}

\* Mutant: a member is looked up like any other name.
Jumps_NoReceiver(at, want) == Destinations(Connection(at), {}, Resolved(at), want)

\* resolveWordAt, for a definition or for a declaration (want).
Jumps(at, want) ==
    Destinations(Connection(at), MemberLocations(ReceiverAt(at), Name(at)), Resolved(at), want)

\* memberHover: the first of the interfaces' members.
MemberHover(recv, w) ==
    LET r == PrimaryRef(recv)
        own == IF ItemOf(r).kind = "interface" THEN InterfaceMember(ItemOf(r).name, w) ELSE {}
        ofType == InterfaceMember(ItemOf(r).of, w)
    IN IF recv = {} THEN {}
       ELSE IF Field(ItemOf(r).of, w) # {} THEN Field(ItemOf(r).of, w)
       ELSE First(OrElse(ofType, own))

\* TextDocumentHover: the one declaration it describes, or none.
Hover(at) ==
    LET member == MemberHover(ReceiverAt(at), Name(at))
    IN OrElse(First(Connection(at)), OrElse(member, First(Resolved(at))))

-------------------------------------------------------------------------------
(* Completion and signature help, with the cursor after n tokens of u.       *)

\* What the first module named m declares of a kind.
DeclaredIn(m, kind) ==
    LET modules == {q \in Refs(m) : ItemOf(q).kind \in PortContainers}
        q == PrimaryRef(modules)
    IN IF modules = {} THEN {}
       ELSE {Ref(q.uri, i) : i \in {j \in Decls(q.uri) : /\ Parent(q.uri, j) = q.idx
                                                        /\ text[q.uri][j].kind = kind}}

\* convertParams: a parameter of the list in the module's header, up to the ";", that
\* is not declared a localparam.  One declared in the body cannot be overridden.
Overridable(r) ==
    LET t == text[r.uri]
    IN /\ Marks(t, Parent(r.uri, r.idx), r.idx, {";"}) = {}
       /\ ~IsPunct(t, r.idx - 1, "localparam")

Ports(m) == DeclaredIn(m, "port")
Params(m) == {r \in DeclaredIn(m, "parameter") : Overridable(r)}

\* InstantiationContextIn and InstantiationParamContextIn, right after the "." of at:
\* the "(" of the list of connections or of overrides that the cursor is in, or 0.
ConnectionList(at) ==
    LET t == text[at.uri]
        open == InnermostOpenParen(t, at.idx - 1)
    IN IF ModuleTokenBefore(t, open) > 0 \/ ModuleTokenBeforeParamList(t, open) > 0
       THEN open ELSE 0

\* The connections TextDocumentCompletion offers there: what the list does not
\* connect yet.
OfferedConnections(at) ==
    LET t == text[at.uri]
        open == ConnectionList(at)
        port == ModuleTokenBefore(t, open)
        declared == IF port > 0 THEN Ports(t[port].name)
                    ELSE Params(t[ModuleTokenBeforeParamList(t, open)].name)
    IN IF open = 0 THEN {} ELSE {d \in declared : Name(d) \notin Connected(t, open, at.idx - 1)}

\* structMemberCompletionItems, which is only asked elsewhere.
OfferedMembers(at) ==
    LET type == TypeName(ReceiverAt(at))
    IN IF ConnectionList(at) # 0 THEN {}
       ELSE IF Structs(type) # {} THEN StructFields(type) ELSE InterfaceMembers(type)

NoSignature == [callee |-> FileScope, routine |-> {}, active |-> {}]

\* Declaration.Args, of a routine with a body.
Args(r) == {Ref(r.uri, i) : i \in {j \in Decls(r.uri) : /\ Parent(r.uri, j) = r.idx
                                                       /\ text[r.uri][j].kind = "argument"}}

\* What the callee of a call means, if there is a call.
Called(u, callee) == IF callee = 0 THEN {} ELSE Resolved(Ref(u, callee))

\* The declaration's own list shows none: only the place is compared, not the file.
Signature(u, call, refs) ==
    LET r == PrimaryRef(refs)
        active == {a \in Args(r) : IF call.name > 0 THEN Name(a) = text[u][call.name].name
                                   ELSE Cardinality({b \in Args(r) : b.idx < a.idx}) = call.index}
    IN IF refs = {} \/ r.idx = call.callee \/ ItemOf(r).kind \notin Subprograms THEN NoSignature
       ELSE [callee |-> call.callee, routine |-> {r}, active |-> active]

\* TextDocumentSignatureHelp: the routine it shows and the argument it marks.
SignatureHelp(u, n) ==
    LET call == CallContext(text[u], n) IN Signature(u, call, Called(u, call.callee))

-------------------------------------------------------------------------------
\* After the rename the files would have to be scanned again.
Asked == IF renamed = {} THEN UNION {Occurrences(w) : w \in Words} ELSE {}

-------------------------------------------------------------------------------
(* Where the properties speak: a token that means one declaration.           *)

\* The formal a named argument is for.
Formal(o) ==
    LET refs == Called(o.uri, CallContext(text[o.uri], o.idx).callee)
    IN UNION {{a \in Args(r) : Name(a) = Name(o)} : r \in First(refs)}

\* What a token means, as the parser and the receiver's type have it.
Binding(o) == IF IsConn(o) THEN {r \in LookupInstantiationPort(ItemOf(o).of, Name(o)) :
                                      ItemOf(r).kind \in {"port", "parameter"}}
              ELSE IF ItemOf(o).t = "field" THEN {o}
              ELSE IF NamedArg(o) THEN Formal(o)
              ELSE IF HasReceiver(o) THEN FieldAt(o) ELSE Resolved(o)

\* The token stands in a declaration of its name, which LookupSelf takes it for.
Namesake(o) == \E i \in Named(o.uri, Name(o)) : i # o.idx /\ Within(o.uri, i, o.idx)

QualifiedReceiver(o) == HasReceiver(o) /\ HasQualifier(Receiver(o))

Means(o, r) == Binding(o) = {r} /\ ~QualifiedReceiver(o) /\ ~Namesake(o)

\* The module body that r belongs to stands in several files.
SpreadOverFiles(r) ==
    IF Parent(r.uri, r.idx) = FileScope
    THEN \E c \in ContainerOf(r.uri) : ItemOf(c).kind \in PortContainers
    ELSE ContainerScope(r) # FileScope /\ MembersOf(r.uri, ContainerScope(r)) # {}

\* Where the cursor has to be: neither a field's own name nor a named argument,
\* which the handlers take for a use of a name in scope.
PlainCursor(o) == ItemOf(o).t # "field" /\ ~NamedArg(o)

\* The heuristic on the tokens finds the module the parser has.  It takes the member
\* of a positional connection, as in "m u (s.x)", for a connection of m's x.
Recognised(o) == Module(o) = IF IsConn(o) THEN ItemOf(o).of ELSE NoModule

-------------------------------------------------------------------------------
\* Every workspace, scanned.
Init == /\ \E w \in Workspaces : text = [u \in URIs |-> Scanned(w[u])]
        /\ renamed = {} /\ meant = {}

\* TextDocumentRename, and the client applies what it answers.
Rename(at) ==
    /\ renamed' = {at}
    /\ meant' = {m \in Occurrences(Name(at)) \X Binding(at) :
                    /\ Means(at, m[2]) /\ PlainCursor(at) /\ Recognised(at)
                    /\ ~SpreadOverFiles(m[2]) /\ Means(m[1], m[2])}
    /\ LET edits == Found(at)
       IN text' = [u \in URIs |-> [i \in DOMAIN text[u] |->
                     IF Ref(u, i) \in edits THEN [text[u][i] EXCEPT !.name = NewName]
                     ELSE text[u][i]]]

Next == \E at \in Asked : Rename(at)

Spec == Init /\ [][Next]_vars

-------------------------------------------------------------------------------
\* Renaming a declaration or a field, from a token that means it, leaves every
\* token that meant it meaning it: a reference missed would now mean something
\* else or nothing.  Bodies spread over files are left out: there rename does
\* miss references.  So is a token that is not Recognised.
RenameKeepsBindings == \A m \in meant : Binding(m[1]) = {m[2]}

\* Connections and overrides.  The heuristic on the tokens before the cursor
\* (instantiation.go) finds the module the parser has, for these tokens and for no
\* other but a member in a positional connection; a port or parameter has the same
\* occurrences whether it is looked up there or where it is declared, two paths of
\* the code (lspserver/occurrences.go:32-35), when the body is in one file; and
\* before its name is written, completion offers it, unless it is a parameter that
\* cannot be overridden (a localparam, or one declared in the body).
ConnectionsAgree ==
    \A at \in Asked :
        /\ Recognised(at) \/ (HasReceiver(at) /\ ConnectionList(at) # 0)
        /\ \A r \in Binding(at) :
              IsConn(at) /\ Binding(at) = {r} /\ ~SpreadOverFiles(r)
              => /\ Found(at) = Found(r)
                 /\ /\ ItemOf(at).kind = ItemOf(r).kind
                    /\ ItemOf(r).kind = "parameter" => Overridable(r)
                    => r \in OfferedConnections(at)

\* The highlight of a file, which has its own path, shows every reference in it,
\* and besides them nothing but connections of other modules' ports.
HighlightCovers ==
    \A at \in Asked :
        /\ InFile(Found(at), at.uri) \subseteq Highlighted(at)
        /\ \A o \in Highlighted(at) \ Found(at) : IsConn(o)

\* From an access to a struct's field, references and rename answer the accesses
\* whose own receiver is of that struct, and the field (index.go:1320-1349): what
\* the search remembers of a receiver is never used for another one.
FieldsExact ==
    \A at \in Asked : \A f \in FieldAt(at) :
        ~QualifiedReceiver(at) /\ Module(at) = NoModule
        => \A o \in Occurrences(Name(at)) :
              ~QualifiedReceiver(o) => (o \in Found(at) <=> (o = f \/ f \in FieldAt(o)))

\* From a token that means r, references and rename answer every token that means r,
\* by name, through a connection, as a named argument or of a receiver's struct: the
\* search is restricted to the part of the workspace that r can be named in and
\* leaves out what it takes for shadowed, but it leaves out none of these, when the
\* body r is declared in is in one file, the heuristic finds the module the parser
\* has, and only members of classes and packages are qualified.
MissesNone ==
    \A at \in Asked : \A r \in Binding(at) : \A o \in Occurrences(Name(at)) :
        /\ Means(at, r) /\ PlainCursor(at) /\ ~SpreadOverFiles(r) /\ Means(o, r)
        /\ Recognised(at)
        /\ HasQualifier(o) => ContainerScope(r) = FileScope
        => o \in Found(at)

ReferencesExact == MissesNone /\ FieldsExact

\* Hover describes what one of the jumps goes to, or nothing as they do.
HoverAgrees(described, definitions, declarations) ==
    /\ (described = {}) = (declarations = {})
    /\ \A d \in definitions, c \in declarations :
          definitions = {d} /\ declarations = {c} => described \subseteq d \union c

\* What the probes for a connection and for a member leave to the search by name.
ByName(at) == Connection(at) = {} /\ MemberLocations(ReceiverAt(at), Name(at)) = {}

\* A declaration whose name is written bare, in no other declaration of that name.
BareName(r) == /\ ItemOf(r).t # "field" /\ ~Namesake(r)
               /\ Module(r) = NoModule /\ ~HasReceiver(r) /\ ~HasQualifier(r)

\* Definition, declaration and hover, three copies of one order of precedence,
\* agree: hover describes what one of the jumps goes to; a jump that leads to one
\* declaration stays there when repeated; when a routine has one prototype and one
\* body, a definition is the body and a declaration the prototype; and from a name
\* that completion offers after a receiver, a jump goes to a member so offered.  A
\* jump through a connection or a receiver does not choose between a prototype and
\* its body (handlers.go:336-409), so there only what is of the kind wanted stays.
JumpsAgree ==
    \A at \in Asked :
        /\ HoverAgrees(Hover(at), Jumps(at, FALSE), Jumps(at, TRUE))
        /\ \A want \in BOOLEAN : \A r \in UNION Jumps(at, want) :
              /\ Jumps(at, want) = {{r}} /\ BareName(r)
              /\ ByName(at) \/ Prototype(r) = want
              => Jumps(r, want) = {{r}}
        /\ \A p, b \in Refs(Name(at)) :
              /\ Prototype(p) /\ ~Prototype(b) /\ Resolved(at) \in {{p}, {b}}
              /\ Module(at) = NoModule /\ ~HasReceiver(at)
              /\ {r \in Refs(Name(at)) : ItemOf(r).kind = ItemOf(p).kind} = {p, b}
              => Jumps(at, FALSE) = {{b}} /\ Jumps(at, TRUE) = {{p}}
        /\ \A m \in OfferedMembers(at) :
              \E n \in OfferedMembers(at) :
                 Name(n) = Name(m) /\ n \in MemberLocations(ReceiverAt(at), Name(m))

\* What is shown is the call that argument o is in, and marks what o names.
IsOfArgument(shown, o) ==
    /\ shown.routine # {} => text[o.uri][shown.callee].name = ItemOf(o).of
    /\ \A a \in shown.active : Name(a) = Name(o) /\ o \in Found(a)

\* At a named argument, and inside its parentheses, signature help shows the
\* routine whose list the argument is in, whatever calls are nested in one another
\* (call.go), and marks the formal that counts this argument among its references.
SignatureAgrees ==
    \A o \in Asked : \A n \in {o.idx, o.idx + 1} :
        NamedArg(o) =>
            /\ IsOfArgument(SignatureHelp(o.uri, n), o)
            /\ SignatureHelp(o.uri, n) = SignatureHelp(o.uri, o.idx)

\* What index.go:1567-1573 says: the body of its module is where a declaration
\* can be referred to, so that a search of that body finds every reference.
RestrictionIsSafe ==
    \A at \in Asked : \A r \in Binding(at) :
        Means(at, r) /\ ItemOf(r).t # "field" /\ ContainerScope(r) # FileScope => at \in Found(r)
===============================================================================
