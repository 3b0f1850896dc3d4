------------------------------- MODULE SvIndex -------------------------------
(***************************************************************************)
(* The bookkeeping of sv.Index (internal/sv/index.go, names.go): the maps  *)
(* SetFile and RemoveFile keep under the write lock.  A scan runs outside  *)
(* the lock and may commit at any time, so a step takes any result the     *)
(* scanned file's texts, the files it includes and the macros can yield.   *)
(*                                                                         *)
(* A Go map is a total function here and a missing entry is the empty      *)
(* value, which is how every reader of these maps treats it.  A bucket of  *)
(* declarations keeps names and parents; positions and details are left    *)
(* out, and so are the positions of occurrences and connections: what is   *)
(* kept is which file has an entry under which name.                       *)
(***************************************************************************)
EXTENDS Integers, Sequences, FiniteSets, SequencesExt

CONSTANTS URIs,               \* every file the index may hear of
          Names,              \* identifiers
          Problems,           \* diagnostic messages
          MaxIdx,             \* bound: longest bucket of declarations
          ScanResults,        \* ScanResults[u]: what scanning u can produce
          NameLimit           \* maxIncrementalNameChanges

Decl      == [name : Names, parent : 0 .. MaxIdx]
DeclRef   == [uri : URIs, idx : 1 .. MaxIdx]
Link      == [containerURI : URIs, containerIdx : 1 .. MaxIdx,
              containerName : Names, includedURI : URIs]
OwnedLink == [link : Link, owner : URIs]

\* A map from files to entries drawn from S.
IsBuckets(m, S) == DOMAIN m \subseteq URIs /\ \A f \in DOMAIN m : m[f] \in S

\* What Scan returns; decls has an entry, possibly empty, for the file scanned.
IsScanResult(u, r) == /\ IsBuckets(r.decls, Seq(Decl))
                      /\ \A f \in DOMAIN r.decls : Len(r.decls[f]) <= MaxIdx
                      /\ IsBuckets(r.imports, Seq(Names))
                      /\ IsBuckets(r.conns, Seq(Names))
                      /\ IsBuckets(r.diags, Seq(Problems))
                      /\ r.links \in SUBSET Link
                      /\ r.occs \in SUBSET Names
                      /\ r.deps \in SUBSET URIs
                      /\ u \in DOMAIN r.decls

ASSUME ScanAssumption ==
  /\ IsFiniteSet(URIs)
  /\ MaxIdx \in Nat
  /\ \A u \in URIs : \A r \in ScanResults[u] : IsScanResult(u, r)

NoList == {}

VARIABLES files,              \* declarations per file
          byName,             \* name -> sequence of declRefs
          names,              \* {the list of byName's keys}, or NoList (nil)
          occByName,          \* name -> files with occurrences of it
          occNamesByURI,      \* file -> names occurring in it
          dependsOn,          \* file -> files its last scan included
          dependedOnBy,       \* ... inverted
          errByURI,           \* diagnostics per file
          importsByURI,       \* import statements per file
          connByName,         \* name -> files with a connection of that name
          connNamesByURI,     \* file -> names it connects
          memberLinksByOwner, \* scanning file -> links its scan recorded
          membersOf,          \* container declRef -> links owned
          containerOf,        \* included file -> links owned
          contributedTo,      \* scanning file -> files it wrote a bucket for
          contributorsOf,     \* ... inverted
          touched             \* history: what the last mutation returned

declVars == <<files, byName, names>>
useVars  == <<occByName, occNamesByURI, connByName, connNamesByURI>>
depVars  == <<dependsOn, dependedOnBy>>
linkVars == <<memberLinksByOwner, membersOf, containerOf>>
backVars == <<contributedTo, contributorsOf>>
vars     == <<declVars, useVars, depVars, errByURI, importsByURI, linkVars, backVars,
              touched>>

Init == /\ files = [u \in URIs |-> <<>>]
        /\ byName = [n \in Names |-> <<>>]
        /\ names = NoList
        /\ occByName = [n \in Names |-> {}]
        /\ occNamesByURI = [u \in URIs |-> {}]
        /\ dependsOn = [u \in URIs |-> {}]
        /\ dependedOnBy = [u \in URIs |-> {}]
        /\ errByURI = [u \in URIs |-> <<>>]
        /\ importsByURI = [u \in URIs |-> <<>>]
        /\ connByName = [n \in Names |-> {}]
        /\ connNamesByURI = [u \in URIs |-> {}]
        /\ memberLinksByOwner = [u \in URIs |-> {}]
        /\ membersOf = [k \in DeclRef |-> {}]
        /\ containerOf = [u \in URIs |-> {}]
        /\ contributedTo = [u \in URIs |-> {}]
        /\ contributorsOf = [u \in URIs |-> {}]
        /\ touched = {}

-----------------------------------------------------------------------------
(* byName and the sorted name list.                                         *)

Places(n, decls) == {i \in DOMAIN decls : decls[i].name = n}
Count(n, decls)  == Cardinality(Places(n, decls))

\* The members of a finite set of positions, in order.
InOrder(P) == [j \in 1 .. Cardinality(P) |->
                 CHOOSE i \in P : Cardinality({h \in P : h <= i}) = j]

\* How many of the refs at the tail of a name's list are u's, up to own.
TailRun(refs, u, own) ==
  CHOOSE k \in 0 .. own :
    /\ k <= Len(refs)
    /\ \A j \in Len(refs) - k + 1 .. Len(refs) : refs[j].uri = u
    /\ k < own /\ k < Len(refs) => refs[Len(refs) - k].uri # u

\* Broken variant: only the tail is popped, never the rest filtered.
DropRefs_TailOnly(refs, u, own) == SubSeq(refs, 1, Len(refs) - TailRun(refs, u, own))

\* removeDeclarationsLocked, for one name: u's refs come off the tail, and
\* only if some are left is the rest of the list filtered.
DropRefs(refs, u, own) ==
  LET k    == TailRun(refs, u, own)
      kept == IF k = own THEN 1 .. Len(refs) - k
              ELSE {i \in 1 .. Len(refs) - k : refs[i].uri # u}
  IN [j \in 1 .. Cardinality(kept) |-> refs[InOrder(kept)[j]]]

RefsInto(refs, u, n, decls) ==
  refs \o [j \in 1 .. Count(n, decls) |-> [uri |-> u, idx |-> InOrder(Places(n, decls))[j]]]

\* u's bucket was old and becomes new: byName, with the name changes noted.
Rebucket(acc, u, old, new) ==
  LET dropped == [n \in Names |-> DropRefs(acc.byName[n], u, Count(n, old))]
      next    == [n \in Names |-> RefsInto(dropped[n], u, n, new)]
      lost    == {n \in Names : Count(n, old) > 0 /\ dropped[n] = <<>>}
      gained  == {n \in Names : Count(n, new) > 0 /\ dropped[n] = <<>>}
  IN [byName |-> next,
      delta  |-> [n \in Names |-> acc.delta[n] + (IF n \in gained THEN 1 ELSE 0)
                                               - (IF n \in lost THEN 1 ELSE 0)]]

\* Broken variant: a name that lost its last declaration stays listed.
SyncNames_KeepsLost(delta) ==
  LET changed == {n \in Names : delta[n] # 0}
  IN IF Cardinality(changed) > NameLimit THEN NoList
     ELSE {list \cup {n \in changed : delta[n] > 0} : list \in names}

\* syncNamesLocked; noteNameLocked noted nothing while there was no list.
SyncNames(delta) ==
  LET changed == {n \in Names : delta[n] # 0}
  IN IF Cardinality(changed) > NameLimit THEN NoList
     ELSE {(list \cup {n \in changed : delta[n] > 0}) \ {n \in changed : delta[n] < 0} : list \in names}

\* byName and its changes once the buckets of the first i files of the order
\* are replaced by new, one after the other.
Replaced(order, new) ==
  LET acc[i \in 0 .. Len(order)] ==
        IF i = 0 THEN [byName |-> byName, delta |-> [n \in Names |-> 0]]
        ELSE Rebucket(acc[i - 1], order[i], files[order[i]], new[order[i]])
  IN acc

Redeclare(order, new) ==
  LET acc == Replaced(order, new)[Len(order)]
  IN /\ byName' = acc.byName
     /\ names' = SyncNames(acc.delta)

-----------------------------------------------------------------------------
(* The two-way maps.                                                        *)

\* Broken variants: nothing is cleared when the last backer goes, and the
\* previous scan's backing is never retracted.
Dropped_None(owner, produced) == {}

Recontribute_NoRetract(owner, produced) ==
  /\ contributedTo' = [contributedTo EXCEPT ![owner] = produced]
  /\ contributorsOf' = [u \in URIs |-> IF u \in produced THEN contributorsOf[u] \cup {owner}
                                       ELSE contributorsOf[u]]

\* recordContributionsLocked: files owner backed, no longer produces, and
\* nobody else backs.
Dropped(owner, produced) ==
  {p \in contributedTo[owner] \ produced : contributorsOf[p] \subseteq {owner}}

Recontribute(owner, produced) ==
  /\ contributedTo' = [contributedTo EXCEPT ![owner] = produced]
  /\ contributorsOf' =
       [u \in URIs |-> IF u \in produced THEN contributorsOf[u] \cup {owner}
                       ELSE IF u \in contributedTo[owner] THEN contributorsOf[u] \ {owner}
                       ELSE contributorsOf[u]]

\* Broken variant: the edges of the previous scan stay in the inverse.
Redepend_NoRetract(uri, deps) ==
  /\ dependsOn' = [dependsOn EXCEPT ![uri] = deps]
  /\ dependedOnBy' = [u \in URIs |-> dependedOnBy[u] \cup (IF u \in deps THEN {uri} ELSE {})]

\* recordDependenciesLocked
Redepend(uri, deps) ==
  /\ dependsOn' = [dependsOn EXCEPT ![uri] = deps]
  /\ dependedOnBy' =
       [u \in URIs |-> (IF u \in dependsOn[uri] THEN dependedOnBy[u] \ {uri} ELSE dependedOnBy[u])
                       \cup (IF u \in deps THEN {uri} ELSE {})]

KeyOf(l)             == [uri |-> l.containerURI, idx |-> l.containerIdx]

\* Broken variant: rescanning one includer forgets every includer's link.
DropOwner_All(ls, owner) == {}

DropOwner(ls, owner) == {ol \in ls : ol.owner # owner}
Own(ls, owner)       == {[link |-> l, owner |-> owner] : l \in ls}

\* recordMemberLinksLocked
Relink(owner, links) ==
  LET old == memberLinksByOwner[owner]
  IN /\ memberLinksByOwner' = [memberLinksByOwner EXCEPT ![owner] = links]
     /\ membersOf' =
          [k \in DeclRef |->
             (IF \E l \in old : KeyOf(l) = k THEN DropOwner(membersOf[k], owner) ELSE membersOf[k])
             \cup Own({l \in links : KeyOf(l) = k}, owner)]
     /\ containerOf' =
          [u \in URIs |->
             (IF \E l \in old : l.includedURI = u THEN DropOwner(containerOf[u], owner)
              ELSE containerOf[u])
             \cup Own({l \in links : l.includedURI = u}, owner)]

\* removeOccurrencesLocked, then the buckets of the new scan
Reoccur(uri, occs) ==
  /\ occNamesByURI' = [occNamesByURI EXCEPT ![uri] = occs]
  /\ occByName' =
       [n \in Names |-> (IF n \in occNamesByURI[uri] THEN occByName[n] \ {uri} ELSE occByName[n])
                        \cup (IF n \in occs THEN {uri} ELSE {})]

\* Broken variant: the names of the previous scan keep their buckets.
Reconnect_NoRetract(conns) ==
  /\ connNamesByURI' = [u \in URIs |-> IF u \in DOMAIN conns THEN ToSet(conns[u])
                                       ELSE connNamesByURI[u]]
  /\ connByName' =
       [n \in Names |-> connByName[n] \cup {u \in DOMAIN conns : n \in ToSet(conns[u])}]

\* removeConnectionsLocked for every file in conns' domain, then its sites
Reconnect(conns) ==
  /\ connNamesByURI' = [u \in URIs |-> IF u \in DOMAIN conns THEN ToSet(conns[u])
                                       ELSE connNamesByURI[u]]
  /\ connByName' =
       [n \in Names |->
          (connByName[n] \ {u \in DOMAIN conns : n \in connNamesByURI[u]})
          \cup {u \in DOMAIN conns : n \in ToSet(conns[u])}]

-----------------------------------------------------------------------------
(* m overridden by the entries of a scan, emptied for the files dropped.    *)
Overlay(m, new, dropped) ==
  [u \in URIs |-> IF u \in dropped THEN <<>>
                  ELSE IF u \in DOMAIN new THEN new[u] ELSE m[u]]

NoEntries == [u \in {} |-> <<>>]

Touches(r) == DOMAIN r.decls \cup DOMAIN r.diags \cup DOMAIN r.imports \cup DOMAIN r.conns

\* Broken variant: the files cleared along the way are not reported.
Returned_OwnOnly(r, dropped) == Touches(r)

\* touchedURIs: the files to republish diagnostics for
Returned(r, dropped) == Touches(r) \cup dropped

\* The write-locked half of SetFile(uri, text), committing the scan result r.
\* The buckets are replaced in map order, which Go leaves open.
SetFile(uri, r) ==
  LET dropped == Dropped(uri, Touches(r))
      decls   == Overlay(files, r.decls, dropped)
  IN /\ \E order \in SetToSeqs(DOMAIN r.decls) : Redeclare(order \o SetToSeq(dropped), decls)
     /\ files' = decls
     /\ errByURI' = Overlay(errByURI, r.diags, dropped)
     /\ importsByURI' = Overlay(importsByURI, r.imports, dropped)
     /\ Reconnect([u \in DOMAIN r.conns \cup dropped |->
                     IF u \in DOMAIN r.conns THEN r.conns[u] ELSE <<>>])
     /\ Recontribute(uri, Touches(r))
     /\ Reoccur(uri, r.occs)
     /\ Relink(uri, r.links)
     /\ Redepend(uri, r.deps)
     /\ touched' = Returned(r, dropped)

\* RemoveFile(uri): everything uri's scan backed goes with it, and uri's own
\* buckets go even if another file still backs them.
RemoveFile(uri) ==
  LET gone  == Dropped(uri, {}) \cup {uri}
      decls == Overlay(files, NoEntries, gone)
  IN /\ Redeclare(SetToSeq(gone), decls)
     /\ files' = decls
     /\ errByURI' = Overlay(errByURI, NoEntries, gone)
     /\ importsByURI' = Overlay(importsByURI, NoEntries, gone)
     /\ Reconnect([u \in gone |-> <<>>])
     /\ contributedTo' = [contributedTo EXCEPT ![uri] = {}]
     /\ contributorsOf' = [u \in URIs |-> IF u \in contributedTo[uri] \cup {uri}
                                             THEN contributorsOf[u] \ {uri}
                                             ELSE contributorsOf[u]]
     /\ Reoccur(uri, {})
     /\ Relink(uri, {})
     /\ Redepend(uri, {})
     /\ touched' = gone

\* sortedNamesLocked, called by a completion query under the read lock
SortedNames ==
  /\ names = NoList
  /\ names' = {{n \in Names : byName[n] # <<>>}}
  /\ UNCHANGED <<files, byName, useVars, depVars, errByURI, importsByURI, linkVars, backVars,
                 touched>>

Next == \/ \E u \in URIs : \E r \in ScanResults[u] : SetFile(u, r)
        \/ \E u \in URIs : RemoveFile(u)
        \/ SortedNames

Spec == Init /\ [][Next]_vars
-----------------------------------------------------------------------------
TypeOK == /\ files \in [URIs -> Seq(Decl)]
          /\ byName \in [Names -> Seq(DeclRef)]
          /\ names \in SUBSET SUBSET Names
          /\ occByName \in [Names -> SUBSET URIs]
          /\ occNamesByURI \in [URIs -> SUBSET Names]
          /\ dependsOn \in [URIs -> SUBSET URIs]
          /\ dependedOnBy \in [URIs -> SUBSET URIs]
          /\ errByURI \in [URIs -> Seq(Problems)]
          /\ importsByURI \in [URIs -> Seq(Names)]
          /\ connByName \in [Names -> SUBSET URIs]
          /\ connNamesByURI \in [URIs -> SUBSET Names]
          /\ memberLinksByOwner \in [URIs -> SUBSET Link]
          /\ membersOf \in [DeclRef -> SUBSET OwnedLink]
          /\ containerOf \in [URIs -> SUBSET OwnedLink]
          /\ contributedTo \in [URIs -> SUBSET URIs]
          /\ contributorsOf \in [URIs -> SUBSET URIs]
          /\ touched \in SUBSET URIs

\* contributorsOf answers for contributedTo: a file is counted as backed by
\* exactly the files whose last scan wrote a bucket for it.  A count that is
\* too high keeps a dropped header's names resolving for ever, one that is
\* too low clears a header another file still includes.
BackersExact == \A o, u \in URIs : u \in contributedTo[o] <=> o \in contributorsOf[u]

\* recordContributionsLocked leaves nothing behind: a file no scan backs has
\* no declarations, diagnostics, imports or connections in the index.
NoOrphanBuckets ==
  \A u \in URIs : contributorsOf[u] = {} => /\ files[u] = <<>>
                                            /\ errByURI[u] = <<>>
                                            /\ importsByURI[u] = <<>>
                                            /\ connNamesByURI[u] = {}

\* Dependents(u), which decides what a saved header rescans, is the inverse of
\* what each file's last scan resolved.
DependentsExact == \A o, u \in URIs : u \in dependsOn[o] <=> o \in dependedOnBy[u]

\* membersOf and containerOf hold exactly the links of memberLinksByOwner, each
\* under its key and its owner: rescanning one of two files that include a
\* header into the same package must retract its own link and keep the other.
MembershipExact ==
  /\ \A k \in DeclRef :
       membersOf[k] = UNION {Own({l \in memberLinksByOwner[o] : KeyOf(l) = k}, o) : o \in URIs}
  /\ \A u \in URIs :
       containerOf[u] = UNION {Own({l \in memberLinksByOwner[o] : l.includedURI = u}, o) : o \in URIs}

\* The by-name buckets of occurrences and connections list a file exactly when
\* the file's own list has the name (find-references trusts the first, every
\* rescan clears by the second).
UsesExact ==
  /\ \A n \in Names, u \in URIs : u \in occByName[n] <=> n \in occNamesByURI[u]
  /\ \A n \in Names, u \in URIs : u \in connByName[n] <=> n \in connNamesByURI[u]

\* byName is the inverse of files, once each, however the refs of several files
\* interleave: the shortcut that pops a file's refs off the tail of a list
\* neither leaves one behind nor takes another file's.
ByNameExact ==
  \A n \in Names :
    /\ ToSet(byName[n]) = {k \in DeclRef : /\ k.idx \in DOMAIN files[k.uri]
                                           /\ files[k.uri][k.idx].name = n}
    /\ Len(byName[n]) = Cardinality(ToSet(byName[n]))

\* The list completion binary-searches, kept current by noted changes, is
\* byName's key set whenever it exists.
NameListExact == names \subseteq {{n \in Names : byName[n] # <<>>}}

\* SetFile and RemoveFile return every file whose diagnostics they changed; a
\* file missing from the result is never republished.
ChangesReported ==
  [][\A u \in URIs : errByURI'[u] # errByURI[u] => u \in touched']_vars
=============================================================================
