---------------------------- MODULE SvIndexProofs ----------------------------
(* The two-way maps of the index stay inverse to each other, no bucket      *)
(* outlives its last backer, byName and the name list follow the            *)
(* declarations, and the symbols shown are the front of what is declared,   *)
(* for any files, names, scan results and limits.                           *)
EXTENDS SymbolQueries, FiniteSetTheorems, TLAPS

LEMMA TouchesTyped == ASSUME NEW u \in URIs, NEW r \in ScanResults[u]
                      PROVE  Touches(r) \subseteq URIs /\ u \in Touches(r)
BY ScanAssumption DEF Touches, IsScanResult, IsBuckets

-----------------------------------------------------------------------------
(* contributedTo and contributorsOf                                         *)

BackInv == /\ contributedTo \in [URIs -> SUBSET URIs]
           /\ contributorsOf \in [URIs -> SUBSET URIs]
           /\ BackersExact

LEMMA RecontributeKeeps ==
  ASSUME BackInv, NEW o \in URIs, NEW P \in SUBSET URIs, Recontribute(o, P)
  PROVE  BackInv'
BY DEF BackInv, BackersExact, Recontribute

LEMMA BackStep == BackInv /\ [Next]_vars => BackInv'
<1> SUFFICES ASSUME BackInv, [Next]_vars PROVE BackInv'
  OBVIOUS
<1>1. ASSUME NEW u \in URIs, NEW r \in ScanResults[u], SetFile(u, r) PROVE BackInv'
  <2>1. Recontribute(u, Touches(r))
    BY <1>1 DEF SetFile
  <2> QED BY <2>1, TouchesTyped, RecontributeKeeps
<1>2. ASSUME NEW u \in URIs, RemoveFile(u) PROVE BackInv'
  BY <1>2 DEF RemoveFile, BackInv, BackersExact
<1>3. CASE SortedNames \/ UNCHANGED vars
  BY <1>3 DEF SortedNames, vars, backVars, BackInv, BackersExact
<1> QED BY <1>1, <1>2, <1>3 DEF Next

LEMMA BackInvariant == Spec => []BackInv
<1>1. Init => BackInv
  BY DEF Init, BackInv, BackersExact
<1> QED BY <1>1, BackStep, PTL DEF Spec

(* A file is counted as backed by exactly the files whose last scan wrote a *)
(* bucket for it (recordContributionsLocked, removeLocked).                 *)
THEOREM BackersInverse == Spec => []BackersExact
<1>1. BackInv => BackersExact
  BY DEF BackInv
<1> QED BY <1>1, BackInvariant, PTL

-----------------------------------------------------------------------------
(* Buckets die with their last backer.                                      *)

OrphanInv == /\ files \in [URIs -> Seq(Decl)]
             /\ errByURI \in [URIs -> Seq(Problems)]
             /\ importsByURI \in [URIs -> Seq(Names)]
             /\ connNamesByURI \in [URIs -> SUBSET Names]
             /\ NoOrphanBuckets

LEMMA EmptySeq == ASSUME NEW S PROVE <<>> \in Seq(S)
OBVIOUS

LEMMA ReconnectFacts ==
  ASSUME connNamesByURI \in [URIs -> SUBSET Names], NEW conns,
         IsBuckets(conns, Seq(Names)), Reconnect(conns)
  PROVE  /\ connNamesByURI' \in [URIs -> SUBSET Names]
         /\ \A u \in DOMAIN conns : conns[u] = <<>> => connNamesByURI'[u] = {}
         /\ \A u \in URIs \ DOMAIN conns : connNamesByURI'[u] = connNamesByURI[u]
<1>1. ASSUME NEW s \in Seq(Names) PROVE ToSet(s) \subseteq Names /\ (s = <<>> => ToSet(s) = {})
  BY DEF ToSet
<1> QED BY <1>1 DEF Reconnect, IsBuckets

LEMMA OrphanSetFile ==
  ASSUME BackInv, OrphanInv, NEW o \in URIs, NEW r \in ScanResults[o], SetFile(o, r)
  PROVE  OrphanInv'
<1> DEFINE dropped == Dropped(o, Touches(r))
           conns   == [u \in DOMAIN r.conns \cup dropped |->
                         IF u \in DOMAIN r.conns THEN r.conns[u] ELSE <<>>]
<1>1. IsScanResult(o, r)
  BY ScanAssumption
<1>2. dropped \subseteq URIs /\ dropped \cap Touches(r) = {}
  BY DEF Dropped, BackInv
<1>3. /\ files' = Overlay(files, r.decls, dropped)
      /\ errByURI' = Overlay(errByURI, r.diags, dropped)
      /\ importsByURI' = Overlay(importsByURI, r.imports, dropped)
      /\ Reconnect(conns)
      /\ Recontribute(o, Touches(r))
  BY DEF SetFile
<1>4. IsBuckets(conns, Seq(Names))
  <2>1. <<>> \in Seq(Names)
    OBVIOUS
  <2> QED BY <1>1, <1>2, <2>1 DEF IsScanResult, IsBuckets
<1>11. /\ files \in [URIs -> Seq(Decl)] /\ IsBuckets(r.decls, Seq(Decl))
      /\ errByURI \in [URIs -> Seq(Problems)] /\ IsBuckets(r.diags, Seq(Problems))
      /\ importsByURI \in [URIs -> Seq(Names)] /\ IsBuckets(r.imports, Seq(Names))
  BY <1>1 DEF OrphanInv, IsScanResult
<1>12. \A u \in dropped : u \in DOMAIN conns /\ conns[u] = <<>>
  BY <1>2 DEF Touches
<1>13. DOMAIN conns = DOMAIN r.conns \cup dropped
  OBVIOUS
<1> HIDE DEF dropped, conns
<1>5. /\ files' \in [URIs -> Seq(Decl)]
      /\ \A u \in dropped : files'[u] = <<>>
      /\ \A u \in URIs \ (dropped \cup DOMAIN r.decls) : files'[u] = files[u]
  BY <1>11, <1>2, <1>3, EmptySeq DEF Overlay, IsBuckets
<1>6. /\ errByURI' \in [URIs -> Seq(Problems)]
      /\ \A u \in dropped : errByURI'[u] = <<>>
      /\ \A u \in URIs \ (dropped \cup DOMAIN r.diags) : errByURI'[u] = errByURI[u]
  BY <1>11, <1>2, <1>3, EmptySeq DEF Overlay, IsBuckets
<1>7. /\ importsByURI' \in [URIs -> Seq(Names)]
      /\ \A u \in dropped : importsByURI'[u] = <<>>
      /\ \A u \in URIs \ (dropped \cup DOMAIN r.imports) : importsByURI'[u] = importsByURI[u]
  BY <1>11, <1>2, <1>3, EmptySeq DEF Overlay, IsBuckets
<1>8. /\ connNamesByURI' \in [URIs -> SUBSET Names]
      /\ \A u \in dropped : connNamesByURI'[u] = {}
      /\ \A u \in URIs \ (dropped \cup DOMAIN r.conns) : connNamesByURI'[u] = connNamesByURI[u]
  BY <1>12, <1>13, <1>2, <1>3, <1>4, ReconnectFacts DEF OrphanInv
<1>9. ASSUME NEW u \in URIs, contributorsOf'[u] = {}
      PROVE  u \in dropped \/ (contributorsOf[u] = {} /\ u \notin Touches(r))
  BY <1>3, <1>9 DEF Recontribute, Dropped, BackInv, dropped
<1>10. NoOrphanBuckets'
  BY <1>5, <1>6, <1>7, <1>8, <1>9 DEF NoOrphanBuckets, OrphanInv, Touches
<1> QED BY <1>5, <1>6, <1>7, <1>8, <1>10 DEF OrphanInv

LEMMA OrphanRemoveFile ==
  ASSUME BackInv, OrphanInv, NEW o \in URIs, RemoveFile(o)
  PROVE  OrphanInv'
<1> DEFINE gone  == Dropped(o, {}) \cup {o}
           conns == [u \in gone |-> <<>>]
<1>1. gone \subseteq URIs
  BY DEF Dropped, BackInv
<1>2. /\ files' = Overlay(files, NoEntries, gone)
      /\ errByURI' = Overlay(errByURI, NoEntries, gone)
      /\ importsByURI' = Overlay(importsByURI, NoEntries, gone)
      /\ Reconnect(conns)
  BY DEF RemoveFile
<1>3. IsBuckets(conns, Seq(Names))
  BY <1>1 DEF IsBuckets
<1>11. /\ files \in [URIs -> Seq(Decl)]
      /\ errByURI \in [URIs -> Seq(Problems)]
      /\ importsByURI \in [URIs -> Seq(Names)]
      /\ connNamesByURI \in [URIs -> SUBSET Names]
  BY DEF OrphanInv
<1>12. DOMAIN conns = gone /\ \A u \in gone : conns[u] = <<>>
  OBVIOUS
<1>13. DOMAIN NoEntries = {}
  BY DEF NoEntries
<1> HIDE DEF gone, conns
<1>4. /\ files' \in [URIs -> Seq(Decl)]
      /\ \A u \in gone : files'[u] = <<>>
      /\ \A u \in URIs \ gone : files'[u] = files[u]
  BY <1>11, <1>1, <1>2, <1>13, EmptySeq DEF Overlay
<1>5. /\ errByURI' \in [URIs -> Seq(Problems)]
      /\ \A u \in gone : errByURI'[u] = <<>>
      /\ \A u \in URIs \ gone : errByURI'[u] = errByURI[u]
  BY <1>11, <1>1, <1>2, <1>13, EmptySeq DEF Overlay
<1>6. /\ importsByURI' \in [URIs -> Seq(Names)]
      /\ \A u \in gone : importsByURI'[u] = <<>>
      /\ \A u \in URIs \ gone : importsByURI'[u] = importsByURI[u]
  BY <1>11, <1>1, <1>2, <1>13, EmptySeq DEF Overlay
<1>7. /\ connNamesByURI' \in [URIs -> SUBSET Names]
      /\ \A u \in gone : connNamesByURI'[u] = {}
      /\ \A u \in URIs \ gone : connNamesByURI'[u] = connNamesByURI[u]
  BY <1>11, <1>12, <1>2, <1>3, ReconnectFacts
<1>8. ASSUME NEW u \in URIs, contributorsOf'[u] = {}
      PROVE  u \in gone \/ contributorsOf[u] = {}
  BY <1>8 DEF RemoveFile, Dropped, BackInv, gone
<1>9. NoOrphanBuckets'
  BY <1>4, <1>5, <1>6, <1>7, <1>8 DEF NoOrphanBuckets, OrphanInv
<1> QED BY <1>4, <1>5, <1>6, <1>7, <1>9 DEF OrphanInv

(* Whatever sequence of scans and removals, a file nothing backs any more   *)
(* has no declarations, diagnostics, imports or connections left.           *)
THEOREM NoOrphans == Spec => []NoOrphanBuckets
<1>1. Init => OrphanInv
  BY DEF Init, OrphanInv, NoOrphanBuckets
<1>2. BackInv /\ OrphanInv /\ [Next]_vars => OrphanInv'
  <2> SUFFICES ASSUME BackInv, OrphanInv, [Next]_vars PROVE OrphanInv'
    OBVIOUS
  <2>1. CASE SortedNames \/ UNCHANGED vars
    BY <2>1 DEF SortedNames, vars, declVars, useVars, backVars, OrphanInv, NoOrphanBuckets
  <2> QED BY <2>1, OrphanSetFile, OrphanRemoveFile DEF Next
<1>3. OrphanInv => NoOrphanBuckets
  BY DEF OrphanInv
<1> QED BY <1>1, <1>2, <1>3, BackInvariant, PTL DEF Spec

-----------------------------------------------------------------------------
(* dependsOn and dependedOnBy                                               *)

DepInv == /\ dependsOn \in [URIs -> SUBSET URIs]
          /\ dependedOnBy \in [URIs -> SUBSET URIs]
          /\ DependentsExact

LEMMA RedependKeeps ==
  ASSUME DepInv, NEW o \in URIs, NEW D \in SUBSET URIs, Redepend(o, D)
  PROVE  DepInv'
BY DEF DepInv, DependentsExact, Redepend

(* Dependents answers exactly for what each file's last scan resolved.      *)
THEOREM DependentsInverse == Spec => []DependentsExact
<1>1. Init => DepInv
  BY DEF Init, DepInv, DependentsExact
<1>2. DepInv /\ [Next]_vars => DepInv'
  <2> SUFFICES ASSUME DepInv, [Next]_vars PROVE DepInv'
    OBVIOUS
  <2>1. ASSUME NEW u \in URIs, NEW r \in ScanResults[u], SetFile(u, r) PROVE DepInv'
    <3>1. Redepend(u, r.deps) /\ r.deps \in SUBSET URIs
      BY <2>1, ScanAssumption DEF SetFile, IsScanResult
    <3> QED BY <3>1, RedependKeeps
  <2>2. ASSUME NEW u \in URIs, RemoveFile(u) PROVE DepInv'
    <3>1. Redepend(u, {})
      BY <2>2 DEF RemoveFile
    <3> QED BY <3>1, RedependKeeps
  <2>3. CASE SortedNames \/ UNCHANGED vars
    BY <2>3 DEF SortedNames, vars, depVars, DepInv, DependentsExact
  <2> QED BY <2>1, <2>2, <2>3 DEF Next
<1>3. DepInv => DependentsExact
  BY DEF DepInv
<1> QED BY <1>1, <1>2, <1>3, PTL DEF Spec
-----------------------------------------------------------------------------
(* memberLinksByOwner, membersOf and containerOf                            *)

OwnedAs(o, l) == [link |-> l, owner |-> o]

\* MembershipExact, element by element.
LinkInv ==
  /\ memberLinksByOwner \in [URIs -> SUBSET Link]
  /\ membersOf \in [DeclRef -> SUBSET OwnedLink]
  /\ containerOf \in [URIs -> SUBSET OwnedLink]
  /\ \A k \in DeclRef : \A o \in URIs : \A l \in Link :
       OwnedAs(o, l) \in membersOf[k] <=> l \in memberLinksByOwner[o] /\ KeyOf(l) = k
  /\ \A u \in URIs : \A o \in URIs : \A l \in Link :
       OwnedAs(o, l) \in containerOf[u] <=> l \in memberLinksByOwner[o] /\ l.includedURI = u

LEMMA OwnedForm == /\ \A x \in OwnedLink : x.link \in Link /\ x.owner \in URIs
                                            /\ x = OwnedAs(x.owner, x.link)
                   /\ \A o \in URIs, l \in Link : OwnedAs(o, l) \in OwnedLink
                   /\ \A o, l : OwnedAs(o, l).owner = o /\ OwnedAs(o, l).link = l
BY DEF OwnedLink, OwnedAs

LEMMA LinkFields == \A l \in Link : KeyOf(l) \in DeclRef /\ l.includedURI \in URIs
BY DEF Link, KeyOf, DeclRef

LEMMA RelinkKeeps ==
  ASSUME LinkInv, NEW o \in URIs, NEW L \in SUBSET Link, Relink(o, L)
  PROVE  LinkInv'
<1> USE DEF Own, DropOwner
<1>1. /\ memberLinksByOwner' = [memberLinksByOwner EXCEPT ![o] = L]
      /\ memberLinksByOwner' \in [URIs -> SUBSET Link]
  BY DEF Relink, LinkInv
<1>2. \A K \in SUBSET Link : Own(K, o) \subseteq OwnedLink
  BY OwnedForm DEF OwnedAs
<1>3. /\ membersOf' \in [DeclRef -> SUBSET OwnedLink]
      /\ containerOf' \in [URIs -> SUBSET OwnedLink]
  BY <1>2 DEF Relink, LinkInv
<1>4. ASSUME NEW k \in DeclRef, NEW p \in URIs, NEW l \in Link
      PROVE  OwnedAs(p, l) \in membersOf'[k] <=> l \in memberLinksByOwner'[p] /\ KeyOf(l) = k
  <2>1. OwnedAs(p, l) \in Own({m \in L : KeyOf(m) = k}, o) <=> p = o /\ l \in L /\ KeyOf(l) = k
    BY OwnedForm DEF OwnedAs
  <2>2. OwnedAs(p, l) \in membersOf[k] <=> l \in memberLinksByOwner[p] /\ KeyOf(l) = k
    BY DEF LinkInv
  <2>3. OwnedAs(p, l).owner = p
    BY OwnedForm
  <2>4. CASE p = o
    BY <1>1, <2>1, <2>2, <2>3, <2>4 DEF Relink, LinkInv
  <2>5. CASE p # o
    BY <1>1, <2>1, <2>2, <2>3, <2>5 DEF Relink, LinkInv
  <2> QED BY <2>4, <2>5
<1>5. ASSUME NEW u \in URIs, NEW p \in URIs, NEW l \in Link
      PROVE  OwnedAs(p, l) \in containerOf'[u] <=> l \in memberLinksByOwner'[p] /\ l.includedURI = u
  <2>1. OwnedAs(p, l) \in Own({m \in L : m.includedURI = u}, o) <=> p = o /\ l \in L /\ l.includedURI = u
    BY OwnedForm DEF OwnedAs
  <2>2. OwnedAs(p, l) \in containerOf[u] <=> l \in memberLinksByOwner[p] /\ l.includedURI = u
    BY DEF LinkInv
  <2>3. OwnedAs(p, l).owner = p
    BY OwnedForm
  <2>4. CASE p = o
    BY <1>1, <2>1, <2>2, <2>3, <2>4 DEF Relink, LinkInv
  <2>5. CASE p # o
    BY <1>1, <2>1, <2>2, <2>3, <2>5 DEF Relink, LinkInv
  <2> QED BY <2>4, <2>5
<1> QED BY <1>1, <1>3, <1>4, <1>5 DEF LinkInv

LEMMA LinkInvExact == LinkInv => MembershipExact
<1> SUFFICES ASSUME LinkInv PROVE MembershipExact
  OBVIOUS
<1>1. ASSUME NEW k \in DeclRef
      PROVE  membersOf[k] = UNION {Own({l \in memberLinksByOwner[o] : KeyOf(l) = k}, o) : o \in URIs}
  <2>1. ASSUME NEW x \in membersOf[k]
        PROVE  \E o \in URIs : x \in Own({l \in memberLinksByOwner[o] : KeyOf(l) = k}, o)
    <3>1. x = OwnedAs(x.owner, x.link) /\ x.owner \in URIs /\ x.link \in Link
      BY OwnedForm DEF LinkInv
    <3>2. x.link \in memberLinksByOwner[x.owner] /\ KeyOf(x.link) = k
      BY <3>1 DEF LinkInv
    <3> QED BY <3>1, <3>2 DEF Own, OwnedAs
  <2>2. ASSUME NEW o \in URIs, NEW x \in Own({l \in memberLinksByOwner[o] : KeyOf(l) = k}, o)
        PROVE  x \in membersOf[k]
    BY DEF Own, OwnedAs, LinkInv
  <2> QED BY <2>1, <2>2
<1>2. ASSUME NEW u \in URIs
      PROVE  containerOf[u] = UNION {Own({l \in memberLinksByOwner[o] : l.includedURI = u}, o) : o \in URIs}
  <2>1. ASSUME NEW x \in containerOf[u]
        PROVE  \E o \in URIs : x \in Own({l \in memberLinksByOwner[o] : l.includedURI = u}, o)
    <3>1. x = OwnedAs(x.owner, x.link) /\ x.owner \in URIs /\ x.link \in Link
      BY OwnedForm DEF LinkInv
    <3>2. x.link \in memberLinksByOwner[x.owner] /\ x.link.includedURI = u
      BY <3>1 DEF LinkInv
    <3> QED BY <3>1, <3>2 DEF Own, OwnedAs
  <2>2. ASSUME NEW o \in URIs, NEW x \in Own({l \in memberLinksByOwner[o] : l.includedURI = u}, o)
        PROVE  x \in containerOf[u]
    BY DEF Own, OwnedAs, LinkInv
  <2> QED BY <2>1, <2>2
<1> QED BY <1>1, <1>2 DEF MembershipExact

(* membersOf and containerOf hold each link its owner's last scan recorded, *)
(* once per owner, and nothing else, however scans of several includers of  *)
(* one header interleave (recordMemberLinksLocked).                         *)
THEOREM MembershipInverse == Spec => []MembershipExact
<1>1. Init => LinkInv
  BY DEF Init, LinkInv
<1>2. LinkInv /\ [Next]_vars => LinkInv'
  <2> SUFFICES ASSUME LinkInv, [Next]_vars PROVE LinkInv'
    OBVIOUS
  <2>1. ASSUME NEW u \in URIs, NEW r \in ScanResults[u], SetFile(u, r) PROVE LinkInv'
    <3>1. Relink(u, r.links) /\ r.links \in SUBSET Link
      BY <2>1, ScanAssumption DEF SetFile, IsScanResult
    <3> QED BY <3>1, RelinkKeeps
  <2>2. ASSUME NEW u \in URIs, RemoveFile(u) PROVE LinkInv'
    <3>1. Relink(u, {})
      BY <2>2 DEF RemoveFile
    <3> QED BY <3>1, RelinkKeeps
  <2>3. CASE SortedNames \/ UNCHANGED vars
    BY <2>3 DEF SortedNames, vars, linkVars, LinkInv
  <2> QED BY <2>1, <2>2, <2>3 DEF Next
<1> QED BY <1>1, <1>2, LinkInvExact, PTL DEF Spec
-----------------------------------------------------------------------------
(* Occurrences and connections by name and by file                          *)

UseInv == /\ occByName \in [Names -> SUBSET URIs]
          /\ occNamesByURI \in [URIs -> SUBSET Names]
          /\ connByName \in [Names -> SUBSET URIs]
          /\ connNamesByURI \in [URIs -> SUBSET Names]
          /\ UsesExact

LEMMA ReoccurKeeps ==
  ASSUME UseInv, NEW u \in URIs, NEW occs \in SUBSET Names, Reoccur(u, occs)
  PROVE  /\ occByName' \in [Names -> SUBSET URIs]
         /\ occNamesByURI' \in [URIs -> SUBSET Names]
         /\ \A n \in Names, v \in URIs : v \in occByName'[n] <=> n \in occNamesByURI'[v]
<1>1. /\ occNamesByURI' = [occNamesByURI EXCEPT ![u] = occs]
      /\ occNamesByURI' \in [URIs -> SUBSET Names]
  BY DEF Reoccur, UseInv
<1>2. occByName' \in [Names -> SUBSET URIs]
  BY DEF Reoccur, UseInv
<1>3. ASSUME NEW n \in Names, NEW v \in URIs
      PROVE  v \in occByName'[n] <=> n \in occNamesByURI'[v]
  <2>1. v \in occByName[n] <=> n \in occNamesByURI[v]
    BY DEF UseInv, UsesExact
  <2>2. CASE v = u
    BY <1>1, <2>1, <2>2 DEF Reoccur, UseInv
  <2>3. CASE v # u
    BY <1>1, <2>1, <2>3 DEF Reoccur, UseInv
  <2> QED BY <2>2, <2>3
<1> QED BY <1>1, <1>2, <1>3

LEMMA ReconnectKeeps ==
  ASSUME UseInv, NEW conns, IsBuckets(conns, Seq(Names)), Reconnect(conns)
  PROVE  /\ connByName' \in [Names -> SUBSET URIs]
         /\ connNamesByURI' \in [URIs -> SUBSET Names]
         /\ \A n \in Names, v \in URIs : v \in connByName'[n] <=> n \in connNamesByURI'[v]
<1>1. DOMAIN conns \subseteq URIs
  BY DEF IsBuckets
<1>2. connNamesByURI' \in [URIs -> SUBSET Names]
  BY ReconnectFacts DEF UseInv
<1>3. connByName' \in [Names -> SUBSET URIs]
  BY <1>1 DEF Reconnect, UseInv
<1>4. ASSUME NEW n \in Names, NEW v \in URIs
      PROVE  v \in connByName'[n] <=> n \in connNamesByURI'[v]
  <2>1. v \in connByName[n] <=> n \in connNamesByURI[v]
    BY DEF UseInv, UsesExact
  <2>2. CASE v \in DOMAIN conns
    <3>1. connNamesByURI'[v] = ToSet(conns[v])
      BY <2>2 DEF Reconnect
    <3>2. v \in connByName'[n] <=> n \in ToSet(conns[v])
      BY <2>1, <2>2 DEF Reconnect
    <3> QED BY <3>1, <3>2
  <2>3. CASE v \notin DOMAIN conns
    BY <2>1, <2>3 DEF Reconnect
  <2> QED BY <2>2, <2>3
<1> QED BY <1>2, <1>3, <1>4

LEMMA UseStep == BackInv /\ UseInv /\ [Next]_vars => UseInv'
<1> SUFFICES ASSUME BackInv, UseInv, [Next]_vars PROVE UseInv'
  OBVIOUS
<1>1. ASSUME NEW o \in URIs, NEW r \in ScanResults[o], SetFile(o, r) PROVE UseInv'
  <2> DEFINE dropped == Dropped(o, Touches(r))
             conns   == [u \in DOMAIN r.conns \cup dropped |->
                           IF u \in DOMAIN r.conns THEN r.conns[u] ELSE <<>>]
  <2>1. IsScanResult(o, r)
    BY ScanAssumption
  <2>2. dropped \subseteq URIs
    BY DEF Dropped, BackInv
  <2>3. IsBuckets(conns, Seq(Names))
    BY <2>1, <2>2, EmptySeq DEF IsScanResult, IsBuckets
  <2>4. Reconnect(conns) /\ Reoccur(o, r.occs)
    BY <1>1 DEF SetFile
  <2>5. r.occs \in SUBSET Names
    BY <2>1 DEF IsScanResult
  <2> HIDE DEF conns
  <2> QED BY <2>3, <2>4, <2>5, ReoccurKeeps, ReconnectKeeps DEF UseInv, UsesExact
<1>2. ASSUME NEW o \in URIs, RemoveFile(o) PROVE UseInv'
  <2> DEFINE conns == [u \in Dropped(o, {}) \cup {o} |-> <<>>]
  <2>1. IsBuckets(conns, Seq(Names))
    BY EmptySeq DEF IsBuckets, Dropped, BackInv
  <2>2. Reconnect(conns) /\ Reoccur(o, {})
    BY <1>2 DEF RemoveFile
  <2> HIDE DEF conns
  <2> QED BY <2>1, <2>2, ReoccurKeeps, ReconnectKeeps DEF UseInv, UsesExact
<1>3. CASE SortedNames \/ UNCHANGED vars
  BY <1>3 DEF SortedNames, vars, useVars, UseInv, UsesExact
<1> QED BY <1>1, <1>2, <1>3 DEF Next

(* A name's bucket lists a file exactly when the file's own list has the    *)
(* name: no rescan leaves a use behind that the next one would not clear    *)
(* (removeOccurrencesLocked, removeConnectionsLocked).                      *)
THEOREM UsesInverse == Spec => []UsesExact
<1>1. Init => UseInv
  BY DEF Init, UseInv, UsesExact
<1>2. UseInv => UsesExact
  BY DEF UseInv
<1> QED BY <1>1, <1>2, UseStep, BackInvariant, PTL DEF Spec

-----------------------------------------------------------------------------
(* The lists of byName.  Naturals are well-founded, which is how the folds  *)
(* are reasoned about: a least step that broke the invariant has a          *)
(* predecessor that kept it.                                                *)

\* A set of naturals has a least member.
LEMMA Least == ASSUME NEW T \in SUBSET Nat, T # {}
               PROVE  \E m \in T : \A k \in T : m <= k
<1>1. PICK m \in T : \A k \in T : <<k, m>> \notin OpToRel(<, Nat)
  BY NatLessThanWellFounded, WFMin
<1>2. \A k \in T : ~ (k < m)
  BY <1>1 DEF OpToRel
<1> QED BY <1>2

\* InOrder runs through the set, each member once.
LEMMA InOrderLists ==
  ASSUME NEW P \in SUBSET Nat, IsFiniteSet(P)
  PROVE  /\ InOrder(P) \in [1 .. Cardinality(P) -> P]
         /\ \A i, j \in 1 .. Cardinality(P) : InOrder(P)[i] = InOrder(P)[j] => i = j
         /\ \A p \in P : \E i \in 1 .. Cardinality(P) : InOrder(P)[i] = p
         /\ \A i, j \in 1 .. Cardinality(P) : i < j => InOrder(P)[i] < InOrder(P)[j]
<1> DEFINE n    == Cardinality(P)
           Below(i) == {h \in P : h <= i}
           rank == [i \in P |-> Cardinality(Below(i))]
<1>1. n \in Nat
  BY FS_CardinalityType
<1>2. ASSUME NEW i \in P PROVE rank[i] \in 1 .. n
  <2>1. IsFiniteSet(Below(i)) /\ Cardinality(Below(i)) <= n /\ Below(i) # {}
    BY FS_Subset
  <2>2. Cardinality(Below(i)) \in Nat /\ Cardinality(Below(i)) # 0
    BY <2>1, FS_CardinalityType, FS_EmptySet
  <2> QED BY <1>1, <2>1, <2>2
<1>3. ASSUME NEW i \in P, NEW j \in P, i < j PROVE rank[i] # rank[j]
  <2>3. \A h \in P : h <= i => h <= j
    BY <1>3
  <2>4. Below(i) \in SUBSET Below(j)
    BY <2>3, Zenon
  <2>5. j \in Below(j) /\ j \notin Below(i)
    BY <1>3
  <2>1. Below(i) \in SUBSET Below(j) /\ Below(i) # Below(j)
    BY <2>4, <2>5, Zenon
  <2>2. IsFiniteSet(Below(j))
    BY FS_Subset
  <2>6. Cardinality(Below(j)) # Cardinality(Below(i))
    BY <2>1, <2>2, FS_Subset
  <2> QED BY <2>6
<1>4. \A i, j \in P : rank[i] = rank[j] => i = j
  BY <1>3
<1>5. rank \in Injection(P, 1 .. n)
  BY <1>2, <1>4 DEF Injection, IsInjective
<1>6. IsFiniteSet(1 .. n) /\ Cardinality(1 .. n) = n
  BY <1>1, FS_Interval
<1>7. rank \in Surjection(P, 1 .. n)
  BY <1>5, <1>6, FS_Injection
<1>8. \A j \in 1 .. n : \E i \in P : rank[i] = j
  BY <1>7 DEF Surjection
<1>9. ASSUME NEW j \in 1 .. n PROVE InOrder(P)[j] \in P /\ rank[InOrder(P)[j]] = j
  BY <1>8 DEF InOrder
<1>10. InOrder(P) \in [1 .. n -> P]
  BY <1>9 DEF InOrder
<1> HIDE DEF rank
<1>11. \A i, j \in 1 .. n : InOrder(P)[i] = InOrder(P)[j] => i = j
  BY <1>9
<1>12. \A p \in P : InOrder(P)[rank[p]] = p
  BY <1>2, <1>4, <1>9
<1>13. ASSUME NEW p \in P, NEW q \in P, p <= q PROVE rank[p] <= rank[q]
  <2>4. \A h \in P : h <= p => h <= q
    BY <1>13
  <2>1. Below(p) \in SUBSET Below(q)
    BY <2>4, Zenon
  <2>2. IsFiniteSet(Below(q))
    BY FS_Subset
  <2>3. Cardinality(Below(p)) <= Cardinality(Below(q))
    BY <2>1, <2>2, FS_Subset
  <2> QED BY <2>3 DEF rank
<1>14. ASSUME NEW i \in 1 .. n, NEW j \in 1 .. n, i < j PROVE InOrder(P)[i] < InOrder(P)[j]
  <2> DEFINE p == InOrder(P)[i]
             q == InOrder(P)[j]
  <2>1. p \in P /\ q \in P /\ rank[p] = i /\ rank[q] = j
    BY <1>9
  <2> HIDE DEF p, q
  <2>2. q <= p => rank[q] <= rank[p]
    BY <1>13, <2>1
  <2>3. p \in Nat /\ q \in Nat
    BY <2>1
  <2>4. p < q
    BY <1>14, <2>1, <2>2, <2>3
  <2> QED BY <2>4 DEF p, q
<1> QED BY <1>2, <1>10, <1>11, <1>12, <1>14

\* Replaced satisfies its recursion: no least number of files lacks a function
\* that does.
LEMMA ReplacedIs ==
  ASSUME NEW order, Len(order) \in Nat, NEW new
  PROVE  Replaced(order, new) =
           [i \in 0 .. Len(order) |->
              IF i = 0 THEN [byName |-> byName, delta |-> [n \in Names |-> 0]]
              ELSE Rebucket(Replaced(order, new)[i - 1], order[i], files[order[i]], new[order[i]])]
<1> DEFINE a(g, i) == IF i = 0 THEN [byName |-> byName, delta |-> [n \in Names |-> 0]]
                      ELSE Rebucket(g[i - 1], order[i], files[order[i]], new[order[i]])
           T == {n \in Nat : ~ \E g : g = [i \in 0 .. n |-> a(g, i)]}
<1>3. T \subseteq Nat
  OBVIOUS
<1>1. T = {}
  <2> SUFFICES ASSUME T # {} PROVE FALSE
    OBVIOUS
  <2>1. PICK n \in T : \A k \in T : n <= k
    BY <1>3, Least
  <2>2. CASE n = 0
    <3> DEFINE g == [i \in 0 .. 0 |-> a(<<>>, i)]
    <3>1. g = [i \in 0 .. 0 |-> a(g, i)]
      OBVIOUS
    <3> QED BY <2>1, <2>2, <3>1
  <2>3. CASE n # 0
    <3>1. PICK g : g = [i \in 0 .. n - 1 |-> a(g, i)]
      <4> HIDE DEF T
      <4>1. n - 1 \in Nat /\ n - 1 \notin T
        BY <1>3, <2>1, <2>3
      <4> USE DEF T
      <4> QED BY <4>1, Zenon
    <3> DEFINE f == [i \in 0 .. n |-> IF i = n THEN a(g, n) ELSE g[i]]
    <3>2. f = [i \in 0 .. n |-> a(f, i)]
      <4>1. ASSUME NEW i \in 0 .. n PROVE f[i] = a(f, i)
        <5>1. CASE i = n
          BY <5>1, <2>3
        <5>2. CASE i # n
          <6>1. f[i] = a(g, i)
            BY <5>2, <3>1
          <6> QED BY <6>1, <5>2
        <5> QED BY <5>1, <5>2
      <4> HIDE DEF a
      <4> QED BY <4>1
    <3> QED BY <2>1, <3>2
  <2> QED BY <2>2, <2>3
<1>2. \E g : g = [i \in 0 .. Len(order) |-> a(g, i)]
  BY <1>1
<1> QED BY <1>2 DEF Replaced

\* Whether a list has entries, as what noteNameLocked counts, and the names
\* whose list in a by-name map has some.
Has(s)  == IF s = <<>> THEN 0 ELSE 1
Keys(m) == {n \in Names : m[n] # <<>>}

\* s lists the members of K, each once.
Lists(s, K) == /\ s \in Seq(DeclRef)
               /\ \A i, j \in 1 .. Len(s) : s[i] = s[j] => i = j
               /\ \A i \in 1 .. Len(s) : s[i] \in K
               /\ \A k \in K : \E i \in 1 .. Len(s) : s[i] = k

\* The refs of u in a set, and their positions in a list.
RefsOf(K, u) == {k \in K : k.uri = u}
HeldBy(s, u) == {i \in 1 .. Len(s) : s[i].uri = u}

\* As many positions of a list hold u as the set has refs of u.
LEMMA ListedFinite ==
  ASSUME NEW s, NEW K, Lists(s, K), NEW u
  PROVE  /\ IsFiniteSet(HeldBy(s, u))
         /\ Cardinality(RefsOf(K, u)) = Cardinality(HeldBy(s, u))
         /\ Cardinality(RefsOf(K, u)) \in Nat
<1> DEFINE U == {i \in 1 .. Len(s) : s[i].uri = u}
           f == [i \in U |-> s[i]]
<1>1. Len(s) \in Nat /\ DOMAIN s = 1 .. Len(s)
  BY DEF Lists
<1>2. IsFiniteSet(1 .. Len(s)) /\ U \in SUBSET (1 .. Len(s))
  BY <1>1, FS_Interval
<1>3. IsFiniteSet(U)
  BY <1>2, FS_Subset
<1>4. f \in Bijection(U, {k \in K : k.uri = u})
  <2>1. f \in Injection(U, {k \in K : k.uri = u})
    BY DEF Lists, Injection, IsInjective
  <2>2. f \in Surjection(U, {k \in K : k.uri = u})
    BY DEF Lists, Surjection
  <2> QED BY <2>1, <2>2 DEF Bijection
<1>5. ExistsBijection(U, {k \in K : k.uri = u})
  BY <1>4 DEF ExistsBijection
<1> QED BY <1>3, <1>5, FS_Bijection, FS_CardinalityType DEF HeldBy, RefsOf

\* The tail popped is all u's and within the list.
LEMMA TailRunIs ==
  ASSUME NEW refs, Len(refs) \in Nat, NEW u, NEW own \in Nat
  PROVE  LET k == TailRun(refs, u, own)
         IN /\ k \in 0 .. own
            /\ k <= Len(refs)
            /\ \A j \in Len(refs) - k + 1 .. Len(refs) : refs[j].uri = u
<1> DEFINE All(k) == \A j \in Len(refs) - k + 1 .. Len(refs) : refs[j].uri = u
           T == {d \in 0 .. own : own - d <= Len(refs) /\ All(own - d)}
<1>1. own \in T /\ T \subseteq Nat
  OBVIOUS
<1>2. PICK d \in T : \A e \in T : d <= e
  BY <1>1, Least
<1> DEFINE k == own - d
<1>3. k \in 0 .. own /\ k <= Len(refs) /\ All(k) /\ d \in Nat
  BY <1>2
<1>4. ASSUME k < own, k < Len(refs) PROVE refs[Len(refs) - k].uri # u
  <2>1. d - 1 \in 0 .. own /\ d - 1 \notin T
    BY <1>1, <1>2, <1>3, <1>4
  <2>2. ~ All(own - (d - 1))
    BY <1>3, <1>4, <2>1
  <2>3. \A j \in Len(refs) - (own - (d - 1)) + 1 .. Len(refs) :
          j = Len(refs) - k \/ j \in Len(refs) - k + 1 .. Len(refs)
    BY <1>3
  <2> QED BY <1>3, <2>2, <2>3
<1> QED BY <1>3, <1>4 DEF TailRun

\* With own the number of u's refs, whichever way the list is shortened, exactly
\* the refs of the other files are left.
LEMMA DropsAll ==
  ASSUME NEW refs, NEW K, Lists(refs, K), NEW u
  PROVE  Lists(DropRefs(refs, u, Cardinality(RefsOf(K, u))), {k \in K : k.uri # u})
<1> DEFINE own  == Cardinality(RefsOf(K, u))
           L    == Len(refs)
           U    == {i \in 1 .. L : refs[i].uri = u}
           t    == TailRun(refs, u, own)
           kept == IF t = own THEN 1 .. L - t ELSE {i \in 1 .. L - t : refs[i].uri # u}
           out  == [j \in 1 .. Cardinality(kept) |-> refs[InOrder(kept)[j]]]
<1>1. L \in Nat /\ refs \in [1 .. L -> DeclRef]
  BY DEF Lists
<1>2. IsFiniteSet(U) /\ Cardinality(U) = own /\ own \in Nat
  BY ListedFinite DEF HeldBy
<1> HIDE DEF own
<1>3. t \in 0 .. own /\ t <= L /\ \A j \in L - t + 1 .. L : refs[j].uri = u
  BY <1>1, <1>2, TailRunIs
<1> HIDE DEF t
<1>4. kept = {i \in 1 .. L : refs[i].uri # u}
  <2>1. CASE t = own
    <3>1. L - t + 1 .. L \in SUBSET U
      BY <1>1, <1>3
    <3>2. Cardinality(L - t + 1 .. L) = own
      BY <1>1, <1>3, <2>1, FS_Interval
    <3>3. U = L - t + 1 .. L
      BY <1>2, <3>1, <3>2, FS_Subset
    <3> QED BY <1>1, <1>3, <2>1, <3>3
  <2>2. CASE t # own
    BY <1>1, <1>3, <2>2
  <2> QED BY <2>1, <2>2
<1>5. DropRefs(refs, u, own) = out
  BY DEF DropRefs, t
<1> HIDE DEF kept
<1>6. IsFiniteSet(kept) /\ kept \in SUBSET Nat /\ kept \subseteq 1 .. L /\ Cardinality(kept) \in Nat
  <2>1. kept \in SUBSET (1 .. L) /\ kept \in SUBSET Nat
    BY <1>1, <1>4
  <2>2. IsFiniteSet(1 .. L)
    BY <1>1, FS_Interval
  <2> QED BY <2>1, <2>2, FS_Subset, FS_CardinalityType
<1>7. /\ InOrder(kept) \in [1 .. Cardinality(kept) -> kept]
      /\ \A i, j \in 1 .. Cardinality(kept) : InOrder(kept)[i] = InOrder(kept)[j] => i = j
      /\ \A p \in kept : \E i \in 1 .. Cardinality(kept) : InOrder(kept)[i] = p
  BY <1>6, InOrderLists
<1>8. \A i \in kept : refs[i] \in DeclRef /\ refs[i] \in {k \in K : k.uri # u}
  BY <1>1, <1>4, <1>6 DEF Lists
<1>9. out \in [1 .. Cardinality(kept) -> DeclRef]
  BY <1>7, <1>8
<1>10. out \in Seq(DeclRef) /\ Len(out) = Cardinality(kept)
  BY <1>6, <1>9
<1>11. \A i, j \in 1 .. Cardinality(kept) : out[i] = out[j] => i = j
  BY <1>6, <1>7 DEF Lists
<1>12. ASSUME NEW k \in K, k.uri # u PROVE \E i \in 1 .. Cardinality(kept) : out[i] = k
  <2>1. PICK p \in 1 .. L : refs[p] = k
    BY DEF Lists
  <2>2. PICK i \in 1 .. Cardinality(kept) : InOrder(kept)[i] = p
    BY <1>4, <1>7, <1>12, <2>1
  <2> QED BY <2>1, <2>2
<1>13. \A i \in 1 .. Cardinality(kept) : out[i] \in {k \in K : k.uri # u}
  BY <1>7, <1>8
<1> HIDE DEF out
<1>14. Lists(out, {k \in K : k.uri # u})
  BY <1>10, <1>11, <1>12, <1>13 DEF Lists
<1> QED BY <1>5, <1>14 DEF own

\* The declarations of n in buckets fs, and those of one file's bucket b.
Declared(fs, n)   == {k \in DeclRef : k.idx \in DOMAIN fs[k.uri] /\ fs[k.uri][k.idx].name = n}
RefsAt(u, n, b)   == {[uri |-> u, idx |-> i] : i \in Places(n, b)}
Buckets           == {b \in Seq(Decl) : Len(b) <= MaxIdx}

\* One file's bucket has as many refs of n as places.
LEMMA PlacesAre ==
  ASSUME NEW u \in URIs, NEW n \in Names, NEW b \in Buckets
  PROVE  /\ IsFiniteSet(Places(n, b)) /\ Places(n, b) \in SUBSET Nat
         /\ Places(n, b) \subseteq 1 .. MaxIdx
         /\ Count(n, b) \in Nat
         /\ Count(n, b) = 0 <=> Places(n, b) = {}
         /\ Cardinality(RefsAt(u, n, b)) = Count(n, b)
         /\ RefsAt(u, n, b) \subseteq DeclRef
<1> DEFINE P == Places(n, b)
           f == [i \in P |-> [uri |-> u, idx |-> i]]
<1>1. Len(b) \in Nat /\ Len(b) <= MaxIdx /\ DOMAIN b = 1 .. Len(b)
  BY DEF Buckets
<1>2. P \in SUBSET (1 .. Len(b)) /\ P \in SUBSET Nat /\ P \subseteq 1 .. MaxIdx
  BY <1>1, ScanAssumption DEF Places
<1>3. IsFiniteSet(1 .. Len(b))
  BY <1>1, FS_Interval
<1>4. IsFiniteSet(P) /\ Cardinality(P) \in Nat /\ (Cardinality(P) = 0 <=> P = {})
  BY <1>2, <1>3, FS_Subset, FS_CardinalityType, FS_EmptySet
<1>5. f \in Bijection(P, RefsAt(u, n, b))
  <2>1. f \in Injection(P, RefsAt(u, n, b))
    BY DEF RefsAt, Injection, IsInjective
  <2>2. f \in Surjection(P, RefsAt(u, n, b))
    BY DEF RefsAt, Surjection
  <2> QED BY <2>1, <2>2 DEF Bijection
<1>6. ExistsBijection(P, RefsAt(u, n, b))
  BY <1>5 DEF ExistsBijection
<1>7. Cardinality(RefsAt(u, n, b)) = Cardinality(P)
  BY <1>4, <1>6, FS_Bijection
<1>8. RefsAt(u, n, b) \subseteq DeclRef
  BY <1>2 DEF RefsAt, DeclRef
<1> QED BY <1>2, <1>4, <1>7, <1>8 DEF Count

LEMMA DeclaredAt ==
  ASSUME NEW fs \in [URIs -> Buckets], NEW n \in Names, NEW u \in URIs
  PROVE  RefsOf(Declared(fs, n), u) = RefsAt(u, n, fs[u])
<1>1. ASSUME NEW k \in Declared(fs, n), k.uri = u PROVE k \in RefsAt(u, n, fs[u])
  <2>1. k = [uri |-> u, idx |-> k.idx]
    BY <1>1 DEF Declared, DeclRef
  <2> QED BY <1>1, <2>1 DEF Declared, RefsAt, Places
<1>2. ASSUME NEW k \in RefsAt(u, n, fs[u]) PROVE k \in Declared(fs, n) /\ k.uri = u
  <2>1. k \in DeclRef
    BY PlacesAre
  <2> QED BY <2>1 DEF Declared, RefsAt, Places
<1> QED BY <1>1, <1>2 DEF RefsOf

\* Appending u's refs to a list without any adds exactly those.
LEMMA AddsAll ==
  ASSUME NEW refs, NEW K, Lists(refs, K), NEW u \in URIs, \A k \in K : k.uri # u,
         NEW n \in Names, NEW b \in Buckets
  PROVE  /\ Lists(RefsInto(refs, u, n, b), K \cup RefsAt(u, n, b))
         /\ RefsInto(refs, u, n, b) = <<>> <=> refs = <<>> /\ Count(n, b) = 0
<1> DEFINE P  == Places(n, b)
           C  == Count(n, b)
           L  == Len(refs)
           t  == [j \in 1 .. C |-> [uri |-> u, idx |-> InOrder(P)[j]]]
           out == refs \o t
<1>1. C \in Nat /\ P \subseteq 1 .. MaxIdx /\ RefsAt(u, n, b) \subseteq DeclRef
  BY PlacesAre
<1>2. /\ InOrder(P) \in [1 .. C -> P]
      /\ \A i, j \in 1 .. C : InOrder(P)[i] = InOrder(P)[j] => i = j
      /\ \A p \in P : \E i \in 1 .. C : InOrder(P)[i] = p
  BY PlacesAre, InOrderLists DEF Count
<1>3. refs \in Seq(DeclRef) /\ L \in Nat
  BY DEF Lists
<1>4. t \in [1 .. C -> RefsAt(u, n, b)]
  BY <1>2 DEF RefsAt
<1>5. t \in Seq(DeclRef) /\ Len(t) = C
  <2>1. t \in [1 .. C -> DeclRef]
    BY <1>1, <1>4
  <2> HIDE DEF C, t
  <2> QED BY <1>1, <2>1
<1>6. \A i, j \in 1 .. C : t[i] = t[j] => i = j
  BY <1>2
<1>7. \A k \in RefsAt(u, n, b) : k.uri = u /\ \E j \in 1 .. C : t[j] = k
  BY <1>2 DEF RefsAt
<1> HIDE DEF C, P, t
<1>8. out \in Seq(DeclRef) /\ Len(out) = L + C
  BY <1>1, <1>3, <1>5
<1>9. \A i \in 1 .. L + C : out[i] = IF i <= L THEN refs[i] ELSE t[i - L]
  BY <1>1, <1>3, <1>5
<1>10. \A i \in 1 .. L + C : IF i <= L THEN out[i] \in K /\ out[i].uri # u
                             ELSE i - L \in 1 .. C /\ out[i] \in RefsAt(u, n, b) /\ out[i].uri = u
  BY <1>1, <1>3, <1>4, <1>7, <1>9 DEF Lists
<1>11. ASSUME NEW i \in 1 .. L + C, NEW j \in 1 .. L + C, out[i] = out[j] PROVE i = j
  <2>1. CASE i <= L
    <3>1. j <= L
      BY <1>10, <1>11, <2>1
    <3> QED BY <1>1, <1>3, <1>9, <1>11, <2>1, <3>1 DEF Lists
  <2>2. CASE ~ (i <= L)
    <3>1. ~ (j <= L)
      BY <1>10, <1>11, <2>2
    <3>2. t[i - L] = t[j - L] /\ i - L \in 1 .. C /\ j - L \in 1 .. C
      BY <1>9, <1>10, <1>11, <2>2, <3>1
    <3>3. i - L = j - L
      BY <1>6, <3>2
    <3> QED BY <1>1, <1>3, <3>3
  <2> QED BY <2>1, <2>2
<1>12. \A i \in 1 .. L + C : out[i] \in K \cup RefsAt(u, n, b)
  BY <1>10
<1>13. ASSUME NEW k \in K PROVE \E i \in 1 .. L + C : out[i] = k
  <2>1. PICK i \in 1 .. L : refs[i] = k
    BY DEF Lists
  <2> QED BY <1>1, <1>3, <1>9, <2>1
<1>14. ASSUME NEW k \in RefsAt(u, n, b) PROVE \E i \in 1 .. L + C : out[i] = k
  <2>1. PICK j \in 1 .. C : t[j] = k
    BY <1>7
  <2>2. L + j \in 1 .. L + C /\ out[L + j] = t[j]
    <3>1. L + j \in 1 .. L + C /\ ~ (L + j <= L) /\ (L + j) - L = j
      BY <1>1, <1>3
    <3>2. out[L + j] = t[(L + j) - L]
      BY <1>9, <3>1
    <3> QED BY <3>1, <3>2
  <2> QED BY <2>1, <2>2
<1>15. out = <<>> <=> refs = <<>> /\ C = 0
  BY <1>1, <1>3, <1>8
<1>16. RefsInto(refs, u, n, b) = out
  BY DEF RefsInto, t, C, P
<1> HIDE DEF out
<1> QED BY <1>8, <1>11, <1>12, <1>13, <1>14, <1>15, <1>16 DEF Lists, C

\* One file's turn: the lists follow its bucket, and the change noted is the
\* difference between having entries before and after.
LEMMA RebucketKeeps ==
  ASSUME NEW fs \in [URIs -> Buckets], NEW u \in URIs, NEW b \in Buckets, NEW acc,
         \A n \in Names : Lists(acc.byName[n], Declared(fs, n)),
         acc.delta \in [Names -> Int],
         NEW x, x = Rebucket(acc, u, fs[u], b)
  PROVE  /\ DOMAIN x.byName = Names
         /\ x.delta \in [Names -> Int]
         /\ \A n \in Names :
              /\ Lists(x.byName[n], Declared([fs EXCEPT ![u] = b], n))
              /\ x.delta[n] = acc.delta[n] + Has(x.byName[n]) - Has(acc.byName[n])
<1> DEFINE drop(n) == DropRefs(acc.byName[n], u, Count(n, fs[u]))
           rest(n) == {k \in Declared(fs, n) : k.uri # u}
<1>1. fs[u] \in Buckets
  OBVIOUS
<1>2. ASSUME NEW n \in Names PROVE Lists(drop(n), rest(n))
  <2>1. Count(n, fs[u]) = Cardinality(RefsOf(Declared(fs, n), u))
    BY <1>1, DeclaredAt, PlacesAre
  <2>2. Lists(acc.byName[n], Declared(fs, n))
    OBVIOUS
  <2> QED BY <2>1, <2>2, DropsAll
<1>3. ASSUME NEW n \in Names
      PROVE  /\ Lists(RefsInto(drop(n), u, n, b), rest(n) \cup RefsAt(u, n, b))
             /\ RefsInto(drop(n), u, n, b) = <<>> <=> drop(n) = <<>> /\ Count(n, b) = 0
  <2> HIDE DEF drop
  <2>1. \A k \in rest(n) : k.uri # u
    OBVIOUS
  <2> HIDE DEF rest
  <2> QED BY <1>2, <2>1, AddsAll
<1>4. ASSUME NEW n \in Names
      PROVE  rest(n) \cup RefsAt(u, n, b) = Declared([fs EXCEPT ![u] = b], n)
  <2> DEFINE gs == [fs EXCEPT ![u] = b]
  <2>1. gs \in [URIs -> Buckets] /\ gs[u] = b /\ \A v \in URIs : v # u => gs[v] = fs[v]
    OBVIOUS
  <2> HIDE DEF gs
  <2>2. {k \in Declared(gs, n) : k.uri = u} = RefsAt(u, n, b)
    BY <2>1, DeclaredAt DEF RefsOf
  <2>3. {k \in Declared(gs, n) : k.uri # u} = rest(n)
    BY <2>1 DEF Declared, DeclRef
  <2>4. rest(n) \cup RefsAt(u, n, b) = Declared(gs, n)
    BY <2>2, <2>3
  <2> QED BY <2>4 DEF gs
<1>5. ASSUME NEW n \in Names
      PROVE  /\ Count(n, fs[u]) > 0 => acc.byName[n] # <<>>
             /\ Count(n, fs[u]) = 0 => (drop(n) = <<>> <=> acc.byName[n] = <<>>)
             /\ drop(n) # <<>> => acc.byName[n] # <<>>
             /\ Count(n, fs[u]) \in Nat /\ Count(n, b) \in Nat
  <2> HIDE DEF drop
  <2>1. /\ acc.byName[n] = <<>> <=> Declared(fs, n) = {}
        /\ drop(n) = <<>> <=> rest(n) = {}
    BY <1>2 DEF Lists
  <2>2. {k \in Declared(fs, n) : k.uri = u} = RefsAt(u, n, fs[u])
    BY DeclaredAt DEF RefsOf
  <2>3. /\ Count(n, fs[u]) \in Nat /\ Count(n, b) \in Nat
        /\ Count(n, fs[u]) = 0 <=> Places(n, fs[u]) = {}
    BY <1>1, PlacesAre
  <2>4. Places(n, fs[u]) = {} <=> RefsAt(u, n, fs[u]) = {}
    BY DEF RefsAt
  <2> QED BY <2>1, <2>2, <2>3, <2>4
<1>6. /\ x.byName = [n \in Names |-> RefsInto(drop(n), u, n, b)]
      /\ x.delta = [n \in Names |->
           acc.delta[n] + (IF Count(n, b) > 0 /\ drop(n) = <<>> THEN 1 ELSE 0)
                        - (IF Count(n, fs[u]) > 0 /\ drop(n) = <<>> THEN 1 ELSE 0)]
  BY DEF Rebucket
<1> HIDE DEF drop, rest
<1>7. ASSUME NEW n \in Names
      PROVE  x.delta[n] = acc.delta[n] + Has(x.byName[n]) - Has(acc.byName[n])
  <2>1. acc.delta[n] \in Int /\ Count(n, fs[u]) \in Nat /\ Count(n, b) \in Nat
    BY <1>5
  <2>2. /\ x.byName[n] = RefsInto(drop(n), u, n, b)
        /\ x.delta[n] = acc.delta[n] + (IF Count(n, b) > 0 /\ drop(n) = <<>> THEN 1 ELSE 0)
                                     - (IF Count(n, fs[u]) > 0 /\ drop(n) = <<>> THEN 1 ELSE 0)
    BY <1>6
  <2>3. x.byName[n] = <<>> <=> drop(n) = <<>> /\ Count(n, b) = 0
    BY <1>3, <2>2
  <2> QED BY <1>5, <2>1, <2>2, <2>3 DEF Has
<1>8. x.delta \in [Names -> Int] /\ DOMAIN x.byName = Names
  BY <1>6
<1>9. ASSUME NEW n \in Names PROVE Lists(x.byName[n], Declared([fs EXCEPT ![u] = b], n))
  BY <1>3, <1>4, <1>6
<1> QED BY <1>7, <1>8, <1>9

\* Orders every file of D once.
Orders(order, D) == /\ Len(order) \in Nat
                    /\ order \in [1 .. Len(order) -> D]
                    /\ \A i, j \in 1 .. Len(order) : order[i] = order[j] => i = j
                    /\ \A u \in D : \E i \in 1 .. Len(order) : order[i] = u

\* The buckets once the first i files of the order are replaced.
Sofar(order, new, i) == [u \in URIs |-> IF \E j \in 1 .. i : order[j] = u THEN new[u] ELSE files[u]]

\* The inductive invariant: each name's list has its declarations once each.
ByInv == /\ files \in [URIs -> Buckets]
         /\ DOMAIN byName = Names
         /\ \A n \in Names : Lists(byName[n], Declared(files, n))
         /\ names \subseteq {Keys(byName)}

\* The changes noted turn the keys before into the keys after.
LEMMA SyncNamesKeeps ==
  ASSUME NEW old, NEW new, NEW delta,
         \A n \in Names : delta[n] = Has(new[n]) - Has(old[n]),
         names \subseteq {Keys(old)}
  PROVE  SyncNames(delta) \subseteq {Keys(new)}
<1> USE DEF Keys
<1> DEFINE changed == {n \in Names : delta[n] # 0}
<1> SUFFICES ASSUME NEW list \in SyncNames(delta) PROVE list = {n \in Names : new[n] # <<>>}
  OBVIOUS
<1>1. PICK held \in names :
        list = (held \cup {n \in changed : delta[n] > 0}) \ {n \in changed : delta[n] < 0}
  BY DEF SyncNames, NoList
<1>2. held = {n \in Names : old[n] # <<>>}
  OBVIOUS
<1>3. ASSUME NEW n \in Names PROVE n \in list <=> new[n] # <<>>
  BY <1>1, <1>2 DEF Has
<1>4. list \subseteq Names
  BY <1>1, <1>2
<1> QED BY <1>3, <1>4

\* Every file's turn, in any order that has each once.
LEMMA RedeclareKeeps ==
  ASSUME ByInv, NEW D \in SUBSET URIs, NEW order, Orders(order, D),
         NEW new \in [URIs -> Buckets], \A u \in URIs \ D : new[u] = files[u],
         Redeclare(order, new)
  PROVE  /\ DOMAIN byName' = Names
         /\ \A n \in Names : Lists(byName'[n], Declared(new, n))
         /\ names' \subseteq {Keys(byName')}
<1> DEFINE L      == Len(order)
           acc    == Replaced(order, new)
           fs(i)  == Sofar(order, new, i)
           Kept(i) == /\ DOMAIN acc[i].byName = Names
                      /\ acc[i].delta \in [Names -> Int]
                      /\ \A n \in Names : Lists(acc[i].byName[n], Declared(fs(i), n))
                      /\ \A n \in Names : acc[i].delta[n] = Has(acc[i].byName[n]) - Has(byName[n])
           T      == {i \in 0 .. L : ~ Kept(i)}
<1>1. L \in Nat
  BY DEF Orders
<1>2. \A i \in 0 .. L :
        acc[i] = IF i = 0 THEN [byName |-> byName, delta |-> [n \in Names |-> 0]]
                 ELSE Rebucket(acc[i - 1], order[i], files[order[i]], new[order[i]])
  BY <1>1, ReplacedIs
<1> HIDE DEF acc
<1>3. Kept(0)
  <2>1. fs(0) = files
    BY DEF ByInv, Sofar
  <2>2. acc[0] = [byName |-> byName, delta |-> [n \in Names |-> 0]]
    BY <1>1, <1>2
  <2>3. acc[0].byName = byName /\ acc[0].delta = [n \in Names |-> 0]
    BY <2>2
  <2>4. \A n \in Names : Has(byName[n]) \in Int
    BY DEF Has
  <2> HIDE DEF fs
  <2> QED BY <2>1, <2>3, <2>4 DEF ByInv
<1>4. ASSUME NEW i \in 1 .. L, Kept(i - 1) PROVE Kept(i)
  <2> DEFINE u == order[i]
  <2>1. u \in URIs /\ new[u] \in Buckets /\ i - 1 \in 0 .. L
    BY <1>1 DEF Orders
  <2>2. fs(i - 1) \in [URIs -> Buckets]
    BY DEF Sofar, ByInv
  <2>3. fs(i - 1)[u] = files[u]
    BY <1>1, <2>1 DEF Sofar, Orders
  <2>4. [fs(i - 1) EXCEPT ![u] = new[u]] = fs(i)
    <3>1. ASSUME NEW v \in URIs
          PROVE  (\E j \in 1 .. i : order[j] = v) <=> v = u \/ \E j \in 1 .. i - 1 : order[j] = v
      BY <1>1
    <3> QED BY <2>1, <3>1 DEF Sofar
  <2>5. acc[i] = Rebucket(acc[i - 1], u, fs(i - 1)[u], new[u])
    BY <1>1, <1>2, <2>3
  <2> HIDE DEF fs, u
  <2>6. /\ DOMAIN acc[i].byName = Names
        /\ acc[i].delta \in [Names -> Int]
        /\ \A n \in Names :
             /\ Lists(acc[i].byName[n], Declared([fs(i - 1) EXCEPT ![u] = new[u]], n))
             /\ acc[i].delta[n] = acc[i - 1].delta[n] + Has(acc[i].byName[n]) - Has(acc[i - 1].byName[n])
    BY <1>4, <2>1, <2>2, <2>5, RebucketKeeps
  <2>7. ASSUME NEW n \in Names PROVE acc[i].delta[n] = Has(acc[i].byName[n]) - Has(byName[n])
    BY <1>4, <2>6 DEF Has
  <2> QED BY <2>4, <2>6, <2>7
<1>5. T = {}
  <2> SUFFICES ASSUME T # {} PROVE FALSE
    OBVIOUS
  <2> HIDE DEF Kept
  <2>1. T \subseteq Nat
    OBVIOUS
  <2>2. PICK i \in T : \A k \in T : i <= k
    BY <2>1, Least
  <2>3. i \in 1 .. L /\ i - 1 \in 0 .. L /\ ~ Kept(i)
    BY <1>1, <1>3, <2>2
  <2>4. i - 1 \notin T
    BY <2>2, <2>3
  <2> QED BY <1>4, <2>3, <2>4
<1>6. Kept(L)
  BY <1>1, <1>5
<1>7. fs(L) = new
  BY <1>1 DEF Sofar, Orders
<1>8. byName' = acc[L].byName /\ names' = SyncNames(acc[L].delta)
  BY DEF Redeclare, acc
<1> HIDE DEF fs
<1>9. names' \subseteq {Keys(byName')}
  <2>1. names \subseteq {Keys(byName)}
    BY DEF ByInv
  <2>2. \A n \in Names : acc[L].delta[n] = Has(acc[L].byName[n]) - Has(byName[n])
    BY <1>6
  <2>3. SyncNames(acc[L].delta) \subseteq {Keys(acc[L].byName)}
    BY <2>1, <2>2, SyncNamesKeeps
  <2> QED BY <1>8, <2>3
<1> QED BY <1>6, <1>7, <1>8, <1>9

\* The orders SetFile and RemoveFile use have each file once.
LEMMA PermutationsOrder ==
  ASSUME NEW D, IsFiniteSet(D), NEW order \in SetToSeqs(D)
  PROVE  Orders(order, D)
<1> DEFINE n == Cardinality(D)
<1>1. n \in Nat /\ order \in [1 .. n -> D] /\ Len(order) = n
  BY FS_CardinalityType DEF SetToSeqs
<1>2. \A i, j \in 1 .. n : order[i] = order[j] => i = j
  BY DEF SetToSeqs
<1>3. order \in Injection(1 .. n, D)
  BY <1>1, <1>2 DEF Injection, IsInjective
<1>4. Cardinality(1 .. n) = n
  BY <1>1, FS_Interval
<1>5. order \in Surjection(1 .. n, D)
  BY <1>3, <1>4, FS_Injection
<1> QED BY <1>1, <1>2, <1>5 DEF Surjection, Orders

LEMMA SetToSeqOrders ==
  ASSUME NEW D, IsFiniteSet(D)
  PROVE  Orders(SetToSeq(D), D)
<1> DEFINE n == Cardinality(D)
<1>1. n \in Nat /\ ExistsBijection(1 .. n, D)
  BY FS_CardinalityType
<1>2. \E f \in [1 .. n -> D] : IsInjective(f)
  BY <1>1 DEF ExistsBijection, Bijection, Injection
<1>3. SetToSeq(D) \in [1 .. n -> D] /\ IsInjective(SetToSeq(D))
  BY <1>2 DEF SetToSeq
<1>4. SetToSeq(D) \in SetToSeqs(D)
  BY <1>3 DEF SetToSeqs, IsInjective
<1> QED BY <1>4, PermutationsOrder

LEMMA OrdersJoin ==
  ASSUME NEW D, NEW E, D \cap E = {}, NEW s, Orders(s, D), NEW t, Orders(t, E)
  PROVE  Orders(s \o t, D \cup E)
<1> DEFINE A   == Len(s)
           B   == Len(t)
           out == s \o t
<1>1. A \in Nat /\ B \in Nat /\ s \in Seq(D) /\ t \in Seq(E)
  BY DEF Orders
<1>2. Len(out) = A + B /\ out \in Seq(D \cup E)
  BY <1>1
<1>3. \A i \in 1 .. A + B : out[i] = IF i <= A THEN s[i] ELSE t[i - A]
  BY <1>1
<1>4. \A i \in 1 .. A + B : IF i <= A THEN out[i] \in D /\ i \in 1 .. A
                            ELSE out[i] \in E /\ i - A \in 1 .. B
  BY <1>1, <1>3 DEF Orders
<1> HIDE DEF out
<1>5. ASSUME NEW i \in 1 .. A + B, NEW j \in 1 .. A + B, out[i] = out[j] PROVE i = j
  <2>1. CASE i <= A
    <3>1. j <= A
      BY <1>4, <1>5, <2>1
    <3> QED BY <1>3, <1>4, <1>5, <2>1, <3>1 DEF Orders
  <2>2. CASE ~ (i <= A)
    <3>1. ~ (j <= A)
      BY <1>4, <1>5, <2>2
    <3>2. i - A = j - A
      BY <1>3, <1>4, <1>5, <2>2, <3>1 DEF Orders
    <3> QED BY <1>1, <3>2
  <2> QED BY <2>1, <2>2
<1>6. ASSUME NEW u \in D PROVE \E i \in 1 .. A + B : out[i] = u
  <2>1. PICK i \in 1 .. A : s[i] = u
    BY DEF Orders
  <2> QED BY <1>1, <1>3, <2>1
<1>7. ASSUME NEW u \in E PROVE \E i \in 1 .. A + B : out[i] = u
  <2>1. PICK j \in 1 .. B : t[j] = u
    BY DEF Orders
  <2>2. A + j \in 1 .. A + B /\ ~ (A + j <= A) /\ (A + j) - A = j
    BY <1>1
  <2> QED BY <1>3, <2>1, <2>2
<1>8. out \in [1 .. A + B -> D \cup E]
  BY <1>2
<1>9. Orders(out, D \cup E)
  BY <1>1, <1>2, <1>5, <1>6, <1>7, <1>8 DEF Orders
<1> QED BY <1>9 DEF out

LEMMA ByNameSetFile ==
  ASSUME BackInv, ByInv, NEW o \in URIs, NEW r \in ScanResults[o], SetFile(o, r)
  PROVE  ByInv'
<1> DEFINE dropped == Dropped(o, Touches(r))
           decls   == Overlay(files, r.decls, dropped)
           D       == DOMAIN r.decls
<1>1. /\ D \subseteq URIs /\ \A f \in D : r.decls[f] \in Buckets
      /\ D \subseteq Touches(r)
  BY ScanAssumption DEF IsScanResult, IsBuckets, Buckets, Touches
<1>2. dropped \subseteq URIs /\ D \cap dropped = {}
  BY <1>1 DEF Dropped, BackInv
<1>3. IsFiniteSet(D) /\ IsFiniteSet(dropped)
  BY <1>1, <1>2, ScanAssumption, FS_Subset
<1>4. PICK perm \in SetToSeqs(D) : Redeclare(perm \o SetToSeq(dropped), decls)
  BY DEF SetFile
<1>5. files' = decls
  BY DEF SetFile
<1> HIDE DEF dropped
<1>6. decls \in [URIs -> Buckets] /\ \A u \in URIs \ (D \cup dropped) : decls[u] = files[u]
  <2>1. <<>> \in Buckets
    BY ScanAssumption DEF Buckets
  <2>2. files \in [URIs -> Buckets]
    BY DEF ByInv
  <2> QED BY <1>1, <2>1, <2>2 DEF Overlay
<1>7. Orders(perm \o SetToSeq(dropped), D \cup dropped)
  BY <1>2, <1>3, <1>4, PermutationsOrder, SetToSeqOrders, OrdersJoin
<1>8. D \cup dropped \in SUBSET URIs
  BY <1>1, <1>2
<1> HIDE DEF decls, D
<1>9. /\ DOMAIN byName' = Names
      /\ \A n \in Names : Lists(byName'[n], Declared(decls, n))
      /\ names' \subseteq {Keys(byName')}
  BY <1>4, <1>6, <1>7, <1>8, RedeclareKeeps
<1> QED BY <1>5, <1>6, <1>9 DEF ByInv, Declared, Lists, Keys

LEMMA ByNameRemoveFile ==
  ASSUME BackInv, ByInv, NEW o \in URIs, RemoveFile(o)
  PROVE  ByInv'
<1> DEFINE gone  == Dropped(o, {}) \cup {o}
           decls == Overlay(files, NoEntries, gone)
<1>1. gone \in SUBSET URIs
  BY DEF Dropped, BackInv
<1>2. IsFiniteSet(gone)
  BY <1>1, ScanAssumption, FS_Subset
<1>3. Redeclare(SetToSeq(gone), decls) /\ files' = decls
  BY DEF RemoveFile
<1> HIDE DEF gone
<1>4. decls \in [URIs -> Buckets] /\ \A u \in URIs \ gone : decls[u] = files[u]
  <2>1. <<>> \in Buckets
    BY ScanAssumption DEF Buckets
  <2>2. files \in [URIs -> Buckets] /\ DOMAIN NoEntries = {}
    BY DEF ByInv, NoEntries
  <2> QED BY <2>1, <2>2 DEF Overlay
<1>5. Orders(SetToSeq(gone), gone)
  BY <1>2, SetToSeqOrders
<1> HIDE DEF decls
<1>6. /\ DOMAIN byName' = Names
      /\ \A n \in Names : Lists(byName'[n], Declared(decls, n))
      /\ names' \subseteq {Keys(byName')}
  BY <1>1, <1>3, <1>4, <1>5, RedeclareKeeps
<1> QED BY <1>3, <1>4, <1>6 DEF ByInv, Declared, Lists, Keys

LEMMA ByNameStep == BackInv /\ ByInv /\ [Next]_vars => ByInv'
<1> SUFFICES ASSUME BackInv, ByInv, [Next]_vars PROVE ByInv'
  OBVIOUS
<1>1. CASE SortedNames
  BY <1>1 DEF SortedNames, ByInv, Keys, Declared, Lists
<1>2. CASE UNCHANGED vars
  BY <1>2 DEF vars, declVars, ByInv, Keys, Declared, Lists
<1> QED BY <1>1, <1>2, ByNameSetFile, ByNameRemoveFile DEF Next

LEMMA ByNameInit == Init => ByInv
<1> SUFFICES ASSUME Init PROVE ByInv
  OBVIOUS
<1>1. files \in [URIs -> Buckets]
  BY ScanAssumption DEF Init, Buckets
<1>2. ASSUME NEW n \in Names PROVE Lists(byName[n], Declared(files, n))
  <2>1. Declared(files, n) = {}
    BY DEF Init, Declared, DeclRef
  <2> QED BY <2>1 DEF Init, Lists
<1> QED BY <1>1, <1>2 DEF Init, ByInv, NoList, Keys

LEMMA ByInvExact == ByInv => ByNameExact /\ NameListExact
<1> SUFFICES ASSUME ByInv PROVE ByNameExact /\ NameListExact
  OBVIOUS
<1>1. NameListExact
  BY DEF ByInv, NameListExact, Keys
<1>2. ASSUME NEW n \in Names
      PROVE  ToSet(byName[n]) = Declared(files, n) /\ Len(byName[n]) = Cardinality(ToSet(byName[n]))
  <2> DEFINE s == byName[n]
             L == Len(s)
  <2>1. Lists(s, Declared(files, n))
    BY DEF ByInv
  <2> HIDE DEF s
  <2>2. L \in Nat /\ s \in [1 .. L -> DeclRef]
    BY <2>1 DEF Lists
  <2>3. ToSet(s) = Declared(files, n)
    BY <2>1, <2>2 DEF Lists, ToSet
  <2>4. s \in Bijection(1 .. L, ToSet(s))
    <3>1. s \in [1 .. L -> ToSet(s)]
      BY <2>2 DEF ToSet
    <3>2. IsInjective(s)
      BY <2>1, <2>2 DEF Lists, IsInjective
    <3>3. \A k \in ToSet(s) : \E i \in 1 .. L : s[i] = k
      BY <2>2 DEF ToSet
    <3> QED BY <3>1, <3>2, <3>3 DEF Bijection, Injection, Surjection
  <2>5. L = Cardinality(ToSet(s))
    <3>1. ExistsBijection(1 .. L, ToSet(s))
      BY <2>4 DEF ExistsBijection
    <3> QED BY <2>2, <3>1, FS_CountingElements
  <2> QED BY <2>3, <2>5 DEF s
<1> QED BY <1>1, <1>2 DEF ByNameExact, Declared

LEMMA ByNameInvariant == Spec => []ByInv
BY ByNameInit, ByNameStep, BackInvariant, PTL DEF Spec

(* byName lists each declaration of a name exactly once and nothing else,   *)
(* however the refs of several files interleave: popping a file's refs off  *)
(* the tail of a list, and filtering only when that did not find them all,  *)
(* leaves none behind and takes no other file's (removeDeclarationsLocked). *)
THEOREM ByNameInverse == Spec => []ByNameExact
<1>1. ByInv => ByNameExact
  BY ByInvExact
<1> QED BY <1>1, ByNameInvariant, PTL

(* The name list kept current by noted changes is byName's key set whenever *)
(* it exists, whatever order the files of one update are replaced in        *)
(* (noteNameLocked, syncNamesLocked).                                       *)
THEOREM NameListInverse == Spec => []NameListExact
<1>1. ByInv => NameListExact
  BY ByInvExact
<1> QED BY <1>1, ByNameInvariant, PTL

-----------------------------------------------------------------------------
(* SetFile and RemoveFile report each file whose diagnostics they change,   *)
(* the ones cleared along the way included.                                 *)
THEOREM ChangesReturned == Spec => ChangesReported
<1>1. ASSUME [Next]_vars, NEW u \in URIs, errByURI'[u] # errByURI[u]
      PROVE  u \in touched'
  <2>1. ASSUME NEW o \in URIs, NEW r \in ScanResults[o], SetFile(o, r) PROVE u \in touched'
    <3>1. errByURI' = Overlay(errByURI, r.diags, Dropped(o, Touches(r)))
      BY <2>1 DEF SetFile
    <3>2. u \in DOMAIN r.diags \cup Dropped(o, Touches(r))
      BY <1>1, <3>1 DEF Overlay
    <3> QED BY <2>1, <3>2 DEF SetFile, Returned, Touches
  <2>2. ASSUME NEW o \in URIs, RemoveFile(o) PROVE u \in touched'
    <3>1. u \in Dropped(o, {}) \cup {o}
      BY <1>1, <2>2 DEF RemoveFile, Overlay, NoEntries
    <3> QED BY <2>2, <3>1 DEF RemoveFile
  <2>3. CASE SortedNames \/ UNCHANGED vars
    BY <1>1, <2>3 DEF SortedNames, vars
  <2> QED BY <1>1, <2>1, <2>2, <2>3 DEF Next
<1>2. [Next]_vars => [\A u \in URIs : errByURI'[u] # errByURI[u] => u \in touched']_vars
  BY <1>1
<1> QED BY <1>2, PTL DEF Spec, ChangesReported

-----------------------------------------------------------------------------
(* Symbols, the order they are shown in, and the front of a set of them.     *)

Sym == [name : Names, ref : DeclRef]

LEMMA PlaceIs ==
  /\ Len(NameOrder) \in Nat /\ DOMAIN NameOrder = 1 .. Len(NameOrder)
  /\ \A n \in Names : Place(n, NameOrder) \in 1 .. Len(NameOrder) /\ NameOrder[Place(n, NameOrder)] = n
  /\ \A i \in 1 .. Len(NameOrder) : NameOrder[i] \in Names /\ Place(NameOrder[i], NameOrder) = i
  /\ \A u \in URIs : Place(u, URIOrder) \in Nat /\ URIOrder[Place(u, URIOrder)] = u
<1>1. /\ Len(NameOrder) \in Nat /\ DOMAIN NameOrder = 1 .. Len(NameOrder)
      /\ Len(URIOrder) \in Nat /\ DOMAIN URIOrder = 1 .. Len(URIOrder)
  BY SymbolAssumption
<1>2. /\ \A n \in Names : \E i \in DOMAIN NameOrder : NameOrder[i] = n
      /\ \A u \in URIs : \E i \in DOMAIN URIOrder : URIOrder[i] = u
  BY SymbolAssumption DEF ToSet
<1>3. \A i \in 1 .. Len(NameOrder) : NameOrder[i] \in Names
  BY <1>1, SymbolAssumption
<1>4. \A n \in Names : Place(n, NameOrder) \in 1 .. Len(NameOrder) /\ NameOrder[Place(n, NameOrder)] = n
  BY <1>1, <1>2 DEF Place
<1>5. \A u \in URIs : Place(u, URIOrder) \in 1 .. Len(URIOrder) /\ URIOrder[Place(u, URIOrder)] = u
  BY <1>1, <1>2 DEF Place
<1>6. ASSUME NEW i \in 1 .. Len(NameOrder) PROVE Place(NameOrder[i], NameOrder) = i
  BY <1>1, <1>3, <1>4, SymbolAssumption DEF IsInjective
<1> QED BY <1>1, <1>3, <1>4, <1>5, <1>6

\* Symbols are strictly and totally ordered.
LEMMA BeforeOrders ==
  /\ \A a \in Sym : ~Before(a, a)
  /\ \A a, b, c \in Sym : Before(a, b) /\ Before(b, c) => Before(a, c)
  /\ \A a, b \in Sym : a = b \/ Before(a, b) \/ Before(b, a)
<1>1. /\ \A a \in Sym : a.name \in Names /\ a.ref.uri \in URIs /\ a.ref.idx \in Nat
      /\ \A a, b \in Sym : a = b <=> a.name = b.name /\ a.ref.uri = b.ref.uri /\ a.ref.idx = b.ref.idx
  BY ScanAssumption DEF Sym, DeclRef
<1>2. \A a \in Sym : Place(a.name, NameOrder) \in Nat /\ Place(a.ref.uri, URIOrder) \in Nat
  BY <1>1, PlaceIs
<1>3. \A a, b \in Sym : /\ Place(a.name, NameOrder) = Place(b.name, NameOrder) => a.name = b.name
                        /\ Place(a.ref.uri, URIOrder) = Place(b.ref.uri, URIOrder) => a.ref.uri = b.ref.uri
  BY <1>1, PlaceIs
<1> DEFINE N(a) == Place(a.name, NameOrder)
           U(a) == Place(a.ref.uri, URIOrder)
<1>4. \A a, b \in Sym : Before(a, b) <=> \/ N(a) < N(b)
                                         \/ N(a) = N(b) /\ U(a) < U(b)
                                         \/ N(a) = N(b) /\ U(a) = U(b) /\ a.ref.idx < b.ref.idx
  BY <1>2, <1>3 DEF Before, RefBefore
<1>5. \A a, b \in Sym : a = b <=> N(a) = N(b) /\ U(a) = U(b) /\ a.ref.idx = b.ref.idx
  BY <1>1, <1>3
<1>6. \A a \in Sym : N(a) \in Nat /\ U(a) \in Nat /\ a.ref.idx \in Nat
  BY <1>1, <1>2
<1> HIDE DEF N, U
<1> QED BY <1>4, <1>5, <1>6

Under(S, a) == {b \in S : Before(b, a)}
Rank(S, a)  == Cardinality(Under(S, a))

\* How many come before it tells the members of a finite set apart, in order.
LEMMA Ranks ==
  ASSUME NEW S \in SUBSET Sym, IsFiniteSet(S)
  PROVE  /\ Cardinality(S) \in Nat
         /\ \A a \in S : Rank(S, a) \in 0 .. Cardinality(S) - 1
         /\ \A a, b \in S : Before(a, b) <=> Rank(S, a) < Rank(S, b)
         /\ \A a, b \in S : Rank(S, a) = Rank(S, b) => a = b
         /\ \A i \in 1 .. Cardinality(S) : \E a \in S : Rank(S, a) = i - 1
<1> DEFINE n    == Cardinality(S)
           rank == [a \in S |-> Rank(S, a) + 1]
<1>1. n \in Nat
  BY FS_CardinalityType
<1>2. ASSUME NEW a \in S PROVE IsFiniteSet(Under(S, a)) /\ Rank(S, a) \in 0 .. n - 1
  <2>1. Under(S, a) \in SUBSET S /\ a \notin Under(S, a)
    BY BeforeOrders DEF Under
  <2>2. IsFiniteSet(Under(S, a)) /\ Rank(S, a) <= n /\ (Rank(S, a) = n => Under(S, a) = S)
    BY <2>1, FS_Subset DEF Rank
  <2>3. Rank(S, a) \in Nat
    BY <2>2, FS_CardinalityType DEF Rank
  <2> QED BY <1>1, <2>1, <2>2, <2>3
<1>3. ASSUME NEW a \in S, NEW b \in S, Before(a, b) PROVE Rank(S, a) < Rank(S, b)
  <2>1. Under(S, a) \in SUBSET Under(S, b) /\ a \in Under(S, b) /\ a \notin Under(S, a)
    BY <1>3, BeforeOrders DEF Under
  <2>2. /\ Cardinality(Under(S, a)) <= Cardinality(Under(S, b))
        /\ Cardinality(Under(S, a)) # Cardinality(Under(S, b))
    BY <1>2, <2>1, FS_Subset
  <2> QED BY <1>2, <2>2 DEF Rank
<1>4. \A a, b \in S : /\ Before(a, b) <=> Rank(S, a) < Rank(S, b)
                      /\ Rank(S, a) = Rank(S, b) => a = b
  BY <1>2, <1>3, BeforeOrders
<1>5. rank \in Injection(S, 1 .. n)
  BY <1>1, <1>2, <1>4 DEF Injection, IsInjective
<1>6. IsFiniteSet(1 .. n) /\ Cardinality(1 .. n) = n
  BY <1>1, FS_Interval
<1>7. rank \in Surjection(S, 1 .. n)
  BY <1>5, <1>6, FS_Injection
<1>8. ASSUME NEW i \in 1 .. n PROVE \E a \in S : Rank(S, a) = i - 1
  <2>1. PICK a \in S : rank[a] = i
    BY <1>7 DEF Surjection
  <2> QED BY <1>1, <1>2, <2>1
<1> QED BY <1>1, <1>2, <1>4, <1>8

\* f runs through members of S in order, and leaves out only later ones.
FrontOf(f, n, S) ==
  /\ f \in [1 .. n -> S]
  /\ \A i, j \in 1 .. n : i < j => Before(f[i], f[j])
  /\ \A b \in S : (\E i \in 1 .. n : f[i] = b) \/ (\A i \in 1 .. n : Before(f[i], b))

LEMMA FirstIs ==
  ASSUME NEW S \in SUBSET Sym, IsFiniteSet(S), NEW limit \in Nat, NEW n \in Nat, NEW f,
         n = IF limit = 0 \/ Cardinality(S) < limit THEN Cardinality(S) ELSE limit,
         FrontOf(f, n, S)
  PROVE  FirstOf(S, limit) = [syms |-> f, truncated |-> n < Cardinality(S)]
<1> DEFINE sorted == [i \in 1 .. Cardinality(S) |->
                        CHOOSE a \in S : Cardinality({b \in S : Before(b, a)}) = i - 1]
<1>1. Cardinality(S) \in Nat /\ n <= Cardinality(S)
  BY Ranks
<1>2. ASSUME NEW i \in 1 .. n PROVE Rank(S, f[i]) = i - 1
  <2> DEFINE g == [j \in 1 .. i - 1 |-> f[j]]
  <2>1. \A j \in 1 .. n : f[j] \in S /\ f[j] \in Sym
    BY DEF FrontOf
  <2>2. ASSUME NEW b \in Under(S, f[i]) PROVE \E j \in 1 .. i - 1 : f[j] = b
    <3>1. b \in S /\ b \in Sym /\ Before(b, f[i]) /\ f[i] \in Sym
      BY <2>1 DEF Under
    <3>2. ~Before(f[i], b) /\ b # f[i]
      BY <3>1, BeforeOrders
    <3>3. PICK j \in 1 .. n : f[j] = b
      BY <3>1, <3>2 DEF FrontOf
    <3>4. ~ (i < j) /\ i # j
      BY <3>2, <3>3 DEF FrontOf
    <3> QED BY <3>3, <3>4
  <2>3. \A j \in 1 .. i - 1 : f[j] \in Under(S, f[i])
    BY <2>1 DEF Under, FrontOf
  <2>4. ASSUME NEW j \in 1 .. i - 1, NEW k \in 1 .. i - 1, f[j] = f[k] PROVE j = k
    <3>1. j < k => Before(f[j], f[k])
      BY DEF FrontOf
    <3>2. k < j => Before(f[k], f[j])
      BY DEF FrontOf
    <3> QED BY <2>1, <2>4, <3>1, <3>2, BeforeOrders
  <2>5. g \in Bijection(1 .. i - 1, Under(S, f[i]))
    <3>1. g \in [1 .. i - 1 -> Under(S, f[i])]
      BY <2>3
    <3>2. \A j, k \in 1 .. i - 1 : g[j] = g[k] => j = k
      BY <2>4
    <3>3. \A b \in Under(S, f[i]) : \E j \in 1 .. i - 1 : g[j] = b
      BY <2>2
    <3> HIDE DEF g
    <3> QED BY <3>1, <3>2, <3>3 DEF Bijection, Injection, Surjection, IsInjective
  <2>6. ExistsBijection(1 .. i - 1, Under(S, f[i]))
    BY <2>5 DEF ExistsBijection
  <2> QED BY <2>6, FS_CountingElements DEF Rank
<1>3. ASSUME NEW i \in 1 .. n PROVE sorted[i] = f[i]
  <2>1. i \in 1 .. Cardinality(S) /\ f[i] \in S
    BY <1>1 DEF FrontOf
  <2>2. sorted[i] = CHOOSE a \in S : Rank(S, a) = i - 1
    BY <2>1 DEF Rank, Under
  <2>3. \A a \in S : Rank(S, a) = i - 1 => a = f[i]
    BY <1>2, <2>1, Ranks
  <2> QED BY <1>2, <2>1, <2>2, <2>3
<1>4. f = [i \in 1 .. n |-> f[i]]
  BY DEF FrontOf
<1>5. Len(sorted) = Cardinality(S)
  BY <1>1
<1>6. FirstOf(S, limit) = [syms |-> [i \in 1 .. n |-> sorted[i]], truncated |-> n < Cardinality(S)]
  <2> HIDE DEF sorted
  <2> QED BY <1>5 DEF FirstOf, sorted
<1> HIDE DEF sorted
<1>7. [i \in 1 .. n |-> sorted[i]] = [i \in 1 .. n |-> f[i]]
  BY <1>3
<1> QED BY <1>4, <1>6, <1>7

-----------------------------------------------------------------------------
(* Lists of symbols, and sorting them.                                       *)

\* s lists the members of K, each once.
Spans(s, K) == /\ s \in Seq(Sym)
               /\ \A i, j \in 1 .. Len(s) : s[i] = s[j] => i = j
               /\ \A i \in 1 .. Len(s) : s[i] \in K
               /\ \A k \in K : \E i \in 1 .. Len(s) : s[i] = k

LEMMA SpansFinite ==
  ASSUME NEW s, NEW K, Spans(s, K)
  PROVE  /\ Len(s) \in Nat /\ s \in [1 .. Len(s) -> Sym] /\ DOMAIN s = 1 .. Len(s)
         /\ K \in SUBSET Sym /\ IsFiniteSet(K) /\ Cardinality(K) = Len(s)
         /\ s \in Bijection(1 .. Len(s), K)
<1>1. Len(s) \in Nat /\ s \in [1 .. Len(s) -> Sym] /\ DOMAIN s = 1 .. Len(s)
  BY DEF Spans
<1>2. K \in SUBSET Sym
  BY <1>1 DEF Spans
<1>3. s \in [1 .. Len(s) -> K]
  BY <1>1 DEF Spans
<1>4. s \in Bijection(1 .. Len(s), K)
  BY <1>3 DEF Spans, Bijection, Injection, Surjection, IsInjective
<1>5. ExistsBijection(1 .. Len(s), K)
  BY <1>4 DEF ExistsBijection
<1>6. IsFiniteSet(1 .. Len(s))
  BY <1>1, FS_Interval
<1>7. IsFiniteSet(K)
  BY <1>5, <1>6, FS_Bijection
<1>8. Cardinality(K) = Len(s)
  BY <1>1, <1>5, FS_CountingElements
<1> QED BY <1>1, <1>2, <1>4, <1>7, <1>8

\* A sorted list of K is a front of any set in which the rest comes later.
LEMMA SortIs ==
  ASSUME NEW h, NEW K, Spans(h, K), NEW M \in SUBSET Sym, K \subseteq M,
         \A a \in K, b \in M \ K : Before(a, b)
  PROVE  FrontOf(SortFunc(h), Len(h), M)
<1> DEFINE n == Len(h)
           At(k) == {j \in 1 .. n : Before(h[j], h[k]) \/ (h[j] = h[k] /\ j <= k)}
           place == [k \in DOMAIN h |->
                       Cardinality({j \in DOMAIN h : Before(h[j], h[k]) \/ (h[j] = h[k] /\ j <= k)})]
           f == SortFunc(h)
<1>1. /\ n \in Nat /\ DOMAIN h = 1 .. n /\ K \in SUBSET Sym /\ IsFiniteSet(K) /\ Cardinality(K) = n
      /\ \A i \in 1 .. n : h[i] \in K
  BY SpansFinite DEF Spans
<1>2. ASSUME NEW k \in 1 .. n PROVE place[k] = Rank(K, h[k]) + 1
  <2> DEFINE V == Under(K, h[k]) \cup {h[k]}
             g == [j \in At(k) |-> h[j]]
  <2>1. At(k) = {j \in 1 .. n : h[j] \in V}
    <3>1. ASSUME NEW j \in 1 .. n, h[j] = h[k] PROVE j = k
      BY <3>1 DEF Spans
    <3> QED BY <1>1, <3>1 DEF Under
  <2>2. g \in Bijection(At(k), V)
    <3>1. g \in [At(k) -> V]
      BY <2>1
    <3>2. \A i, j \in At(k) : g[i] = g[j] => i = j
      BY DEF Spans
    <3>3. \A b \in V : b \in K
      BY <1>1 DEF Under
    <3>4. \A b \in V : \E j \in At(k) : g[j] = b
      BY <2>1, <3>3 DEF Spans
    <3> HIDE DEF g, V, At
    <3> QED BY <3>1, <3>2, <3>4 DEF Bijection, Injection, Surjection, IsInjective
  <2>3. IsFiniteSet(At(k))
    <3>1. At(k) \in SUBSET (1 .. n)
      OBVIOUS
    <3>2. IsFiniteSet(1 .. n)
      BY <1>1, FS_Interval
    <3> HIDE DEF At
    <3> QED BY <3>1, <3>2, FS_Subset
  <2>4. Cardinality(At(k)) = Cardinality(V)
    <3>1. ExistsBijection(At(k), V)
      BY <2>2 DEF ExistsBijection
    <3> HIDE DEF V, At
    <3> QED BY <2>3, <3>1, FS_Bijection
  <2>5. IsFiniteSet(Under(K, h[k])) /\ h[k] \notin Under(K, h[k])
    <3>1. Under(K, h[k]) \in SUBSET K
      BY DEF Under
    <3> QED BY <1>1, <3>1, FS_Subset, BeforeOrders DEF Under
  <2>6. Cardinality(V) = Rank(K, h[k]) + 1
    BY <2>5, FS_AddElement DEF Rank
  <2>7. place[k] = Cardinality(At(k))
    BY <1>1
  <2> QED BY <2>4, <2>6, <2>7
<1> HIDE DEF place
<1>3. ASSUME NEW i \in 1 .. n PROVE f[i] \in K /\ Rank(K, f[i]) = i - 1
  <2>1. PICK a \in K : Rank(K, a) = i - 1
    BY <1>1, Ranks
  <2>2. PICK k \in 1 .. n : h[k] = a
    BY DEF Spans
  <2>3. place[k] = i
    BY <1>2, <2>1, <2>2
  <2> DEFINE m == CHOOSE j \in DOMAIN h : place[j] = i
  <2>4. m \in 1 .. n /\ place[m] = i
    BY <1>1, <2>3
  <2>5. f[i] = h[m]
    BY <1>1 DEF SortFunc, place
  <2> HIDE DEF m, f
  <2>6. h[m] \in K /\ Rank(K, h[m]) + 1 = i
    BY <1>1, <1>2, <2>4
  <2>7. Rank(K, h[m]) \in 0 .. n - 1
    BY <1>1, <2>6, Ranks
  <2> QED BY <2>5, <2>6, <2>7
<1>4. f \in [1 .. n -> M]
  <2>1. f = [i \in 1 .. n |-> f[i]]
    BY <1>1 DEF SortFunc
  <2> HIDE DEF f
  <2> QED BY <1>3, <2>1
<1> HIDE DEF f
<1>5. \A i, j \in 1 .. n : i < j => Before(f[i], f[j])
  BY <1>1, <1>3, Ranks
<1>6. ASSUME NEW b \in K PROVE \E i \in 1 .. n : f[i] = b
  <2>1. Rank(K, b) \in 0 .. n - 1
    BY <1>1, Ranks
  <2>2. f[Rank(K, b) + 1] = b
    BY <1>1, <1>3, <2>1, Ranks
  <2> QED BY <2>1, <2>2
<1>7. \A b \in M \ K : \A i \in 1 .. n : Before(f[i], b)
  BY <1>3
<1> QED BY <1>4, <1>5, <1>6, <1>7 DEF FrontOf, f

-----------------------------------------------------------------------------
(* The loops and recursions: what a function's definition asks of it, it     *)
(* does, for no least number of turns lacks a function that does.            *)

LEMMA RisingIs ==
  ASSUME NEW h, Len(h) \in Nat, NEW i
  PROVE  Rising(h, i) = [k \in 0 .. Len(h) |-> IF k = 0 THEN [heap |-> h, at |-> i]
                                               ELSE Rise(Rising(h, i)[k - 1])]
<1> DEFINE a(g, k) == IF k = 0 THEN [heap |-> h, at |-> i] ELSE Rise(g[k - 1])
           Lacks   == {n \in Nat : ~ \E g : g = [k \in 0 .. n |-> a(g, k)]}
<1>1. Lacks \subseteq Nat
  OBVIOUS
<1>2. Lacks = {}
  <2> SUFFICES ASSUME Lacks # {} PROVE FALSE
    OBVIOUS
  <2>1. PICK n \in Lacks : \A k \in Lacks : n <= k
    BY <1>1, Least
  <2>2. PICK g : n # 0 => g = [k \in 0 .. n - 1 |-> a(g, k)]
    <3>1. n # 0 => n - 1 \in Nat /\ n - 1 \notin Lacks
      <4> HIDE DEF Lacks
      <4> QED BY <1>1, <2>1
    <3> QED BY <3>1, Zenon
  <2> DEFINE f == [k \in 0 .. n |-> a(g, k)]
  <2>3. ASSUME NEW k \in 0 .. n PROVE a(f, k) = a(g, k)
    <3>1. k # 0 => f[k - 1] = g[k - 1]
      <4> HIDE DEF a
      <4> QED BY <2>2
    <3> HIDE DEF f
    <3> QED BY <3>1
  <2>4. f = [k \in 0 .. n |-> a(f, k)]
    <3> HIDE DEF a
    <3> QED BY <2>3
  <2> QED BY <2>1, <2>4
<1>3. \E g : g = [k \in 0 .. Len(h) |-> a(g, k)]
  BY <1>2
<1> QED BY <1>3 DEF Rising

LEMMA SinkingIs ==
  ASSUME NEW h, Len(h) \in Nat, NEW i
  PROVE  Sinking(h, i) = [k \in 0 .. Len(h) |-> IF k = 0 THEN [heap |-> h, at |-> i]
                                               ELSE Sink(Sinking(h, i)[k - 1])]
<1> DEFINE a(g, k) == IF k = 0 THEN [heap |-> h, at |-> i] ELSE Sink(g[k - 1])
           Lacks   == {n \in Nat : ~ \E g : g = [k \in 0 .. n |-> a(g, k)]}
<1>1. Lacks \subseteq Nat
  OBVIOUS
<1>2. Lacks = {}
  <2> SUFFICES ASSUME Lacks # {} PROVE FALSE
    OBVIOUS
  <2>1. PICK n \in Lacks : \A k \in Lacks : n <= k
    BY <1>1, Least
  <2>2. PICK g : n # 0 => g = [k \in 0 .. n - 1 |-> a(g, k)]
    <3>1. n # 0 => n - 1 \in Nat /\ n - 1 \notin Lacks
      <4> HIDE DEF Lacks
      <4> QED BY <1>1, <2>1
    <3> QED BY <3>1, Zenon
  <2> DEFINE f == [k \in 0 .. n |-> a(g, k)]
  <2>3. ASSUME NEW k \in 0 .. n PROVE a(f, k) = a(g, k)
    <3>1. k # 0 => f[k - 1] = g[k - 1]
      <4> HIDE DEF a
      <4> QED BY <2>2
    <3> HIDE DEF f
    <3> QED BY <3>1
  <2>4. f = [k \in 0 .. n |-> a(f, k)]
    <3> HIDE DEF a
    <3> QED BY <2>3
  <2> QED BY <2>1, <2>4
<1>3. \E g : g = [k \in 0 .. Len(h) |-> a(g, k)]
  BY <1>2
<1> QED BY <1>3 DEF Sinking

LEMMA PushedIs ==
  ASSUME NEW all, Len(all) \in Nat, NEW limit
  PROVE  Pushed(all, limit) =
           [k \in 0 .. Len(all) |-> IF k = 0 THEN [heap |-> <<>>, dropped |-> FALSE]
                                    ELSE Push(Pushed(all, limit)[k - 1], limit, all[k])]
<1> DEFINE a(g, k) == IF k = 0 THEN [heap |-> <<>>, dropped |-> FALSE]
                      ELSE Push(g[k - 1], limit, all[k])
           Lacks   == {n \in Nat : ~ \E g : g = [k \in 0 .. n |-> a(g, k)]}
<1>1. Lacks \subseteq Nat
  OBVIOUS
<1>2. Lacks = {}
  <2> SUFFICES ASSUME Lacks # {} PROVE FALSE
    OBVIOUS
  <2>1. PICK n \in Lacks : \A k \in Lacks : n <= k
    BY <1>1, Least
  <2>2. PICK g : n # 0 => g = [k \in 0 .. n - 1 |-> a(g, k)]
    <3>1. n # 0 => n - 1 \in Nat /\ n - 1 \notin Lacks
      <4> HIDE DEF Lacks
      <4> QED BY <1>1, <2>1
    <3> QED BY <3>1, Zenon
  <2> DEFINE f == [k \in 0 .. n |-> a(g, k)]
  <2>3. ASSUME NEW k \in 0 .. n PROVE a(f, k) = a(g, k)
    <3>1. k # 0 => f[k - 1] = g[k - 1]
      <4> HIDE DEF a
      <4> QED BY <2>2
    <3> HIDE DEF f
    <3> QED BY <3>1
  <2>4. f = [k \in 0 .. n |-> a(f, k)]
    <3> HIDE DEF a
    <3> QED BY <2>3
  <2> QED BY <2>1, <2>4
<1>3. \E g : g = [k \in 0 .. Len(all) |-> a(g, k)]
  BY <1>2
<1> QED BY <1>3 DEF Pushed

LEMMA MatchesIs ==
  ASSUME NEW order, Len(order) \in Nat
  PROVE  Matches(order) = [k \in 0 .. Len(order) |->
                             IF k = 0 THEN <<>> ELSE Matches(order)[k - 1] \o SymbolsOf(order[k])]
<1> DEFINE a(g, k) == IF k = 0 THEN <<>> ELSE g[k - 1] \o SymbolsOf(order[k])
           Lacks   == {n \in Nat : ~ \E g : g = [k \in 0 .. n |-> a(g, k)]}
<1>1. Lacks \subseteq Nat
  OBVIOUS
<1>2. Lacks = {}
  <2> SUFFICES ASSUME Lacks # {} PROVE FALSE
    OBVIOUS
  <2>1. PICK n \in Lacks : \A k \in Lacks : n <= k
    BY <1>1, Least
  <2>2. PICK g : n # 0 => g = [k \in 0 .. n - 1 |-> a(g, k)]
    <3>1. n # 0 => n - 1 \in Nat /\ n - 1 \notin Lacks
      <4> HIDE DEF Lacks
      <4> QED BY <1>1, <2>1
    <3> QED BY <3>1, Zenon
  <2> DEFINE f == [k \in 0 .. n |-> a(g, k)]
  <2>3. ASSUME NEW k \in 0 .. n PROVE a(f, k) = a(g, k)
    <3>1. k # 0 => f[k - 1] = g[k - 1]
      <4> HIDE DEF a
      <4> QED BY <2>2
    <3> HIDE DEF f
    <3> QED BY <3>1
  <2>4. f = [k \in 0 .. n |-> a(f, k)]
    <3> HIDE DEF a
    <3> QED BY <2>3
  <2> QED BY <2>1, <2>4
<1>3. \E g : g = [k \in 0 .. Len(order) |-> a(g, k)]
  BY <1>2
<1> QED BY <1>3 DEF Matches

-----------------------------------------------------------------------------
(* The heap: no symbol comes after the one above it.                         *)

LEMMA Halves ==
  /\ \A j \in Nat : j >= 2 => j \div 2 \in Nat /\ 1 <= j \div 2 /\ j \div 2 < j
  /\ \A i, j \in Nat : j \div 2 = i <=> j = 2 * i \/ j = 2 * i + 1
OBVIOUS

Above(h, j) == h[j \div 2]

IsHeap(h) == \A j \in 2 .. Len(h) : ~Before(Above(h, j), h[j])

LEMMA SwapSpans ==
  ASSUME NEW h, NEW K, Spans(h, K), NEW i \in 1 .. Len(h), NEW j \in 1 .. Len(h),
         NEW s, s = Swapped(h, i, j)
  PROVE  /\ Spans(s, K) /\ Len(s) = Len(h)
         /\ s[j] = h[i] /\ s[i] = h[j]
         /\ \A k \in 1 .. Len(h) \ {i, j} : s[k] = h[k]
<1> DEFINE n == Len(h)
<1>1. n \in Nat /\ h \in [1 .. n -> Sym] /\ K \in SUBSET Sym
  BY SpansFinite
<1>2. /\ s \in [1 .. n -> Sym] /\ s[j] = h[i] /\ s[i] = h[j]
      /\ \A k \in 1 .. n \ {i, j} : s[k] = h[k]
  BY <1>1 DEF Swapped
<1>3. s \in Seq(Sym) /\ Len(s) = n
  BY <1>1, <1>2
<1>4. \A k, m \in 1 .. n : s[k] = s[m] => k = m
  BY <1>2 DEF Spans
<1>5. \A k \in 1 .. n : s[k] \in K
  BY <1>2 DEF Spans
<1>6. ASSUME NEW x \in K PROVE \E k \in 1 .. n : s[k] = x
  <2>1. PICK k \in 1 .. n : h[k] = x
    BY DEF Spans
  <2> QED BY <1>2, <2>1
<1>7. Spans(s, K)
  BY <1>3, <1>4, <1>5, <1>6 DEF Spans
<1> QED BY <1>2, <1>3, <1>7

\* A turn: a place in a list of the n symbols of K.
Turn(t, K, n) == /\ t = [heap |-> t.heap, at |-> t.at]
                 /\ Spans(t.heap, K) /\ Len(t.heap) = n
                 /\ t.at \in 1 .. n

\* In siftUp a heap but for what is at the place; what is below it may do for what
\* is above.
Risen(t, K, n) ==
  /\ Turn(t, K, n)
  /\ \A j \in 2 .. n : j # t.at => ~Before(Above(t.heap, j), t.heap[j])
  /\ t.at > 1 => \A j \in 2 .. n : j \div 2 = t.at => ~Before(Above(t.heap, t.at), t.heap[j])

Up(t) == t.at > 1 /\ Before(Above(t.heap, t.at), t.heap[t.at])

LEMMA RiseKeeps ==
  ASSUME NEW K, NEW n \in Nat, NEW t, Risen(t, K, n)
  PROVE  /\ Risen(Rise(t), K, n)
         /\ ~Up(t) => Rise(t) = t
         /\ Up(t) => Rise(t).at < t.at
<1>1. CASE ~Up(t)
  BY <1>1 DEF Rise, Up, Above
<1>2. CASE Up(t)
  <2> DEFINE h == t.heap
             i == t.at
             p == i \div 2
             s == Swapped(h, i, p)
  <2>1. i \in 2 .. n /\ Spans(h, K) /\ Len(h) = n /\ p \in 1 .. n /\ p < i
    BY <1>2, Halves DEF Up, Risen, Turn
  <2>2. Rise(t) = [heap |-> s, at |-> p]
    BY <1>2 DEF Rise, Up, Above
  <2>3. /\ Spans(s, K) /\ Len(s) = n
        /\ s[p] = h[i] /\ s[i] = h[p]
        /\ \A k \in 1 .. n \ {i, p} : s[k] = h[k]
    <3>1. i \in 1 .. Len(h) /\ p \in 1 .. Len(h)
      BY <2>1
    <3>2. s = Swapped(h, i, p)
      OBVIOUS
    <3> HIDE DEF h, i, p, s
    <3>3. Spans(s, K) /\ Len(s) = Len(h)
      BY <2>1, <3>1, <3>2, SwapSpans
    <3>4. s[p] = h[i] /\ s[i] = h[p]
      BY <2>1, <3>1, <3>2, SwapSpans
    <3>5. \A k \in 1 .. Len(h) \ {i, p} : s[k] = h[k]
      BY <2>1, <3>1, <3>2, SwapSpans
    <3> QED BY <2>1, <3>3, <3>4, <3>5
  <2>4. \A k \in 1 .. n : h[k] \in Sym
    BY <2>1, SpansFinite
  <2>5. Before(h[p], h[i])
    BY <1>2 DEF Up, Above
  <2>6. /\ \A j \in 2 .. n : j # i => ~Before(h[j \div 2], h[j])
        /\ \A j \in 2 .. n : j \div 2 = i => ~Before(h[p], h[j])
    BY <2>1 DEF Risen, Above
  <2> HIDE DEF h, i, p, s
  <2>7. ASSUME NEW j \in 2 .. n, j # p PROVE ~Before(s[j \div 2], s[j])
    <3>1. j \div 2 \in 1 .. n /\ j \div 2 < j
      BY Halves
    <3>2. CASE j = i
      BY <2>1, <2>3, <2>4, <2>5, <3>2, BeforeOrders DEF p
    <3>3. CASE j # i /\ j \div 2 = i
      BY <2>1, <2>3, <2>6, <2>7, <3>3
    <3>4. CASE j # i /\ j \div 2 = p
      BY <2>1, <2>3, <2>4, <2>5, <2>6, <2>7, <3>4, BeforeOrders
    <3>5. CASE j # i /\ j \div 2 # i /\ j \div 2 # p
      BY <2>3, <2>6, <2>7, <3>1, <3>5
    <3> QED BY <3>2, <3>3, <3>4, <3>5
  <2>8. ASSUME p > 1, NEW j \in 2 .. n, j \div 2 = p PROVE ~Before(s[p \div 2], s[j])
    <3>1. p \div 2 \in 1 .. n /\ p \div 2 < p /\ p < j
      BY <2>1, <2>8, Halves
    <3>2. s[p \div 2] = h[p \div 2] /\ ~Before(h[p \div 2], h[p])
      BY <2>1, <2>3, <2>6, <2>8, <3>1
    <3>3. CASE j = i
      BY <2>3, <3>2, <3>3
    <3>4. CASE j # i
      <4>1. s[j] = h[j] /\ ~Before(h[p], h[j])
        BY <2>3, <2>6, <2>8, <3>1, <3>4
      <4> QED BY <2>1, <2>4, <3>1, <3>2, <4>1, BeforeOrders
    <3> QED BY <3>3, <3>4
  <2>9. Risen([heap |-> s, at |-> p], K, n)
    BY <2>1, <2>3, <2>7, <2>8 DEF Risen, Turn, Above
  <2> QED BY <1>2, <2>1, <2>2, <2>9 DEF i
<1> QED BY <1>1, <1>2

LEMMA SiftUpIs ==
  ASSUME NEW K, NEW n \in Nat, NEW h, NEW i, Risen([heap |-> h, at |-> i], K, n)
  PROVE  Spans(SiftUp(h, i), K) /\ Len(SiftUp(h, i)) = n /\ IsHeap(SiftUp(h, i))
<1> DEFINE turn    == Rising(h, i)
           Good(k) == Risen(turn[k], K, n) /\ (Up(turn[k]) => turn[k].at + k <= i)
           Bad     == {k \in 0 .. n : ~Good(k)}
<1>1. Len(h) = n /\ i \in 1 .. n
  BY DEF Risen, Turn
<1>2. \A k \in 0 .. n : turn[k] = IF k = 0 THEN [heap |-> h, at |-> i] ELSE Rise(turn[k - 1])
  BY <1>1, RisingIs
<1> HIDE DEF turn
<1>3. Good(0)
  BY <1>1, <1>2
<1>4. ASSUME NEW k \in 1 .. n, Good(k - 1) PROVE Good(k)
  <2>1. turn[k] = Rise(turn[k - 1]) /\ Risen(turn[k - 1], K, n)
    BY <1>2, <1>4
  <2>2. Risen(turn[k], K, n) /\ turn[k].at \in 1 .. n /\ turn[k - 1].at \in 1 .. n
    <3>1. Risen(turn[k], K, n)
      BY <2>1, RiseKeeps
    <3> QED BY <2>1, <3>1 DEF Risen, Turn
  <2>3. CASE Up(turn[k - 1])
    BY <1>1, <1>4, <2>1, <2>2, <2>3, RiseKeeps
  <2>4. CASE ~Up(turn[k - 1])
    BY <2>1, <2>2, <2>4, RiseKeeps
  <2> QED BY <2>3, <2>4
<1>5. Bad = {}
  <2> SUFFICES ASSUME Bad # {} PROVE FALSE
    OBVIOUS
  <2> HIDE DEF Good
  <2>0. Bad \subseteq Nat
    OBVIOUS
  <2>1. PICK k \in Bad : \A m \in Bad : k <= m
    <3> HIDE DEF Bad
    <3> QED BY <2>0, Least
  <2>2. k # 0 /\ k \in 0 .. n /\ ~Good(k)
    BY <1>3, <2>1
  <2>3. k - 1 \in 0 .. n /\ Good(k - 1)
    BY <2>1, <2>2
  <2> QED BY <1>4, <2>2, <2>3
<1>6. Good(n)
  <2> HIDE DEF Good
  <2> QED BY <1>5
<1>7. ~Up(turn[n]) /\ Risen(turn[n], K, n)
  BY <1>1, <1>6 DEF Risen, Turn
<1>8. SiftUp(h, i) = turn[n].heap
  BY <1>1 DEF SiftUp, turn
<1> QED BY <1>7, <1>8 DEF Risen, Turn, Up, IsHeap

\* In siftDown a heap but for what is below the place, which may do for what is
\* above.
Sunk(t, K, n) ==
  /\ Turn(t, K, n)
  /\ \A j \in 2 .. n : j \div 2 # t.at => ~Before(Above(t.heap, j), t.heap[j])
  /\ t.at > 1 => \A j \in 2 .. n : j \div 2 = t.at => ~Before(Above(t.heap, t.at), t.heap[j])

\* No child of place i is greater than what is at place l, i or a greater child.
Greatest(h, i, l, n) ==
  /\ l = i \/ (l \in 2 .. n /\ l \div 2 = i /\ i < l /\ Before(h[i], h[l]))
  /\ \A j \in 2 .. n : j \div 2 = i => ~Before(h[l], h[j])

LEMMA LargestIs ==
  ASSUME NEW K, NEW n \in Nat, NEW h, Spans(h, K), Len(h) = n, NEW i \in 1 .. n
  PROVE  Greatest(h, i, LargestChild(h, i), n)
<1> DEFINE l == LargestChild(h, i)
<1> DEFINE a == Larger(h, i, 2 * i)
<1>1. \A k \in 1 .. n : h[k] \in Sym
  BY SpansFinite
<1>2. a = IF 2 * i <= n /\ Before(h[i], h[2 * i]) THEN 2 * i ELSE i
  BY DEF Larger
<1>3. l = IF 2 * i + 1 <= n /\ Before(h[a], h[2 * i + 1]) THEN 2 * i + 1 ELSE a
  BY DEF Larger, LargestChild
<1> HIDE DEF a, l
<1>4. /\ a \in {i, 2 * i} /\ a \in 1 .. n /\ (a # i => Before(h[i], h[a]))
      /\ 2 * i <= n => ~Before(h[a], h[2 * i])
  BY <1>1, <1>2, BeforeOrders
<1>5. /\ l \in {i, 2 * i, 2 * i + 1} /\ l \in 1 .. n /\ (l # i => Before(h[i], h[l]))
      /\ 2 * i <= n => ~Before(h[l], h[2 * i])
      /\ 2 * i + 1 <= n => ~Before(h[l], h[2 * i + 1])
  <2>1. CASE 2 * i + 1 <= n /\ Before(h[a], h[2 * i + 1])
    <3>1. l = 2 * i + 1 /\ l \in 1 .. n /\ 2 * i \in 1 .. n
      BY <1>3, <2>1
    <3> QED BY <1>1, <1>4, <2>1, <3>1, BeforeOrders
  <2>2. CASE ~(2 * i + 1 <= n /\ Before(h[a], h[2 * i + 1]))
    BY <1>3, <1>4, <2>2
  <2> QED BY <2>1, <2>2
<1>6. \A j \in 2 .. n : j \div 2 = i => j = 2 * i \/ j = 2 * i + 1
  BY Halves
<1>7. l # i => l \in 2 .. n /\ l \div 2 = i /\ i < l
  BY <1>5, Halves
<1>8. Greatest(h, i, l, n)
  BY <1>5, <1>6, <1>7 DEF Greatest
<1> QED BY <1>8 DEF l

Down(t) == LargestChild(t.heap, t.at) # t.at

LEMMA SinkKeeps ==
  ASSUME NEW K, NEW n \in Nat, NEW t, Sunk(t, K, n)
  PROVE  /\ Sunk(Sink(t), K, n)
         /\ ~Down(t) => Sink(t) = t
         /\ Down(t) => Sink(t).at > t.at
<1>1. CASE ~Down(t)
  BY <1>1 DEF Sink, Down
<1>2. CASE Down(t)
  <2> DEFINE h == t.heap
             i == t.at
             l == LargestChild(h, i)
             s == Swapped(h, i, l)
  <2>1. i \in 1 .. n /\ Spans(h, K) /\ Len(h) = n
    BY DEF Sunk, Turn
  <2>2. /\ l \in 2 .. n /\ l \div 2 = i /\ i < l /\ Before(h[i], h[l])
        /\ \A j \in 2 .. n : j \div 2 = i => ~Before(h[l], h[j])
    <3>1. l # i
      BY <1>2 DEF Down
    <3> HIDE DEF h, i
    <3>2. Greatest(h, i, l, n)
      BY <2>1, LargestIs
    <3> HIDE DEF l
    <3> QED BY <3>1, <3>2 DEF Greatest
  <2>3. Sink(t) = [heap |-> s, at |-> l]
    BY <1>2 DEF Sink, Down
  <2>4. /\ Spans(s, K) /\ Len(s) = n
        /\ s[l] = h[i] /\ s[i] = h[l]
        /\ \A k \in 1 .. n \ {i, l} : s[k] = h[k]
    <3>1. i \in 1 .. Len(h) /\ l \in 1 .. Len(h)
      BY <2>1, <2>2
    <3>2. s = Swapped(h, i, l)
      OBVIOUS
    <3> HIDE DEF h, i, l, s
    <3>3. Spans(s, K) /\ Len(s) = Len(h)
      BY <2>1, <3>1, <3>2, SwapSpans
    <3>4. s[l] = h[i] /\ s[i] = h[l]
      BY <2>1, <3>1, <3>2, SwapSpans
    <3>5. \A k \in 1 .. Len(h) \ {i, l} : s[k] = h[k]
      BY <2>1, <3>1, <3>2, SwapSpans
    <3> QED BY <2>1, <3>3, <3>4, <3>5
  <2>5. \A k \in 1 .. n : h[k] \in Sym
    BY <2>1, SpansFinite
  <2>6. /\ \A j \in 2 .. n : j \div 2 # i => ~Before(h[j \div 2], h[j])
        /\ i > 1 => \A j \in 2 .. n : j \div 2 = i => ~Before(h[i \div 2], h[j])
    BY DEF Sunk, Above
  <2> HIDE DEF h, i, l, s
  <2>7. ASSUME NEW j \in 2 .. n, j \div 2 # l PROVE ~Before(s[j \div 2], s[j])
    <3>1. j \div 2 \in 1 .. n /\ j \div 2 < j
      BY Halves
    <3>2. CASE j = l
      BY <2>1, <2>2, <2>4, <2>5, <3>2, BeforeOrders
    <3>3. CASE j # l /\ j \div 2 = i
      BY <2>1, <2>2, <2>4, <3>1, <3>3
    <3>4. CASE j = i
      <4>1. i > 1 /\ j \div 2 # i /\ j \div 2 # l
        BY <2>7, <3>1, <3>4
      <4>2. s[j \div 2] = h[j \div 2] /\ s[j] = h[l]
        BY <2>4, <3>1, <3>4, <4>1
      <4> QED BY <2>2, <2>6, <3>4, <4>1, <4>2
    <3>5. CASE j # l /\ j # i /\ j \div 2 # i
      BY <2>4, <2>6, <2>7, <3>1, <3>5
    <3> QED BY <3>2, <3>3, <3>4, <3>5
  <2>8. ASSUME NEW j \in 2 .. n, j \div 2 = l PROVE ~Before(s[l \div 2], s[j])
    <3>1. l < j
      BY <2>8, Halves
    <3> QED BY <2>1, <2>2, <2>4, <2>6, <2>8, <3>1
  <2>9. Sunk([heap |-> s, at |-> l], K, n)
    BY <2>2, <2>4, <2>7, <2>8 DEF Sunk, Turn, Above
  <2> QED BY <1>2, <2>2, <2>3, <2>9 DEF i
<1> QED BY <1>1, <1>2

LEMMA SiftDownIs ==
  ASSUME NEW K, NEW n \in Nat, NEW h, NEW i, Sunk([heap |-> h, at |-> i], K, n)
  PROVE  Spans(SiftDown(h, i), K) /\ Len(SiftDown(h, i)) = n /\ IsHeap(SiftDown(h, i))
<1> DEFINE turn    == Sinking(h, i)
           Good(k) == Sunk(turn[k], K, n) /\ (Down(turn[k]) => turn[k].at >= i + k)
           Bad     == {k \in 0 .. n : ~Good(k)}
<1>1. Len(h) = n /\ i \in 1 .. n
  BY DEF Sunk, Turn
<1>2. \A k \in 0 .. n : turn[k] = IF k = 0 THEN [heap |-> h, at |-> i] ELSE Sink(turn[k - 1])
  BY <1>1, SinkingIs
<1> HIDE DEF turn
<1>3. Good(0)
  BY <1>1, <1>2
<1>4. ASSUME NEW k \in 1 .. n, Good(k - 1) PROVE Good(k)
  <2>1. turn[k] = Sink(turn[k - 1]) /\ Sunk(turn[k - 1], K, n)
    BY <1>2, <1>4
  <2>2. Sunk(turn[k], K, n) /\ turn[k].at \in 1 .. n /\ turn[k - 1].at \in 1 .. n
    <3>1. Sunk(turn[k], K, n)
      BY <2>1, SinkKeeps
    <3> QED BY <2>1, <3>1 DEF Sunk, Turn
  <2>3. CASE Down(turn[k - 1])
    BY <1>1, <1>4, <2>1, <2>2, <2>3, SinkKeeps
  <2>4. CASE ~Down(turn[k - 1])
    BY <2>1, <2>2, <2>4, SinkKeeps
  <2> QED BY <2>3, <2>4
<1>5. Bad = {}
  <2> SUFFICES ASSUME Bad # {} PROVE FALSE
    OBVIOUS
  <2> HIDE DEF Good
  <2>0. Bad \subseteq Nat
    OBVIOUS
  <2>1. PICK k \in Bad : \A m \in Bad : k <= m
    <3> HIDE DEF Bad
    <3> QED BY <2>0, Least
  <2>2. k # 0 /\ k \in 0 .. n /\ ~Good(k)
    BY <1>3, <2>1
  <2>3. k - 1 \in 0 .. n /\ Good(k - 1)
    BY <2>1, <2>2
  <2> QED BY <1>4, <2>2, <2>3
<1>6. Good(n)
  <2> HIDE DEF Good
  <2> QED BY <1>5
<1>7. ~Down(turn[n]) /\ Sunk(turn[n], K, n)
  BY <1>1, <1>6 DEF Sunk, Turn
<1>8. SiftDown(h, i) = turn[n].heap
  BY <1>1 DEF SiftDown, turn
<1> DEFINE g == turn[n].heap
           m == turn[n].at
<1>9. Spans(g, K) /\ Len(g) = n /\ m \in 1 .. n /\ LargestChild(g, m) = m
  BY <1>7 DEF Sunk, Turn, Down
<1>10. \A j \in 2 .. n : j \div 2 = m => ~Before(g[m], g[j])
  <2> HIDE DEF g, m
  <2> QED BY <1>9, LargestIs DEF Greatest
<1>11. IsHeap(g)
  BY <1>7, <1>9, <1>10 DEF Sunk, IsHeap, Above
<1> QED BY <1>8, <1>9, <1>11

\* The first of a heap comes after all others.
LEMMA RootIsLast ==
  ASSUME NEW h, NEW K, Spans(h, K), IsHeap(h), NEW k \in 1 .. Len(h)
  PROVE  k = 1 \/ Before(h[k], h[1])
<1> DEFINE n   == Len(h)
           Bad == {i \in 1 .. n : Before(h[1], h[i])}
<1>1. n \in Nat /\ \A i \in 1 .. n : h[i] \in Sym
  BY SpansFinite
<1>2. Bad = {}
  <2> SUFFICES ASSUME Bad # {} PROVE FALSE
    OBVIOUS
  <2>0. Bad \subseteq Nat
    BY <1>1
  <2>1. PICK i \in Bad : \A j \in Bad : i <= j
    <3> HIDE DEF Bad
    <3> QED BY <2>0, Least
  <2>2. i \in 2 .. n /\ Before(h[1], h[i])
    BY <1>1, <2>1, BeforeOrders
  <2>3. i \div 2 \in 1 .. n /\ i \div 2 < i
    BY <1>1, <2>2, Halves
  <2>4. ~Before(h[1], h[i \div 2]) /\ ~Before(h[i \div 2], h[i])
    BY <1>1, <2>1, <2>2, <2>3 DEF IsHeap, Above
  <2> QED BY <1>1, <2>2, <2>3, <2>4, BeforeOrders
<1>3. h[k] = h[1] => k = 1
  BY <1>1 DEF Spans
<1> QED BY <1>1, <1>2, <1>3, BeforeOrders

-----------------------------------------------------------------------------
(* The collector: it has the front of what it was given.                     *)

LEMMA AppendSpans ==
  ASSUME NEW h, NEW K, Spans(h, K), NEW v \in Sym, v \notin K,
         NEW s, s = Append(h, v)
  PROVE  /\ Spans(s, K \cup {v}) /\ Len(s) = Len(h) + 1 /\ s[Len(h) + 1] = v
         /\ \A i \in 1 .. Len(h) : s[i] = h[i]
<1> DEFINE n == Len(h)
<1>1. n \in Nat /\ h \in Seq(Sym)
  BY SpansFinite DEF Spans
<1>2. s \in Seq(Sym) /\ Len(s) = n + 1 /\ s[n + 1] = v /\ \A i \in 1 .. n : s[i] = h[i]
  BY <1>1
<1>3. \A i \in 1 .. n : h[i] \in K /\ h[i] # v
  BY DEF Spans
<1>4. ASSUME NEW i \in 1 .. n + 1, NEW j \in 1 .. n + 1, s[i] = s[j] PROVE i = j
  <2>1. CASE i = n + 1 \/ j = n + 1
    BY <1>1, <1>2, <1>3, <1>4, <2>1
  <2>2. CASE i \in 1 .. n /\ j \in 1 .. n
    BY <1>2, <1>4, <2>2 DEF Spans
  <2> QED BY <1>1, <2>1, <2>2
<1>5. \A i \in 1 .. n + 1 : s[i] \in K \cup {v}
  BY <1>1, <1>2, <1>3
<1>6. ASSUME NEW k \in K \cup {v} PROVE \E i \in 1 .. n + 1 : s[i] = k
  <2>1. CASE k = v
    BY <1>1, <1>2, <2>1
  <2>2. CASE k \in K
    <3>1. PICK i \in 1 .. n : h[i] = k
      BY <2>2 DEF Spans
    <3> QED BY <1>1, <1>2, <3>1
  <2> QED BY <2>1, <2>2
<1>7. Spans(s, K \cup {v})
  BY <1>2, <1>4, <1>5, <1>6 DEF Spans
<1> QED BY <1>2, <1>7

LEMMA ReplaceSpans ==
  ASSUME NEW h, NEW K, Spans(h, K), 1 <= Len(h), NEW v \in Sym, v \notin K,
         NEW s, s = [h EXCEPT ![1] = v]
  PROVE  /\ Spans(s, (K \ {h[1]}) \cup {v}) /\ Len(s) = Len(h)
         /\ \A i \in 2 .. Len(h) : s[i] = h[i]
<1> DEFINE n == Len(h)
           E == (K \ {h[1]}) \cup {v}
<1>1. n \in Nat /\ h \in [1 .. n -> Sym]
  BY SpansFinite
<1>2. s \in [1 .. n -> Sym] /\ s[1] = v /\ \A i \in 2 .. n : s[i] = h[i]
  BY <1>1
<1>3. s \in Seq(Sym) /\ Len(s) = n
  BY <1>1, <1>2
<1>4. \A i \in 1 .. n : h[i] \in K /\ h[i] # v /\ (i # 1 => h[i] # h[1])
  BY <1>1 DEF Spans
<1>5. \A i, j \in 1 .. n : s[i] = s[j] => i = j
  BY <1>1, <1>2, <1>4 DEF Spans
<1>6. \A i \in 1 .. n : s[i] \in E
  BY <1>1, <1>2, <1>4
<1>7. ASSUME NEW k \in E PROVE \E i \in 1 .. n : s[i] = k
  <2>1. CASE k = v
    BY <1>1, <1>2, <2>1
  <2>2. CASE k # v
    <3>1. PICK i \in 1 .. n : h[i] = k
      BY <2>2 DEF Spans
    <3> QED BY <1>1, <1>2, <2>2, <3>1
  <2> QED BY <2>1, <2>2
<1>8. Spans(s, E)
  BY <1>3, <1>5, <1>6, <1>7 DEF Spans
<1> QED BY <1>2, <1>3, <1>8

\* K is what a collector with room for limit has kept of M.
Kept(top, K, M, limit) ==
  /\ top.dropped \in BOOLEAN
  /\ K \in SUBSET M /\ Spans(top.heap, K)
  /\ \A a \in K, b \in M \ K : Before(a, b)
  /\ top.dropped <=> K # M
  /\ limit = 0 => K = M
  /\ limit # 0 => /\ IsHeap(top.heap) /\ Len(top.heap) <= limit
                  /\ K # M => Len(top.heap) = limit

Collected(top, M, limit) == \E K : Kept(top, K, M, limit)

LEMMA PushKeeps ==
  ASSUME NEW limit \in Nat, NEW M \in SUBSET Sym, NEW top, Collected(top, M, limit),
         NEW v \in Sym, v \notin M
  PROVE  Collected(Push(top, limit, v), M \cup {v}, limit)
<1> DEFINE new == Push(top, limit, v)
           N   == M \cup {v}
           h   == top.heap
<1>1. PICK K : Kept(top, K, M, limit)
  BY DEF Collected
<1>2. /\ K \in SUBSET M /\ Spans(h, K) /\ v \notin K
      /\ Len(h) \in Nat /\ \A i \in 1 .. Len(h) : h[i] \in K
  BY <1>1, SpansFinite DEF Kept, Spans
<1>3. CASE limit = 0
  <2>1. new.heap = Append(h, v) /\ new.dropped = top.dropped
    BY <1>3 DEF Push
  <2>2. Spans(new.heap, K \cup {v})
    BY <1>2, <2>1, AppendSpans
  <2> HIDE DEF new
  <2>3. Kept(new, K \cup {v}, N, limit)
    BY <1>1, <1>3, <2>1, <2>2 DEF Kept
  <2> QED BY <2>3 DEF Collected, new
<1>4. CASE limit # 0 /\ Len(h) < limit
  <2>1. new.heap = SiftUp(Append(h, v), Len(h) + 1) /\ new.dropped = top.dropped
    BY <1>4 DEF Push
  <2>2. K = M
    BY <1>1, <1>2, <1>4 DEF Kept
  <2> DEFINE s == Append(h, v)
             n == Len(h) + 1
  <2> HIDE DEF new, h
  <2>3. Spans(s, K \cup {v})
    BY <1>2, AppendSpans
  <2>4. Len(s) = n /\ s[n] = v
    BY <1>2, AppendSpans
  <2>5. \A i \in 1 .. Len(h) : s[i] = h[i]
    BY <1>2, AppendSpans
  <2>6. \A j \in 2 .. Len(h) : ~Before(h[j \div 2], h[j])
    BY <1>1, <1>4 DEF Kept, IsHeap, Above, h
  <2> HIDE DEF s
  <2>7. ASSUME NEW j \in 2 .. n, j # n PROVE ~Before(s[j \div 2], s[j])
    <3>1. j \in 2 .. Len(h) /\ j \div 2 \in 1 .. Len(h)
      BY <1>2, <2>7, Halves
    <3> QED BY <1>2, <2>5, <2>6, <3>1
  <2>8. \A j \in 2 .. n : j \div 2 # n
    BY <1>2, Halves
  <2>9. n \in Nat /\ n \in 1 .. n
    BY <1>2
  <2>10. Risen([heap |-> s, at |-> n], K \cup {v}, n)
    BY <2>3, <2>4, <2>7, <2>8, <2>9 DEF Risen, Turn, Above
  <2> HIDE DEF n
  <2>11. Spans(SiftUp(s, n), K \cup {v}) /\ Len(SiftUp(s, n)) = n /\ IsHeap(SiftUp(s, n))
    BY <2>9, <2>10, SiftUpIs
  <2>12. new.heap = SiftUp(s, n)
    BY <2>1 DEF s, n
  <2>13. n <= limit
    BY <1>2, <1>4 DEF n
  <2>14. top.dropped = FALSE
    BY <1>1, <2>2 DEF Kept
  <2>15. Kept(new, N, N, limit)
    BY <1>4, <2>1, <2>2, <2>11, <2>12, <2>13, <2>14 DEF Kept
  <2> QED BY <2>15 DEF Collected, new
<1>5. CASE limit # 0 /\ ~(Len(h) < limit)
  <2>1. /\ new.heap = IF Before(v, h[1]) THEN SiftDown([h EXCEPT ![1] = v], 1) ELSE h
        /\ new.dropped = TRUE
    BY <1>5 DEF Push
  <2>2. Len(h) = limit /\ 1 \in 1 .. Len(h) /\ h[1] \in K /\ IsHeap(h)
    BY <1>1, <1>2, <1>5 DEF Kept
  <2>3. \A a \in K : a = h[1] \/ Before(a, h[1])
    <3> SUFFICES ASSUME NEW a \in K PROVE a = h[1] \/ Before(a, h[1])
      OBVIOUS
    <3>1. PICK i \in 1 .. Len(h) : h[i] = a
      BY <1>2 DEF Spans
    <3> HIDE DEF h
    <3> QED BY <1>2, <2>2, <3>1, RootIsLast
  <2>4. K \in SUBSET Sym /\ \A a \in K, b \in M \ K : Before(a, b)
    BY <1>1, <1>2 DEF Kept
  <2> HIDE DEF new, h
  <2>5. CASE ~Before(v, h[1])
    <3>1. Before(h[1], v)
      BY <1>2, <2>2, <2>4, <2>5, BeforeOrders
    <3>2. \A a \in K : Before(a, v)
      BY <2>2, <2>3, <2>4, <3>1, BeforeOrders
    <3>3. K # N
      BY <1>2
    <3>4. new.heap = h
      BY <2>1, <2>5
    <3>5. K \in SUBSET N /\ \A a \in K, b \in N \ K : Before(a, b)
      BY <1>2, <2>4, <3>2
    <3>6. new.dropped \in BOOLEAN /\ (new.dropped <=> K # N)
      BY <2>1, <3>3, Zenon
    <3>7. Spans(new.heap, K) /\ IsHeap(new.heap) /\ Len(new.heap) = limit
      BY <1>2, <2>2, <3>4
    <3>8. Kept(new, K, N, limit)
      BY <1>5, <3>5, <3>6, <3>7 DEF Kept
    <3> QED BY <3>8 DEF Collected, new
  <2>6. CASE Before(v, h[1])
    <3> DEFINE s == [h EXCEPT ![1] = v]
               n == Len(h)
               E == (K \ {h[1]}) \cup {v}
    <3>0. s = [h EXCEPT ![1] = v] /\ 1 <= Len(h)
      BY <1>2, <2>2
    <3>1. Spans(s, E)
      <4> HIDE DEF s
      <4> QED BY <1>2, <3>0, ReplaceSpans
    <3>2. Len(s) = n
      BY <1>2, <2>2, ReplaceSpans
    <3>3. \A i \in 2 .. n : s[i] = h[i]
      BY <1>2, <2>2, ReplaceSpans
    <3> HIDE DEF s
    <3>4. ASSUME NEW j \in 2 .. n, j \div 2 # 1 PROVE ~Before(s[j \div 2], s[j])
      <4>1. j \div 2 \in 2 .. n
        BY <1>2, <3>4, Halves
      <4> QED BY <2>2, <3>3, <3>4, <4>1 DEF IsHeap, Above
    <3>5. n \in Nat /\ 1 \in 1 .. n
      BY <1>2, <2>2
    <3>6. Sunk([heap |-> s, at |-> 1], E, n)
      BY <3>1, <3>2, <3>4, <3>5 DEF Sunk, Turn, Above
    <3> HIDE DEF n, E
    <3>7. Spans(SiftDown(s, 1), E) /\ Len(SiftDown(s, 1)) = n /\ IsHeap(SiftDown(s, 1))
      BY <3>5, <3>6, SiftDownIs
    <3>8. new.heap = SiftDown(s, 1)
      BY <2>1, <2>6 DEF s
    <3>9. E \in SUBSET N /\ h[1] \in N /\ h[1] \notin E
      BY <1>2, <2>2 DEF E
    <3>10. ASSUME NEW a \in E, NEW b \in N \ E PROVE Before(a, b)
      <4>1. a \in Sym /\ b \in Sym /\ v \in Sym /\ h[1] \in Sym
        BY <2>2, <2>4, <3>10 DEF E
      <4>2. Before(a, h[1])
        BY <2>3, <2>6, <3>10 DEF E
      <4>3. b = h[1] \/ (b \in M \ K /\ Before(h[1], b))
        BY <2>2, <2>4, <3>10 DEF E
      <4> QED BY <4>1, <4>2, <4>3, BeforeOrders
    <3>11. new.dropped \in BOOLEAN /\ (new.dropped <=> E # N)
      BY <2>1, <3>9, Zenon
    <3>12. Spans(new.heap, E) /\ IsHeap(new.heap) /\ Len(new.heap) = limit
      BY <2>2, <3>7, <3>8 DEF n
    <3>13. Kept(new, E, N, limit)
      BY <1>5, <3>9, <3>10, <3>11, <3>12 DEF Kept
    <3> QED BY <3>13 DEF Collected, new
  <2> QED BY <2>5, <2>6
<1> QED BY <1>3, <1>4, <1>5

LEMMA PushedKeeps ==
  ASSUME NEW limit \in Nat, NEW M, NEW all, Spans(all, M)
  PROVE  Collected(Pushed(all, limit)[Len(all)], M, limit)
<1> DEFINE top     == Pushed(all, limit)
           L       == Len(all)
           Some(k) == {all[j] : j \in 1 .. k}
           Good(k) == Collected(top[k], Some(k), limit)
           Bad     == {k \in 0 .. L : ~Good(k)}
<1>1. L \in Nat /\ M \in SUBSET Sym /\ \A j \in 1 .. L : all[j] \in M
  BY SpansFinite DEF Spans
<1>2. \A k \in 0 .. L : top[k] = IF k = 0 THEN [heap |-> <<>>, dropped |-> FALSE]
                                 ELSE Push(top[k - 1], limit, all[k])
  <2>1. top = [k \in 0 .. L |-> IF k = 0 THEN [heap |-> <<>>, dropped |-> FALSE]
                               ELSE Push(top[k - 1], limit, all[k])]
    BY <1>1, PushedIs
  <2> HIDE DEF top, L
  <2> QED BY <2>1
<1> HIDE DEF top
<1>3. Good(0)
  <2>1. top[0].heap = <<>> /\ top[0].dropped = FALSE /\ Some(0) = {}
    BY <1>1, <1>2
  <2> HIDE DEF Some
  <2>2. Spans(<<>>, {}) /\ IsHeap(<<>>)
    BY DEF Spans, IsHeap
  <2>3. top[0].dropped \in BOOLEAN /\ (top[0].dropped <=> {} # Some(0))
    BY <2>1, Zenon
  <2>4. Spans(top[0].heap, {}) /\ IsHeap(top[0].heap) /\ Len(top[0].heap) = 0
    BY <2>1, <2>2
  <2>5. Kept(top[0], {}, Some(0), limit)
    BY <2>1, <2>3, <2>4 DEF Kept
  <2> QED BY <2>5 DEF Collected
<1>4. ASSUME NEW k \in 1 .. L, Good(k - 1) PROVE Good(k)
  <2>1. all[k] \in Sym /\ all[k] \notin Some(k - 1)
    BY <1>1 DEF Spans
  <2>2. Some(k) = Some(k - 1) \cup {all[k]}
    BY <1>1
  <2>3. Some(k - 1) \in SUBSET Sym
    BY <1>1
  <2>4. top[k] = Push(top[k - 1], limit, all[k])
    BY <1>1, <1>2
  <2> HIDE DEF Some
  <2> QED BY <1>4, <2>1, <2>2, <2>3, <2>4, PushKeeps
<1>5. Bad = {}
  <2> SUFFICES ASSUME Bad # {} PROVE FALSE
    OBVIOUS
  <2> HIDE DEF Good, L
  <2>0. Bad \subseteq Nat
    OBVIOUS
  <2>1. PICK k \in Bad : \A m \in Bad : k <= m
    <3> HIDE DEF Bad
    <3> QED BY <2>0, Least
  <2>2. k # 0 /\ k \in 0 .. L /\ ~Good(k)
    BY <1>3, <2>1
  <2>3. k - 1 \in 0 .. L /\ Good(k - 1)
    BY <1>1, <2>1, <2>2
  <2> QED BY <1>4, <2>2, <2>3
<1>6. Good(L)
  <2> HIDE DEF Good, L
  <2> QED BY <1>1, <1>5
<1>7. Some(L) = M
  BY <1>1 DEF Spans
<1> QED BY <1>6, <1>7 DEF top

-----------------------------------------------------------------------------
(* What the symbol picker and completion are given to choose from.           *)

LEMMA DeclarationsAre ==
  ASSUME NEW n \in Names
  PROVE  /\ DeclarationsOf(n) = {[name |-> n, ref |-> r] : r \in Declared(files, n)}
         /\ DeclarationsOf(n) \in SUBSET Sym
         /\ \A a \in DeclarationsOf(n) : a.name = n /\ a.ref \in Declared(files, n)
BY DEF DeclarationsOf, Declared, Sym

LEMMA SymbolsOfSpans ==
  ASSUME ByInv, NEW n \in Names
  PROVE  Spans(SymbolsOf(n), DeclarationsOf(n))
<1> DEFINE refs == byName[n]
           L    == Len(refs)
           s    == SymbolsOf(n)
<1>1. Lists(refs, Declared(files, n))
  BY DEF ByInv
<1>2. L \in Nat /\ refs \in [1 .. L -> DeclRef] /\ DOMAIN refs = 1 .. L
  BY <1>1 DEF Lists
<1>3. s = [i \in 1 .. L |-> [name |-> n, ref |-> refs[i]]]
  BY <1>2 DEF SymbolsOf
<1> HIDE DEF refs, s, L
<1>4. s \in [1 .. L -> Sym]
  BY <1>2, <1>3 DEF Sym
<1>5. s \in Seq(Sym) /\ Len(s) = L
  BY <1>2, <1>4
<1>6. \A i, j \in 1 .. L : s[i] = s[j] => i = j
  BY <1>1, <1>2, <1>3 DEF Lists, L
<1>7. \A i \in 1 .. L : s[i] \in DeclarationsOf(n)
  BY <1>1, <1>3, DeclarationsAre DEF Lists, L
<1>8. ASSUME NEW a \in DeclarationsOf(n) PROVE \E i \in 1 .. L : s[i] = a
  <2>1. a = [name |-> n, ref |-> a.ref] /\ a.ref \in Declared(files, n)
    BY DeclarationsAre DEF Sym
  <2>2. PICK i \in 1 .. L : refs[i] = a.ref
    BY <1>1, <2>1 DEF Lists, L
  <2> QED BY <1>3, <2>1, <2>2
<1>9. Spans(s, DeclarationsOf(n))
  BY <1>5, <1>6, <1>7, <1>8 DEF Spans
<1> QED BY <1>9 DEF s

LEMMA JoinSpans ==
  ASSUME NEW s, NEW D, Spans(s, D), NEW t, NEW E, Spans(t, E), D \cap E = {}
  PROVE  Spans(s \o t, D \cup E)
<1> DEFINE A   == Len(s)
           B   == Len(t)
           out == s \o t
<1>1. A \in Nat /\ B \in Nat /\ s \in Seq(Sym) /\ t \in Seq(Sym)
  BY SpansFinite DEF Spans
<1>2. out \in Seq(Sym) /\ Len(out) = A + B
  BY <1>1
<1>3. \A i \in 1 .. A + B : out[i] = IF i <= A THEN s[i] ELSE t[i - A]
  BY <1>1
<1> HIDE DEF out
<1>4. ASSUME NEW i \in 1 .. A + B
      PROVE  \/ i \in 1 .. A /\ out[i] = s[i] /\ out[i] \in D
             \/ i - A \in 1 .. B /\ out[i] = t[i - A] /\ out[i] \in E
  BY <1>1, <1>3 DEF Spans
<1>5. ASSUME NEW i \in 1 .. A + B, NEW j \in 1 .. A + B, out[i] = out[j] PROVE i = j
  <2>1. CASE out[i] \in D
    <3>1. i \in 1 .. A /\ j \in 1 .. A /\ s[i] = s[j]
      BY <1>4, <1>5, <2>1
    <3> QED BY <3>1 DEF Spans
  <2>2. CASE out[i] \in E
    <3>1. i - A \in 1 .. B /\ j - A \in 1 .. B /\ t[i - A] = t[j - A]
      BY <1>4, <1>5, <2>2
    <3>2. i - A = j - A
      BY <3>1 DEF Spans
    <3> QED BY <1>1, <3>2
  <2> QED BY <1>4, <2>1, <2>2
<1>6. \A i \in 1 .. A + B : out[i] \in D \cup E
  BY <1>4
<1>7. ASSUME NEW k \in D \cup E PROVE \E i \in 1 .. A + B : out[i] = k
  <2>1. CASE k \in D
    <3>1. PICK i \in 1 .. A : s[i] = k
      BY <2>1 DEF Spans
    <3>2. i \in 1 .. A + B /\ out[i] = k
      BY <1>1, <1>3, <3>1
    <3> QED BY <3>2
  <2>2. CASE k \in E
    <3>1. PICK i \in 1 .. B : t[i] = k
      BY <2>2 DEF Spans
    <3>2. A + i \in 1 .. A + B /\ out[A + i] = k
      BY <1>1, <1>3, <3>1
    <3> QED BY <3>2
  <2> QED BY <2>1, <2>2
<1>8. Spans(out, D \cup E)
  BY <1>2, <1>5, <1>6, <1>7 DEF Spans
<1> QED BY <1>8 DEF out

LEMMA MatchesSpan ==
  ASSUME ByInv, NEW Q \in SUBSET Names, NEW order \in SetToSeqs(Q)
  PROVE  Spans(Matches(order)[Len(order)], UNION {DeclarationsOf(n) : n \in Q})
<1> DEFINE L       == Len(order)
           all     == Matches(order)
           Upto(k) == UNION {DeclarationsOf(order[j]) : j \in 1 .. k}
           Good(k) == Spans(all[k], Upto(k))
           Bad     == {k \in 0 .. L : ~Good(k)}
<1>1. Orders(order, Q)
  <2>1. DOMAIN NameOrder = 1 .. Len(NameOrder) /\ Len(NameOrder) \in Nat
    BY PlaceIs
  <2> DEFINE at == [n \in Names |-> Place(n, NameOrder)]
  <2>2. at \in Injection(Names, 1 .. Len(NameOrder))
    <3>1. at \in [Names -> 1 .. Len(NameOrder)]
      BY PlaceIs
    <3>2. \A m, n \in Names : at[m] = at[n] => m = n
      BY PlaceIs
    <3> HIDE DEF at
    <3> QED BY <3>1, <3>2 DEF Injection, IsInjective
  <2>3. IsFiniteSet(1 .. Len(NameOrder))
    BY <2>1, FS_Interval
  <2>4. IsFiniteSet(Names)
    <3> HIDE DEF at
    <3> QED BY <2>2, <2>3, FS_Injection
  <2>5. IsFiniteSet(Q)
    BY <2>4, FS_Subset
  <2> QED BY <2>5, PermutationsOrder
<1>2. L \in Nat /\ \A j \in 1 .. L : order[j] \in Q /\ order[j] \in Names
  BY <1>1 DEF Orders
<1>3. \A k \in 0 .. L : all[k] = IF k = 0 THEN <<>> ELSE all[k - 1] \o SymbolsOf(order[k])
  <2>1. all = [k \in 0 .. L |-> IF k = 0 THEN <<>> ELSE all[k - 1] \o SymbolsOf(order[k])]
    BY <1>2, MatchesIs
  <2> HIDE DEF all, L
  <2> QED BY <2>1
<1> HIDE DEF all
<1>4. Good(0)
  <2>1. all[0] = <<>> /\ Upto(0) = {}
    BY <1>2, <1>3
  <2> QED BY <2>1 DEF Spans
<1>5. ASSUME NEW k \in 1 .. L, Good(k - 1) PROVE Good(k)
  <2>1. Spans(SymbolsOf(order[k]), DeclarationsOf(order[k]))
    BY <1>2, SymbolsOfSpans
  <2>2. Upto(k) = Upto(k - 1) \cup DeclarationsOf(order[k])
    <3>1. \A j : j \in 1 .. k <=> j \in 1 .. k - 1 \/ j = k
      BY <1>2
    <3> QED BY <3>1, Zenon
  <2>3. Upto(k - 1) \cap DeclarationsOf(order[k]) = {}
    <3> SUFFICES ASSUME NEW j \in 1 .. k - 1, NEW a \in DeclarationsOf(order[j]),
                        a \in DeclarationsOf(order[k])
                 PROVE  FALSE
      OBVIOUS
    <3>1. j \in 1 .. L /\ j # k
      BY <1>2
    <3>2. a.name = order[j] /\ a.name = order[k]
      BY <1>2, <3>1, DeclarationsAre
    <3> QED BY <1>1, <3>1, <3>2 DEF Orders
  <2>4. all[k] = all[k - 1] \o SymbolsOf(order[k])
    <3>1. k \in 0 .. L /\ k # 0
      BY <1>2
    <3> HIDE DEF L
    <3> QED BY <1>3, <3>1
  <2> HIDE DEF Upto
  <2> QED BY <1>5, <2>1, <2>2, <2>3, <2>4, JoinSpans
<1>6. Bad = {}
  <2> SUFFICES ASSUME Bad # {} PROVE FALSE
    OBVIOUS
  <2> HIDE DEF Good, L
  <2>0. Bad \subseteq Nat
    OBVIOUS
  <2>1. PICK k \in Bad : \A m \in Bad : k <= m
    <3> HIDE DEF Bad
    <3> QED BY <2>0, Least
  <2>2. k # 0 /\ k \in 0 .. L /\ ~Good(k)
    BY <1>4, <2>1
  <2>3. k - 1 \in 0 .. L /\ Good(k - 1)
    BY <1>2, <2>1, <2>2
  <2> QED BY <1>5, <2>2, <2>3
<1>7. Good(L)
  <2> HIDE DEF Good, L
  <2> QED BY <1>2, <1>6
<1>8. Upto(L) = UNION {DeclarationsOf(n) : n \in Q}
  <2>1. \A n \in Q : \E j \in 1 .. L : order[j] = n
    BY <1>1 DEF Orders
  <2> HIDE DEF L
  <2> QED BY <1>2, <2>1
<1> QED BY <1>7, <1>8 DEF all

LEMMA SameTruth == ASSUME NEW a \in BOOLEAN, NEW b \in BOOLEAN, a <=> b PROVE a = b
BY Zenon

LEMMA PickerExact ==
  ASSUME ByInv, NEW limit \in Nat, NEW Q \in SUBSET Names, NEW order \in SetToSeqs(Q)
  PROVE  WorkspaceSymbols(order, limit) = FirstOf(UNION {DeclarationsOf(n) : n \in Q}, limit)
<1> DEFINE M   == UNION {DeclarationsOf(n) : n \in Q}
           all == Matches(order)[Len(order)]
           top == Pushed(all, limit)[Len(all)]
           n   == Len(top.heap)
<1>1. Spans(all, M)
  BY MatchesSpan
<1> HIDE DEF M, all
<1>2. Collected(top, M, limit)
  BY <1>1, PushedKeeps
<1>3. M \in SUBSET Sym /\ IsFiniteSet(M)
  BY <1>1, SpansFinite
<1> HIDE DEF top
<1>4. PICK K : Kept(top, K, M, limit)
  BY <1>2 DEF Collected
<1>5. n \in Nat /\ Cardinality(K) = n /\ K \in SUBSET M
  BY <1>4, SpansFinite DEF Kept
<1>6. Cardinality(M) \in Nat /\ n <= Cardinality(M) /\ (K # M <=> n < Cardinality(M))
  BY <1>3, <1>5, FS_Subset, FS_CardinalityType
<1>7. n = IF limit = 0 \/ Cardinality(M) < limit THEN Cardinality(M) ELSE limit
  BY <1>4, <1>5, <1>6 DEF Kept
<1>8. FrontOf(SortFunc(top.heap), n, M)
  BY <1>3, <1>4, SortIs DEF Kept
<1>9. FirstOf(M, limit) = [syms |-> SortFunc(top.heap), truncated |-> n < Cardinality(M)]
  BY <1>3, <1>5, <1>7, <1>8, FirstIs
<1>10. top.dropped \in BOOLEAN /\ (top.dropped <=> n < Cardinality(M))
  BY <1>4, <1>6 DEF Kept
<1>11. top.dropped = (n < Cardinality(M))
  <2>1. (n < Cardinality(M)) \in BOOLEAN
    OBVIOUS
  <2> QED BY <1>10, <2>1, SameTruth
<1>12. WorkspaceSymbols(order, limit) = [syms |-> SortFunc(top.heap), truncated |-> top.dropped]
  BY DEF WorkspaceSymbols, top, all
<1> QED BY <1>9, <1>11, <1>12 DEF M

-----------------------------------------------------------------------------
(* Completion.                                                               *)

LEMMA InitialSegment ==
  ASSUME NEW n \in Nat, NEW I \in SUBSET (1 .. n), \A i \in I : \A j \in 1 .. i : j \in I
  PROVE  Cardinality(I) \in 0 .. n /\ I = 1 .. Cardinality(I)
<1> DEFINE Ends == {k \in 0 .. n : k = n \/ k + 1 \notin I}
<1>1. Ends \in SUBSET Nat /\ n \in Ends
  OBVIOUS
<1>2. PICK m \in Ends : \A k \in Ends : m <= k
  <2> HIDE DEF Ends
  <2> QED BY <1>1, Least
<1>3. ASSUME NEW i \in I PROVE i \in 1 .. m
  <2>1. ~ (m + 1 <= i)
    BY <1>2
  <2> QED BY <1>2, <2>1
<1>4. ASSUME NEW i \in 1 .. m PROVE i \in I
  <2>1. i - 1 \notin Ends
    BY <1>1, <1>2
  <2> QED BY <1>2, <2>1
<1>5. I = 1 .. m
  BY <1>3, <1>4
<1>6. Cardinality(I) = m
  BY <1>1, <1>2, <1>5, FS_Interval
<1> QED BY <1>2, <1>5, <1>6

LEMMA PrimaryIs ==
  ASSUME ByInv, NEW n \in Names
  PROVE  /\ DeclarationsOf(n) # {} <=> byName[n] # <<>>
         /\ byName[n] # <<>> =>
              /\ FirstOf(DeclarationsOf(n), 1).syms[1] = [name |-> n, ref |-> PrimaryRef(byName[n])]
              /\ [name |-> n, ref |-> PrimaryRef(byName[n])] \in Sym
<1> DEFINE refs == byName[n]
           D    == DeclarationsOf(n)
           sym(r) == [name |-> n, ref |-> r]
<1>1. Lists(refs, Declared(files, n))
  BY DEF ByInv
<1>2. D = {sym(r) : r \in Declared(files, n)} /\ D \in SUBSET Sym
  BY DeclarationsAre
<1>3. Len(refs) \in Nat /\ DOMAIN refs = 1 .. Len(refs) /\ (refs = <<>> <=> Len(refs) = 0)
  BY <1>1 DEF Lists
<1>4. ToSet(refs) = Declared(files, n)
  BY <1>1, <1>3 DEF Lists, ToSet
<1>5. D # {} <=> refs # <<>>
  <2>1. D # {} <=> Declared(files, n) # {}
    BY <1>2
  <2>2. ToSet(refs) # {} <=> Len(refs) # 0
    <3>1. ToSet(refs) = {refs[i] : i \in 1 .. Len(refs)}
      BY <1>3 DEF ToSet
    <3>3. Len(refs) \in Nat
      BY <1>3
    <3> HIDE DEF refs
    <3>2. 1 .. Len(refs) # {} <=> Len(refs) # 0
      <4>1. Len(refs) # 0 => 1 \in 1 .. Len(refs)
        BY <3>3
      <4>2. Len(refs) = 0 => 1 .. Len(refs) = {}
        OBVIOUS
      <4> QED BY <4>1, <4>2
    <3> QED BY <3>1, <3>2
  <2> QED BY <1>3, <1>4, <2>1, <2>2
<1>6. IsFiniteSet(D)
  BY SymbolsOfSpans, SpansFinite
<1> HIDE DEF D
<1>7. ASSUME refs # <<>>
      PROVE  /\ FirstOf(D, 1).syms[1] = sym(PrimaryRef(refs))
             /\ sym(PrimaryRef(refs)) \in Sym
  <2>1. Cardinality(D) \in Nat /\ Cardinality(D) # 0
    BY <1>2, <1>5, <1>6, <1>7, Ranks, FS_EmptySet
  <2>2. PICK a \in D : Rank(D, a) = 0
    <3>1. 1 \in 1 .. Cardinality(D)
      BY <2>1
    <3>2. \E a \in D : Rank(D, a) = 1 - 1
      BY <1>2, <1>6, <3>1, Ranks
    <3> QED BY <3>2
  <2>3. \A b \in D : ~Before(b, a)
    <3>1. \A b \in D : Rank(D, b) \in 0 .. Cardinality(D) - 1
      BY <1>2, <1>6, Ranks
    <3>2. \A b \in D : Before(b, a) <=> Rank(D, b) < Rank(D, a)
      BY <1>2, <1>6, Ranks
    <3> QED BY <2>2, <3>1, <3>2
  <2>4. \A b \in D : b = a \/ Before(a, b)
    BY <1>2, <2>3, BeforeOrders
  <2> DEFINE f == [i \in 1 .. 1 |-> a]
  <2>5. FrontOf(f, 1, D)
    BY <2>4 DEF FrontOf
  <2>6. 1 = IF 1 = 0 \/ Cardinality(D) < 1 THEN Cardinality(D) ELSE 1
    BY <2>1
  <2>7. FirstOf(D, 1).syms = f
    <3> HIDE DEF f
    <3>1. FirstOf(D, 1) = [syms |-> f, truncated |-> 1 < Cardinality(D)]
      BY <1>2, <1>6, <2>5, <2>6, FirstIs
    <3> QED BY <3>1
  <2>8. PICK r \in Declared(files, n) : a = sym(r)
    BY <1>2
  <2>9. \A s \in Declared(files, n) : sym(s) \in D
    BY <1>2
  <2>10. \A s \in Declared(files, n) : /\ Before(sym(s), a) <=> RefBefore(s, r)
                                       /\ Before(a, sym(s)) <=> RefBefore(r, s)
    <3>1. ~(Place(n, NameOrder) < Place(n, NameOrder))
      BY PlaceIs
    <3> QED BY <2>8, <3>1 DEF Before
  <2>11. \A s \in Declared(files, n) : ~RefBefore(s, r) /\ (s = r \/ RefBefore(r, s))
    <3> SUFFICES ASSUME NEW s \in Declared(files, n)
                 PROVE  ~RefBefore(s, r) /\ (s = r \/ RefBefore(r, s))
      OBVIOUS
    <3>1. sym(s) = a => s = r
      BY <2>8
    <3> QED BY <2>3, <2>4, <2>9, <2>10, <3>1
  <2>12. PrimaryRef(refs) = r
    BY <1>4, <2>11 DEF PrimaryRef
  <2> QED BY <1>2, <2>7, <2>8, <2>12
<1> QED BY <1>5, <1>7 DEF D

LEMMA NameListIs ==
  ASSUME ByInv, NEW P, P = {i \in 1 .. Len(NameOrder) : byName[NameOrder[i]] # <<>>}
  PROVE  /\ P \in SUBSET Nat /\ IsFiniteSet(P) /\ Cardinality(P) \in Nat
         /\ NameList = [i \in 1 .. Cardinality(P) |-> NameOrder[InOrder(P)[i]]]
<1>1. Len(NameOrder) \in Nat /\ DOMAIN NameOrder = 1 .. Len(NameOrder)
      /\ \A i \in 1 .. Len(NameOrder) : NameOrder[i] \in Names
  BY PlaceIs
<1>2. P \in SUBSET (1 .. Len(NameOrder)) /\ IsFiniteSet(1 .. Len(NameOrder))
  BY <1>1, FS_Interval
<1>3. P \in SUBSET Nat /\ IsFiniteSet(P) /\ Cardinality(P) \in Nat
  BY <1>1, <1>2, FS_Subset, FS_CardinalityType
<1> DEFINE keys == IF names = NoList THEN {n \in Names : byName[n] # <<>>} ELSE UNION names
<1>4. keys = {n \in Names : byName[n] # <<>>}
  <2>1. names = {} \/ names = {Keys(byName)}
    BY DEF ByInv
  <2> QED BY <2>1 DEF NoList, Keys
<1>5. P = {i \in DOMAIN NameOrder : NameOrder[i] \in keys}
  <2> HIDE DEF keys
  <2> QED BY <1>1, <1>4
<1>6. NameList = [i \in 1 .. Cardinality(P) |-> NameOrder[InOrder(P)[i]]]
  BY <1>5 DEF NameList
<1> QED BY <1>3, <1>6

LEMMA CompletionExact ==
  ASSUME ByInv, NEW limit \in Nat,
         NEW q \in (1 .. Len(NameOrder) + 1) \X (0 .. Len(NameOrder))
  PROVE  CompleteSymbols(q, limit) =
           FirstOf({FirstOf(DeclarationsOf(NameOrder[i]), 1).syms[1] :
                          i \in {j \in q[1] .. q[2] : DeclarationsOf(NameOrder[j]) # {}}}, limit)
<1> DEFINE L    == Len(NameOrder)
           P    == {i \in 1 .. L : byName[NameOrder[i]] # <<>>}
           c    == Cardinality(P)
           o    == InOrder(P)
           elem == [i \in 1 .. c |-> [name |-> NameOrder[o[i]],
                                      ref  |-> PrimaryRef(byName[NameOrder[o[i]]])]]
           s    == Cardinality({i \in 1 .. c : o[i] < q[1]})
           m    == Cardinality({i \in 1 .. c : o[i] <= q[2]})
           run  == {i \in 1 + s .. c : \A j \in 1 + s .. i : o[j] <= q[2]}
           count == Cardinality(run)
           shown == IF limit > 0 /\ count > limit THEN limit ELSE count
           f    == [i \in 1 .. shown |-> elem[s + i]]
           prim(j) == FirstOf(DeclarationsOf(NameOrder[j]), 1).syms[1]
           T    == {j \in q[1] .. q[2] : DeclarationsOf(NameOrder[j]) # {}}
           S    == {prim(j) : j \in T}
<1>1. /\ L \in Nat /\ q[1] \in 1 .. L + 1 /\ q[2] \in 0 .. L
      /\ \A i \in 1 .. L : NameOrder[i] \in Names /\ Place(NameOrder[i], NameOrder) = i
  BY PlaceIs
<1>2. /\ P \in SUBSET Nat /\ IsFiniteSet(P) /\ c \in Nat
      /\ NameList = [i \in 1 .. c |-> NameOrder[o[i]]]
  <2> HIDE DEF c, o
  <2> QED BY NameListIs DEF c, o
<1>3. /\ o \in [1 .. c -> P]
      /\ \A p \in P : \E i \in 1 .. c : o[i] = p
      /\ \A i, j \in 1 .. c : i < j => o[i] < o[j]
  <2> HIDE DEF P
  <2> QED BY <1>2, InOrderLists
<1>4. \A i \in 1 .. c : o[i] \in P /\ o[i] \in 1 .. L
  <2> HIDE DEF o, c
  <2> QED BY <1>3
<1>5. /\ s \in 0 .. c /\ \A i \in 1 .. c : o[i] < q[1] <=> i <= s
      /\ m \in 0 .. c /\ \A i \in 1 .. c : o[i] <= q[2] <=> i <= m
  <2> DEFINE low  == {i \in 1 .. c : o[i] < q[1]}
             high == {i \in 1 .. c : o[i] <= q[2]}
  <2> HIDE DEF c, o, P, L
  <2>8. \A i \in 1 .. c : o[i] \in Nat
    BY <1>1, <1>4
  <2>1. \A i, j \in 1 .. c : j <= i => o[j] <= o[i] /\ o[i] \in Nat /\ o[j] \in Nat
    <3> SUFFICES ASSUME NEW i \in 1 .. c, NEW j \in 1 .. c, j <= i PROVE o[j] <= o[i]
      BY <2>8
    <3>1. CASE j = i
      BY <2>8, <3>1
    <3>2. CASE j < i
      <4>1. o[j] < o[i]
        BY <1>3, <3>2
      <4> QED BY <2>8, <4>1
    <3> QED BY <1>2, <3>1, <3>2
  <2>2. low \in SUBSET (1 .. c) /\ \A i \in low : \A j \in 1 .. i : j \in low
    BY <1>1, <1>2, <2>1
  <2>3. high \in SUBSET (1 .. c) /\ \A i \in high : \A j \in 1 .. i : j \in high
    BY <1>1, <1>2, <2>1
  <2>4. \A i \in 1 .. c : (o[i] < q[1] <=> i \in low) /\ (o[i] <= q[2] <=> i \in high)
    OBVIOUS
  <2>7. s = Cardinality(low) /\ m = Cardinality(high)
    OBVIOUS
  <2> HIDE DEF low, high, s, m
  <2>5. s \in 0 .. c /\ low = 1 .. s
    BY <1>2, <2>2, <2>7, InitialSegment
  <2>6. m \in 0 .. c /\ high = 1 .. m
    BY <1>2, <2>3, <2>7, InitialSegment
  <2> QED BY <1>2, <2>4, <2>5, <2>6
<1> HIDE DEF c, o, s, m
<1>6. run = 1 + s .. m
  BY <1>2, <1>5
<1>7. count \in Nat /\ run = 1 + s .. s + count
  <2>1. count = IF 1 + s > m THEN 0 ELSE m - s
    <3> HIDE DEF run
    <3>1. Cardinality(1 + s .. m) = IF 1 + s > m THEN 0 ELSE m - (1 + s) + 1
      BY <1>2, <1>5, FS_Interval
    <3> QED BY <1>2, <1>5, <1>6, <3>1
  <2> HIDE DEF count, run
  <2> QED BY <1>2, <1>5, <1>6, <2>1
<1>8. s + count <= c
  <2> HIDE DEF count, run
  <2>1. count # 0 => s + count \in 1 + s .. s + count
    BY <1>5, <1>7
  <2>2. count # 0 => s + count \in 1 + s .. m
    BY <1>6, <1>7, <2>1
  <2> QED BY <1>2, <1>5, <1>7, <2>2
<1>9. CompleteSymbols(q, limit) = [syms |-> f, truncated |-> shown < count]
  <2> DEFINE list  == NameList
             place == [i \in DOMAIN list |-> Place(list[i], NameOrder)]
             start == 1 + Cardinality({i \in DOMAIN list : place[i] < q[1]})
             r     == {i \in start .. Len(list) : \A j \in start .. i : place[j] <= q[2]}
  <2>1. DOMAIN list = 1 .. c /\ Len(list) = c /\ \A i \in 1 .. c : list[i] = NameOrder[o[i]]
    BY <1>2
  <2>2. place = [i \in 1 .. c |-> o[i]]
    <3> HIDE DEF list
    <3> QED BY <1>1, <1>4, <2>1
  <2>3. \A i \in 1 .. c : place[i] = o[i]
    <3> HIDE DEF place
    <3> QED BY <2>2
  <2> HIDE DEF place
  <2>4. start = 1 + s
    <3>1. {i \in DOMAIN list : place[i] < q[1]} = {i \in 1 .. c : o[i] < q[1]}
      <4> HIDE DEF list
      <4> QED BY <2>1, <2>3
    <3> QED BY <3>1 DEF s
  <2> HIDE DEF start
  <2>5. r = run
    <3> HIDE DEF list
    <3> QED BY <1>2, <1>5, <2>1, <2>3, <2>4
  <2> DEFINE sh == IF limit > 0 /\ Cardinality(r) > limit THEN limit ELSE Cardinality(r)
             g  == [i \in 1 .. sh |-> [name |-> list[start + i - 1],
                                       ref  |-> PrimaryRef(byName[list[start + i - 1]])]]
  <2>6. CompleteSymbols(q, limit) = [syms |-> g, truncated |-> sh < Cardinality(r)]
    BY DEF CompleteSymbols, start, place
  <2> HIDE DEF r, run
  <2>7. sh = shown /\ Cardinality(r) = count
    BY <2>5
  <2>8. shown \in Nat /\ shown <= count
    BY <1>7
  <2> HIDE DEF shown, sh, count, list
  <2>9. \A i \in 1 .. shown : start + i - 1 = s + i /\ s + i \in 1 .. c
    BY <1>2, <1>5, <1>7, <1>8, <2>4, <2>8
  <2>10. \A i \in 1 .. shown : elem[s + i] = [name |-> list[start + i - 1],
                                              ref  |-> PrimaryRef(byName[list[start + i - 1]])]
    BY <2>1, <2>9
  <2>11. g = f
    <3> HIDE DEF elem
    <3> QED BY <2>7, <2>10
  <2> HIDE DEF g, f
  <2> QED BY <2>6, <2>7, <2>11
<1>10. \A i \in 1 .. c : elem[i] = prim(o[i]) /\ elem[i] \in Sym /\ Place(elem[i].name, NameOrder) = o[i]
  <2> SUFFICES ASSUME NEW i \in 1 .. c
               PROVE  elem[i] = prim(o[i]) /\ elem[i] \in Sym /\ Place(elem[i].name, NameOrder) = o[i]
    OBVIOUS
  <2>1. byName[NameOrder[o[i]]] # <<>> /\ NameOrder[o[i]] \in Names
    BY <1>1, <1>4
  <2>2. elem[i] = [name |-> NameOrder[o[i]], ref |-> PrimaryRef(byName[NameOrder[o[i]]])]
    OBVIOUS
  <2>3. elem[i] = prim(o[i]) /\ elem[i] \in Sym
    BY <2>1, <2>2, PrimaryIs
  <2> QED BY <1>1, <1>4, <2>2, <2>3
<1>11. \A j : j \in T <=> j \in P /\ q[1] <= j /\ j <= q[2]
  <2>1. \A j \in 1 .. L : DeclarationsOf(NameOrder[j]) # {} <=> byName[NameOrder[j]] # <<>>
    BY <1>1, PrimaryIs
  <2>2. \A j : j \in q[1] .. q[2] => j \in 1 .. L
    BY <1>1
  <2>3. \A j \in P : j \in q[1] .. q[2] <=> q[1] <= j /\ j <= q[2]
    BY <1>1, <1>2
  <2> QED BY <2>1, <2>2, <2>3
<1>12. S = {elem[i] : i \in run}
  <2>1. \A i \in run : i \in 1 .. c /\ o[i] \in T
    <3> SUFFICES ASSUME NEW i \in run PROVE i \in 1 .. c /\ o[i] \in T
      OBVIOUS
    <3>1. i \in 1 .. c /\ ~(i <= s) /\ i <= m
      <4> HIDE DEF run
      <4>1. i \in 1 + s .. m
        BY <1>6
      <4> QED BY <1>2, <1>5, <4>1
    <3>2. ~(o[i] < q[1]) /\ o[i] <= q[2] /\ o[i] \in P /\ o[i] \in 1 .. L
      BY <1>4, <1>5, <3>1
    <3>3. q[1] <= o[i]
      BY <1>1, <3>2
    <3> HIDE DEF T, P
    <3> QED BY <1>11, <3>1, <3>2, <3>3
  <2>2. \A j \in T : \E i \in run : o[i] = j
    <3> SUFFICES ASSUME NEW j \in T PROVE \E i \in run : o[i] = j
      OBVIOUS
    <3>1. j \in P /\ q[1] <= j /\ j <= q[2]
      BY <1>11
    <3>2. PICK i \in 1 .. c : o[i] = j
      BY <1>3, <3>1
    <3>3. ~(j < q[1])
      BY <1>1, <1>4, <3>1, <3>2
    <3>4. ~(i <= s) /\ i <= m
      BY <1>5, <3>1, <3>2, <3>3
    <3> QED BY <1>2, <1>5, <1>6, <3>2, <3>4
  <2> HIDE DEF run, elem, T, prim
  <2>3. \A i \in run : elem[i] = prim(o[i])
    BY <1>10, <2>1
  <2> QED BY <2>1, <2>2, <2>3
<1>13. \A i, j \in 1 .. c : i < j => Before(elem[i], elem[j])
  <2> HIDE DEF elem
  <2> QED BY <1>3, <1>10 DEF Before
<1> HIDE DEF elem, S, T, P, prim
<1>14. \A i \in 1 .. count : s + i \in run /\ s + i \in 1 .. c
  <2> HIDE DEF run, count
  <2> QED BY <1>2, <1>5, <1>7, <1>8
<1>15. \A b \in S : \E i \in 1 .. count : elem[s + i] = b
  <2> HIDE DEF run, count
  <2> SUFFICES ASSUME NEW b \in S PROVE \E i \in 1 .. count : elem[s + i] = b
    OBVIOUS
  <2>1. PICK i \in run : elem[i] = b
    BY <1>12
  <2>2. i - s \in 1 .. count /\ s + (i - s) = i
    BY <1>2, <1>5, <1>7, <2>1
  <2> QED BY <2>1, <2>2
<1> HIDE DEF run, count
<1>16. \A i \in 1 .. count : elem[s + i] \in S /\ elem[s + i] \in Sym
  BY <1>10, <1>12, <1>14
<1>17. \A i, j \in 1 .. count : i < j => Before(elem[s + i], elem[s + j])
  BY <1>2, <1>5, <1>7, <1>13, <1>14
<1>18. S \in SUBSET Sym
  BY <1>15, <1>16
<1>19. IsFiniteSet(S) /\ Cardinality(S) = count
  <2> DEFINE g == [i \in 1 .. count |-> elem[s + i]]
  <2>1. g \in [1 .. count -> S]
    BY <1>16
  <2>2. \A i, j \in 1 .. count : g[i] = g[j] => i = j
    <3> SUFFICES ASSUME NEW i \in 1 .. count, NEW j \in 1 .. count, g[i] = g[j] PROVE i = j
      OBVIOUS
    <3>1. elem[s + i] = elem[s + j] /\ elem[s + i] \in Sym
      BY <1>16
    <3>2. ~Before(elem[s + i], elem[s + j]) /\ ~Before(elem[s + j], elem[s + i])
      BY <3>1, BeforeOrders
    <3> QED BY <1>7, <1>17, <3>2
  <2>3. \A b \in S : \E i \in 1 .. count : g[i] = b
    BY <1>15
  <2>4. g \in Bijection(1 .. count, S)
    <3> HIDE DEF g
    <3> QED BY <2>1, <2>2, <2>3 DEF Bijection, Injection, Surjection, IsInjective
  <2>5. ExistsBijection(1 .. count, S)
    BY <2>4 DEF ExistsBijection
  <2>6. IsFiniteSet(1 .. count)
    BY <1>7, FS_Interval
  <2>7. IsFiniteSet(S)
    BY <2>5, <2>6, FS_Bijection
  <2> QED BY <1>7, <2>5, <2>7, FS_CountingElements
<1>20. /\ shown \in Nat /\ shown <= count
       /\ shown = IF limit = 0 \/ Cardinality(S) < limit THEN Cardinality(S) ELSE limit
  BY <1>7, <1>19
<1> HIDE DEF shown
<1>21. FrontOf(f, shown, S)
  <2>1. \A i \in 1 .. shown : i \in 1 .. count /\ f[i] = elem[s + i]
    BY <1>7, <1>20
  <2>2. f \in [1 .. shown -> S]
    BY <1>16, <2>1
  <2> HIDE DEF f
  <2>3. \A i, j \in 1 .. shown : i < j => Before(f[i], f[j])
    BY <1>17, <2>1
  <2>4. ASSUME NEW b \in S PROVE (\E i \in 1 .. shown : f[i] = b) \/ (\A i \in 1 .. shown : Before(f[i], b))
    <3>1. PICK k \in 1 .. count : elem[s + k] = b
      BY <1>15
    <3>2. CASE k <= shown
      BY <1>20, <2>1, <3>1, <3>2
    <3>3. CASE ~(k <= shown)
      <4>1. \A i \in 1 .. shown : i < k
        BY <1>20, <3>3
      <4> QED BY <1>17, <2>1, <3>1, <4>1
    <3> QED BY <3>2, <3>3
  <2> QED BY <2>2, <2>3, <2>4 DEF FrontOf
<1>22. FirstOf(S, limit) = [syms |-> f, truncated |-> shown < Cardinality(S)]
  <2> HIDE DEF f
  <2> QED BY <1>18, <1>19, <1>20, <1>21, FirstIs
<1>23. CompleteSymbols(q, limit) = FirstOf(S, limit)
  <2> HIDE DEF f
  <2> QED BY <1>9, <1>19, <1>22
<1> QED BY <1>23 DEF S, T, prim

LEMMA Exactly == ASSUME ByInv PROVE SymbolsExact
<1> SUFFICES ASSUME NEW limit \in Limits
             PROVE  /\ \A q \in TypedPrefixes :
                         CompleteSymbols(q, limit) =
                           FirstOf({FirstOf(DeclarationsOf(NameOrder[i]), 1).syms[1] :
                                          i \in {j \in q[1] .. q[2] : DeclarationsOf(NameOrder[j]) # {}}}, limit)
                    /\ \A Q \in PickerQueries : \A order \in SetToSeqs(Q) :
                         WorkspaceSymbols(order, limit) = FirstOf(UNION {DeclarationsOf(n) : n \in Q}, limit)
  BY DEF SymbolsExact
<1>1. limit \in Nat
  BY SymbolAssumption
<1>2. ASSUME NEW q \in TypedPrefixes
      PROVE  CompleteSymbols(q, limit) =
               FirstOf({FirstOf(DeclarationsOf(NameOrder[i]), 1).syms[1] :
                              i \in {j \in q[1] .. q[2] : DeclarationsOf(NameOrder[j]) # {}}}, limit)
  <2>1. q \in (1 .. Len(NameOrder) + 1) \X (0 .. Len(NameOrder))
    BY SymbolAssumption
  <2> QED BY <1>1, <2>1, CompletionExact
<1>3. ASSUME NEW Q \in PickerQueries, NEW order \in SetToSeqs(Q)
      PROVE  WorkspaceSymbols(order, limit) = FirstOf(UNION {DeclarationsOf(n) : n \in Q}, limit)
  <2>1. Q \in SUBSET Names
    BY SymbolAssumption
  <2> QED BY <1>1, <2>1, PickerExact
<1> QED BY <1>2, <1>3

(* Completion and the symbol picker show the front of what is declared and  *)
(* say exactly when there is more (CompleteSymbols, WorkspaceSymbols,       *)
(* topk.go), for any limit and any number of declarations.                  *)
THEOREM SymbolsFront == Spec => []SymbolsExact
<1>1. ByInv => SymbolsExact
  BY Exactly
<1> QED BY <1>1, ByNameInvariant, PTL
=============================================================================
