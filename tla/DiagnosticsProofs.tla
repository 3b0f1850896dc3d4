-------------------------- MODULE DiagnosticsProofs --------------------------
(***************************************************************************)
(* EditorShowsIndex and NoRepeats (diagnostics.go) for any number of publishers, files and  *)
(* lists.  Neither is inductive: Tracked adds what holds of the one        *)
(* publisher that may be at work on a file nobody raced for -- the list in *)
(* its hands is the index's, the record agrees with the editor until it    *)
(* sends, and with the index once it has recorded.                         *)
(***************************************************************************)
EXTENDS Diagnostics, TLAPS

At(p, u, where) == pc[p] \in where /\ uri[p] = u

Tracked(u) ==
    u \notin overlapped =>
        /\ \A p, q \in Publishers : Busy(p, u) /\ Busy(q, u) => p = q
        /\ \A p \in Publishers : ~(u \in todo[p] /\ At(p, u, {"compare", "notify"}))
        /\ \A p \in Publishers : At(p, u, {"compare", "notify"}) => list[p] = diags[u]
        /\ \A p \in Publishers :
              At(p, u, {"notify"}) => published[u] = list[p] /\ client[u] # list[p]
        /\ (\A p \in Publishers : ~At(p, u, {"notify"})) => client[u] = published[u]
        /\ Settled(u) => published[u] = diags[u]

IInv == TypeOK /\ \A u \in FileURIs : Tracked(u)

\* Every publisher's step keeps the types.
THEOREM TypeStep == TypeOK /\ [Next]_vars => TypeOK'
<1>. SUFFICES ASSUME TypeOK, [Next]_vars PROVE TypeOK'
  OBVIOUS
<1>. USE DiagnosticsAssumption DEF TypeOK
<1>1. ASSUME NEW p \in Publishers, Scan(p) PROVE TypeOK'
  BY <1>1 DEF Scan, Overlap
<1>2. ASSUME NEW p \in Publishers, NEW u \in URIs, Read(p, u) PROVE TypeOK'
  <2>1. CASE u \in FileURIs
    BY <1>2, <2>1 DEF Read
  <2>2. CASE u \notin FileURIs
    BY <1>2, <2>2 DEF Read
  <2>. QED  BY <2>1, <2>2
<1>3. ASSUME NEW p \in Publishers, Compare(p) PROVE TypeOK'
  BY <1>3 DEF Compare, Record, EndBody
<1>4. ASSUME NEW p \in Publishers, Notify(p) PROVE TypeOK'
  <2>1. uri[p] \in URIs /\ list[p] \in Lists
    BY <1>4 DEF Notify
  <2>2. client' \in [URIs -> Lists]
    BY <1>4, <2>1 DEF Notify
  <2>. QED  BY <1>4, <2>2 DEF Notify, EndBody
<1>5. ASSUME NEW p \in Publishers, Return(p) PROVE TypeOK'
  BY <1>5 DEF Return
<1>6. CASE UNCHANGED vars
  BY <1>6 DEF vars
<1>. QED  BY <1>1, <1>2, <1>3, <1>4, <1>5, <1>6 DEF Next, Publish

-------------------------------------------------------------------------------
\* Every step keeps what is said of a file nobody raced for: only the one
\* publisher that holds the file changes its record or what is shown.
THEOREM TrackedStep ==
  TypeOK /\ (\A u \in FileURIs : Tracked(u)) /\ [Next]_vars
      => \A u \in FileURIs : Tracked(u)'
<1>. SUFFICES ASSUME TypeOK, [Next]_vars, NEW v \in FileURIs, Tracked(v)
              PROVE  Tracked(v)'
  OBVIOUS
<1>0. v \in URIs /\ NoURI # v
  BY DiagnosticsAssumption
<1>1. ASSUME NEW p \in Publishers, Scan(p) PROVE Tracked(v)'
  <2>1. PICK touched \in (SUBSET URIs) \ {{}} : \E lists \in [touched -> Lists] :
          /\ diags' = [u \in URIs |-> IF u \in touched THEN lists[u] ELSE diags[u]]
          /\ todo' = [todo EXCEPT ![p] = touched]
          /\ overlapped' = Overlap(touched)
    BY <1>1 DEF Scan
  <2>2. /\ pc' = [pc EXCEPT ![p] = "next"] /\ pc[p] = "idle" /\ todo[p] = {}
        /\ uri' = uri /\ list' = list /\ published' = published /\ client' = client
    BY <1>1 DEF Scan, TypeOK
  <2>3. \A q \in Publishers : q # p => pc'[q] = pc[q] /\ todo'[q] = todo[q]
    BY <2>1, <2>2 DEF TypeOK
  <2>4. pc'[p] = "next" /\ todo'[p] = touched
    BY <2>1, <2>2 DEF TypeOK
  <2>5. CASE v \notin touched
    <3>1. diags'[v] = diags[v] /\ (v \in overlapped' <=> v \in overlapped)
      BY <1>0, <2>1, <2>5 DEF Overlap, TypeOK
    <3>. QED  BY <2>2, <2>3, <2>4, <2>5, <3>1 DEF Tracked, Settled, Busy, At
  <2>6. CASE v \in touched /\ v \notin overlapped'
    <3>1. Settled(v) /\ (v \notin overlapped \/ client[v] = published[v])
      BY <2>1, <2>6 DEF Overlap, TypeOK
    <3>2. \A q \in Publishers : v \notin todo[q] /\ ~At(q, v, {"compare", "notify"})
      BY <3>1 DEF Settled, Busy, At
    <3>3. client[v] = published[v]
      BY <3>1, <3>2 DEF Tracked, At
    <3>4. \A q \in Publishers : ~At(q, v, {"compare", "notify"})'
      BY <2>2, <2>3, <2>4, <3>2 DEF At
    <3>5. \A q \in Publishers : v \in todo'[q] => q = p
      BY <2>3, <3>2
    <3>6. ~Settled(v)'
      BY <2>4, <2>6 DEF Settled, Busy
    <3>. QED  BY <2>2, <2>3, <2>4, <2>6, <3>3, <3>4, <3>5, <3>6 DEF Tracked, Busy, At
  <2>7. CASE v \in overlapped'
    BY <2>7 DEF Tracked
  <2>. QED  BY <2>5, <2>6, <2>7
<1>2. ASSUME NEW p \in Publishers, NEW u \in URIs, Read(p, u) PROVE Tracked(v)'
  <2>1. /\ pc[p] = "next" /\ u \in todo[p] /\ todo' = [todo EXCEPT ![p] = @ \ {u}]
        /\ diags' = diags /\ published' = published /\ client' = client
        /\ overlapped' = overlapped
    BY <1>2 DEF Read
  <2>2. todo'[p] = todo[p] \ {u} /\ \A q \in Publishers : q # p => todo'[q] = todo[q]
    BY <2>1 DEF TypeOK
  <2>3. CASE u \in FileURIs
    <3>1. pc'[p] = "compare" /\ uri'[p] = u /\ list'[p] = diags[u]
      BY <1>2, <2>3 DEF Read, TypeOK
    <3>2. \A q \in Publishers :
             q # p => pc'[q] = pc[q] /\ uri'[q] = uri[q] /\ list'[q] = list[q]
      BY <1>2, <2>3 DEF Read, TypeOK
    <3>3. \A q \in Publishers : Busy(q, v)' <=> Busy(q, v)
      BY <2>1, <2>2, <3>1, <3>2 DEF Busy
    <3>4. Settled(v)' <=> Settled(v)
      BY <3>3 DEF Settled
    <3>5. \A q \in Publishers : At(q, v, {"notify"})' <=> At(q, v, {"notify"})
      BY <2>1, <3>1, <3>2 DEF At
    <3>. QED  BY <2>1, <2>2, <3>1, <3>2, <3>3, <3>4, <3>5 DEF Tracked, At, Busy
  <2>4. CASE u \notin FileURIs
    <3>1. u # v /\ pc' = pc /\ uri' = uri /\ list' = list
      BY <1>2, <2>4 DEF Read
    <3>2. \A q \in Publishers : v \in todo'[q] <=> v \in todo[q]
      BY <2>2, <3>1
    <3>. QED  BY <2>1, <3>1, <3>2 DEF Tracked, Settled, Busy, At
  <2>. QED  BY <2>3, <2>4
<1>3. ASSUME NEW p \in Publishers, Compare(p) \/ Notify(p) PROVE Tracked(v)'
  <2>1. diags' = diags /\ todo' = todo /\ overlapped' = overlapped
    BY <1>3 DEF Compare, Notify, Record
  <2>2. \A q \in Publishers :
           q # p => pc'[q] = pc[q] /\ uri'[q] = uri[q] /\ list'[q] = list[q]
    BY <1>3 DEF Compare, Notify, Record, EndBody, TypeOK
  <2>3. CASE uri[p] # v
    <3>1. published'[v] = published[v] /\ client'[v] = client[v]
      BY <1>0, <1>3, <2>3 DEF Compare, Notify, Record, TypeOK
    <3>2. uri'[p] # v
      BY <1>0, <1>3, <2>3 DEF Compare, Notify, Record, EndBody, TypeOK
    <3>. QED  BY <2>1, <2>2, <2>3, <3>1, <3>2 DEF Tracked, Settled, Busy, At
  <2>4. CASE uri[p] = v /\ v \notin overlapped
    <3>1. /\ \A q \in Publishers : v \notin todo[q]
          /\ \A q \in Publishers : q # p => ~At(q, v, {"compare", "notify"})
          /\ list[p] = diags[v]
      BY <1>3, <2>4 DEF Compare, Notify, Record, Tracked, Busy, At
    <3>2. CASE Notify(p)
      <4>1. published[v] = diags[v]
        BY <2>4, <3>1, <3>2 DEF Notify, Tracked, At
      <4>2. client'[v] = diags[v] /\ published'[v] = diags'[v] /\ pc'[p] = "next"
        BY <1>0, <2>1, <2>4, <3>1, <3>2, <4>1 DEF Notify, EndBody, TypeOK
      <4>. QED  BY <2>1, <2>2, <3>1, <4>1, <4>2 DEF Tracked, Busy, At
    <3>3. CASE Compare(p)
      <4>1. published'[v] = diags[v] /\ client' = client /\ client[v] = published[v]
        <5>1. \A q \in Publishers : ~At(q, v, {"notify"})
          BY <3>1, <3>3 DEF Compare, Record, At
        <5>. QED  BY <1>0, <2>4, <3>1, <3>3, <5>1 DEF Compare, Record, Tracked, TypeOK
      <4>2. CASE list[p] = published[v]
        <5>1. pc'[p] = "next"
          BY <2>4, <3>3, <4>2 DEF Compare, Record, EndBody, TypeOK
        <5>. QED  BY <2>1, <2>2, <3>1, <4>1, <4>2, <5>1 DEF Tracked, Busy, At
      <4>3. CASE list[p] # published[v]
        <5>1. pc'[p] = "notify" /\ uri'[p] = v /\ list'[p] = diags[v]
          BY <2>4, <3>1, <3>3, <4>3 DEF Compare, Record, TypeOK
        <5>2. ~Settled(v)'
          BY <5>1 DEF Settled, Busy
        <5>. QED  BY <2>1, <2>2, <3>1, <4>1, <4>3, <5>1, <5>2 DEF Tracked, Busy, At
      <4>. QED  BY <4>2, <4>3
    <3>. QED  BY <1>3, <3>2, <3>3
  <2>5. CASE v \in overlapped
    BY <2>1, <2>5 DEF Tracked
  <2>. QED  BY <2>3, <2>4, <2>5
<1>4. ASSUME NEW p \in Publishers, Return(p) PROVE Tracked(v)'
  <2>1. /\ pc[p] = "next" /\ pc'[p] = "idle"
        /\ \A q \in Publishers : q # p => pc'[q] = pc[q]
    BY <1>4 DEF Return, TypeOK
  <2>. QED  BY <1>4, <2>1 DEF Return, Tracked, Settled, Busy, At
<1>5. CASE UNCHANGED vars
  BY <1>5 DEF vars, Tracked, Settled, Busy, At
<1>. QED  BY <1>1, <1>2, <1>3, <1>4, <1>5 DEF Next, Publish

\* Until two publishers of a file overlap, its published list trails its
\* diagnostics only while a publisher of that file is at work.
THEOREM IInvariant == Spec => []IInv
<1>1. Init => IInv
  <2>1. Init => TypeOK
    BY DiagnosticsAssumption DEF Init, TypeOK
  <2>2. Init => \A u \in FileURIs : Tracked(u)
    BY DiagnosticsAssumption DEF Init, Tracked, Settled, Busy, At
  <2>. QED  BY <2>1, <2>2 DEF IInv
<1>2. IInv /\ [Next]_vars => IInv'
  BY TypeStep, TrackedStep DEF IInv
<1>. QED  BY <1>1, <1>2, PTL DEF Spec

\* What publishDiagnostics leaves in the editor: the index's lists, for the
\* files that no two publishers were at work on together.
THEOREM ShowsIndex == Spec => []EditorShowsIndex
<1>1. IInv => EditorShowsIndex
  BY DEF IInv, Tracked, EditorShowsIndex, Settled, Busy, At
<1>. QED  BY <1>1, IInvariant, PTL

\* diagnosticsChanged lets no repeat through, but for the same races.
THEOREM SendsNoRepeat == Spec => []NoRepeats
<1>1. IInv => NoRepeats
  <2>. SUFFICES ASSUME IInv, NEW p \in Publishers, pc[p] = "notify",
                       uri[p] \notin overlapped
                PROVE  client[uri[p]] # list[p]
    BY DEF NoRepeats
  <2>1. uri[p] \in FileURIs
    BY DEF IInv, TypeOK
  <2>. QED  BY <2>1 DEF IInv, Tracked, At
<1>. QED  BY <1>1, IInvariant, PTL
==============================================================================
