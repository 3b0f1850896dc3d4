--------------------------- MODULE BufferSyncProofs ---------------------------
(***************************************************************************)
(* What scanOpenBuffer promises, for any number of files, goroutines and   *)
(* edits: OpenOccurrences is an invariant.  It is not inductive: between   *)
(* an edit and the end of the jobs the index may lag behind the buffer.    *)
(* Converging says what makes up for it -- a lagging entry always has a    *)
(* job at work that has yet to install its text, or that installed an      *)
(* older version and has yet to look at the store again.                   *)
(*                                                                         *)
(* ClosedOccurrences is one too.  Settling carries it: on a closed file no *)
(* two jobs meet unless that is on record as a race, so the one at work is *)
(* alone, and it has yet to read the disk or holds what is there now.  A   *)
(* write it comes too early for leaves an event, and the event is excused. *)
(***************************************************************************)
EXTENDS BufferSync, TLAPS

\* A version is older than the count of edits, so it stays within the bound.
VersionsBounded == \A u \in URIs : Open(u) => docs[u].version < edits

\* The steps a job takes follow from where its text comes from.
Stages ==
    \A a \in Actors :
        /\ ~Idle(a) => job[a].uri \in URIs
        /\ pc[a] \in {"read", "remove"} => job[a].source # "buffer"
        /\ pc[a] = "recheck" => a \in Tasks /\ job[a].source = "buffer"

\* The jobs on an open file all carry its text, past or present.
Carries(a, u) ==
    /\ job[a].source = "buffer"
    /\ job[a].version <= docs[u].version
    /\ job[a].version = docs[u].version => job[a].text = docs[u].text
    /\ a = Handler => job[a].version = docs[u].version

WillCatchUp(a, u) == pc[a] # "recheck" \/ job[a].version # docs[u].version

Converges(u) ==
    Open(u) /\ u \notin raced =>
        /\ \A a \in Working(u) : Carries(a, u)
        /\ occs[u] = docs[u].text \/ \E a \in Working(u) : WillCatchUp(a, u)

Converging == \A u \in URIs : Converges(u)

Typed == TypeOK /\ VersionsBounded /\ Stages

-------------------------------------------------------------------------------
\* The records the actors build are jobs.
LEMMA EmptyJob == NoJob \in Jobs /\ NoJob.uri = NoURI /\ NoJob.source = "none"
BY BufferSyncAssumption DEF NoJob, Jobs

LEMMA ReadingJob ==
  ASSUME NEW u \in URIs, NEW kind \in {"close", "rescan", "sync", "stale"}
  PROVE  /\ Reading(u, kind) \in Jobs
         /\ Reading(u, kind) # NoJob
         /\ Reading(u, kind).uri = u
         /\ Reading(u, kind).source = kind
BY EmptyJob, BufferSyncAssumption DEF Reading, Jobs

LEMMA HoldingJob ==
  ASSUME NEW u \in URIs,
         NEW doc \in [version : 0 .. MaxEdits, text : BufferTexts \union {None}]
  PROVE  /\ Holding(u, doc) \in Jobs
         /\ Holding(u, doc) # NoJob
         /\ Holding(u, doc).uri = u
         /\ Holding(u, doc).source = "buffer"
         /\ Holding(u, doc).version = doc.version
         /\ Holding(u, doc).text = doc.text
BY EmptyJob, BufferSyncAssumption DEF Holding, Jobs, Texts

-------------------------------------------------------------------------------
\* Moving one actor keeps the types of pc and job, and Stages.
Moved(a, at, j) ==
    /\ at \in {"idle", "read", "scan", "recheck", "remove"}
    /\ j \in Jobs
    /\ at = "idle" <=> j = NoJob
    /\ at # "idle" => j.uri \in URIs
    /\ at \in {"read", "remove"} => j.source # "buffer"
    /\ at = "recheck" => a \in Tasks /\ j.source = "buffer"

ActorsOK ==
    /\ pc \in [Actors -> {"idle", "read", "scan", "recheck", "remove"}]
    /\ job \in [Actors -> Jobs]
    /\ \A a \in Actors : Idle(a) <=> job[a] = NoJob
    /\ Stages

LEMMA BeginStep ==
  ASSUME ActorsOK, NEW a \in Actors, NEW at, NEW j, Moved(a, at, j), Begin(a, at, j)
  PROVE  ActorsOK'
BY DEF ActorsOK, Moved, Begin, Stages, Idle

LEMMA FinishStep ==
  ASSUME ActorsOK, NEW a \in Actors, Finish(a)
  PROVE  ActorsOK'
BY BeginStep, EmptyJob DEF Finish, Moved

\* What the documents, the index, the disk and the counters keep.
StoreOK ==
    /\ disk \in [URIs -> DiskTexts \union {Gone}]
    /\ docs \in [URIs -> [version : 0 .. MaxEdits, text : BufferTexts \union {None}]]
    /\ occs \in [URIs -> Texts \union {None}]
    /\ pending \subseteq URIs /\ listed \subseteq URIs /\ prev \subseteq URIs
    /\ edits \in 0 .. MaxEdits /\ writes \in 0 .. MaxWrites
    /\ raced \subseteq URIs
    /\ VersionsBounded

LEMMA TypedParts == Typed <=> StoreOK /\ ActorsOK
BY DEF Typed, TypeOK, StoreOK, ActorsOK

\* A buffer text made by the next edit, at a version within the bound.
LEMMA NewDoc ==
  ASSUME StoreOK, edits < MaxEdits, NEW v \in Nat, v <= edits
  PROVE  /\ [version |-> v, text |-> <<"buffer", edits + 1>>]
                \in [version : 0 .. MaxEdits, text : BufferTexts \union {None}]
         /\ edits + 1 \in 0 .. MaxEdits
<1>1. edits + 1 \in 1 .. MaxEdits /\ v \in 0 .. MaxEdits
  BY BufferSyncAssumption DEF StoreOK
<1>2. <<"buffer", edits + 1>> \in BufferTexts
  BY <1>1 DEF BufferTexts
<1>. QED  BY <1>1, <1>2

\* Whatever the client, the handlers and the rescans do next, the document store
\* and the actors keep their shape, and no version is ahead of its edits.
THEOREM TypedStep == Typed /\ [Next]_vars => Typed'
<1>. SUFFICES ASSUME StoreOK, ActorsOK, [Next]_vars PROVE StoreOK' /\ ActorsOK'
  BY TypedParts, PTL
<1>. USE DEF files
<1>1. ASSUME NEW u \in URIs, DidOpen(u) PROVE StoreOK' /\ ActorsOK'
  <2>. DEFINE doc == [version |-> 0, text |-> <<"buffer", edits + 1>>]
  <2>1. doc \in [version : 0 .. MaxEdits, text : BufferTexts \union {None}]
        /\ edits + 1 \in 0 .. MaxEdits
    <3>1. edits < MaxEdits
      BY <1>1 DEF DidOpen
    <3>2. 0 \in Nat /\ 0 <= edits
      BY BufferSyncAssumption DEF StoreOK
    <3>. QED  BY <3>1, <3>2, NewDoc
  <2>2. ActorsOK'
    <3>1. Moved(Handler, "scan", Holding(u, doc))
      BY <2>1, HoldingJob DEF Moved
    <3>. QED  BY <1>1, <3>1, BeginStep DEF DidOpen, Actors
  <2>3. StoreOK'
    BY <1>1, <2>1, BufferSyncAssumption DEF DidOpen, StoreOK, VersionsBounded, Open
  <2>. QED  BY <2>2, <2>3
<1>2. ASSUME NEW u \in URIs, DidChange(u) PROVE StoreOK' /\ ActorsOK'
  <2>. DEFINE doc == [version |-> docs[u].version + 1, text |-> <<"buffer", edits + 1>>]
  <2>1. docs[u].version \in Nat /\ docs[u].version + 1 \in Nat
        /\ docs[u].version + 1 <= edits
    BY <1>2, BufferSyncAssumption DEF DidChange, StoreOK, VersionsBounded
  <2>2. doc \in [version : 0 .. MaxEdits, text : BufferTexts \union {None}]
        /\ edits + 1 \in 0 .. MaxEdits
    BY <1>2, <2>1, NewDoc DEF DidChange
  <2>3. ActorsOK'
    <3>1. Moved(Handler, "scan", Holding(u, doc))
      BY <2>2, HoldingJob DEF Moved
    <3>. QED  BY <1>2, <3>1, BeginStep DEF DidChange, Actors
  <2>4. StoreOK'
    BY <1>2, <2>1, <2>2, BufferSyncAssumption
    DEF DidChange, StoreOK, VersionsBounded, Open, Joined
  <2>. QED  BY <2>3, <2>4
<1>3. ASSUME NEW u \in URIs, DidClose(u) PROVE StoreOK' /\ ActorsOK'
  <2>1. ActorsOK'
    <3>1. Moved(Handler, "read", Reading(u, "close"))
      BY ReadingJob DEF Moved
    <3>. QED  BY <1>3, <3>1, BeginStep DEF DidClose, Actors
  <2>2. NotOpen \in [version : 0 .. MaxEdits, text : BufferTexts \union {None}]
    BY BufferSyncAssumption DEF NotOpen
  <2>3. StoreOK'
    BY <1>3, <2>2 DEF DidClose, StoreOK, VersionsBounded, Open, Joined
  <2>. QED  BY <2>1, <2>3
<1>4. ASSUME NEW t \in Tasks, NEW u \in URIs, StartRescan(t, u)
      PROVE  StoreOK' /\ ActorsOK'
  <2>1. CASE Open(u)
    <3>1. Moved(t, "scan", Holding(u, docs[u]))
      BY HoldingJob DEF Moved, StoreOK
    <3>. QED  BY <1>4, <2>1, <3>1, BeginStep
              DEF StartRescan, Actors, StoreOK, VersionsBounded, Open, Joined
  <2>2. CASE ~Open(u)
    <3>1. Moved(t, "read", Reading(u, "rescan"))
      BY ReadingJob DEF Moved
    <3>. QED  BY <1>4, <2>2, <3>1, BeginStep
              DEF StartRescan, Actors, StoreOK, VersionsBounded, Open, Joined
  <2>. QED  BY <2>1, <2>2
<1>5. ASSUME NEW t \in Tasks, NEW u \in URIs, StartSync(t, u)
      PROVE  StoreOK' /\ ActorsOK'
  <2>1. CASE Open(u)
    BY <1>5, <2>1 DEF StartSync, StoreOK, VersionsBounded, Open, ActorsOK, Stages, Idle
  <2>2. CASE ~Open(u)
    <3>1. Moved(t, "read", Reading(u, "sync"))
      BY ReadingJob DEF Moved
    <3>. QED  BY <1>5, <2>2, <3>1, BeginStep
              DEF StartSync, Actors, StoreOK, VersionsBounded, Open, Joined
  <2>. QED  BY <2>1, <2>2
<1>6. ASSUME NEW t \in Tasks, NEW u \in URIs, StartStale(t, u)
      PROVE  StoreOK' /\ ActorsOK'
  <2>1. CASE Open(u)
    BY <1>6, <2>1 DEF StartStale, StoreOK, VersionsBounded, Open, ActorsOK, Stages, Idle
  <2>2. CASE ~Open(u)
    <3>1. Moved(t, "remove", Reading(u, "stale"))
      BY ReadingJob DEF Moved
    <3>. QED  BY <1>6, <2>2, <3>1, BeginStep
              DEF StartStale, Actors, StoreOK, VersionsBounded, Open, Joined
  <2>. QED  BY <2>1, <2>2
<1>7. ASSUME NEW a \in Actors, ReadFile(a) PROVE StoreOK' /\ ActorsOK'
  <2>. DEFINE u == job[a].uri
  <2>1. u \in URIs /\ job[a] \in Jobs /\ u # NoURI /\ job[a].source # "buffer"
    BY <1>7, BufferSyncAssumption DEF ReadFile, ActorsOK, Stages, Idle
  <2>2. StoreOK'
    BY <1>7 DEF ReadFile, StoreOK, VersionsBounded, Open
  <2>3. CASE disk[u] # Gone
    <3>1. disk[u] \in Texts
      BY <2>1, <2>3 DEF StoreOK, Texts
    <3>2. /\ [job[a] EXCEPT !.text = disk[u]] \in Jobs
          /\ [job[a] EXCEPT !.text = disk[u]].uri = u
      BY <2>1, <3>1 DEF Jobs
    <3>3. Moved(a, "scan", [job[a] EXCEPT !.text = disk[u]])
      BY <2>1, <3>2, EmptyJob DEF Moved
    <3>. QED  BY <1>7, <2>2, <2>3, <3>3, BeginStep DEF ReadFile
  <2>4. CASE disk[u] = Gone /\ job[a].source = "sync"
    <3>1. Moved(a, "remove", job[a])
      BY <2>1, EmptyJob DEF Moved
    <3>. QED  BY <1>7, <2>2, <2>4, <3>1, BeginStep DEF ReadFile
  <2>5. CASE disk[u] = Gone /\ job[a].source # "sync"
    BY <1>7, <2>2, <2>5, FinishStep DEF ReadFile
  <2>. QED  BY <2>3, <2>4, <2>5
<1>8. ASSUME NEW a \in Actors, SetFile(a) PROVE StoreOK' /\ ActorsOK'
  <2>1. job[a].uri \in URIs /\ job[a] \in Jobs /\ job[a].text \in Texts \union {None}
    BY <1>8 DEF SetFile, ActorsOK, Stages, Idle, Jobs
  <2>2. ActorsOK'
    <3>1. CASE a \in Tasks /\ job[a].source = "buffer"
      <4>1. Moved(a, "recheck", job[a])
        BY <2>1, <3>1, EmptyJob, BufferSyncAssumption DEF Moved
      <4>. QED  BY <1>8, <3>1, <4>1, BeginStep DEF SetFile
    <3>2. CASE ~(a \in Tasks /\ job[a].source = "buffer")
      BY <1>8, <3>2, FinishStep DEF SetFile
    <3>. QED  BY <3>1, <3>2
  <2>. QED  BY <1>8, <2>1, <2>2 DEF SetFile, StoreOK, VersionsBounded, Open
<1>9. ASSUME NEW a \in Actors, Recheck(a) PROVE StoreOK' /\ ActorsOK'
  <2>. DEFINE u == job[a].uri
  <2>1. u \in URIs
    BY <1>9 DEF Recheck, ActorsOK, Stages, Idle
  <2>2. ActorsOK'
    <3>1. CASE ~Open(u) \/ docs[u].version = job[a].version
      BY <1>9, <3>1, FinishStep DEF Recheck
    <3>2. CASE ~(~Open(u) \/ docs[u].version = job[a].version)
      <4>1. Moved(a, "scan", Holding(u, docs[u]))
        BY <2>1, HoldingJob DEF Moved, StoreOK
      <4>. QED  BY <1>9, <3>2, <4>1, BeginStep DEF Recheck
    <3>. QED  BY <3>1, <3>2
  <2>. QED  BY <1>9, <2>2 DEF Recheck, StoreOK, VersionsBounded, Open
<1>10. ASSUME NEW a \in Actors, RemoveFile(a) PROVE StoreOK' /\ ActorsOK'
  BY <1>10, FinishStep DEF RemoveFile, StoreOK, VersionsBounded, Open
<1>11. ASSUME NEW u \in URIs, NEW x \in {<<"disk", writes + 1>>, Gone}, DiskChange(u, x)
       PROVE  StoreOK' /\ ActorsOK'
  <2>1. x \in DiskTexts \union {Gone} /\ writes + 1 \in 0 .. MaxWrites
    BY <1>11, BufferSyncAssumption DEF DiskChange, StoreOK, DiskTexts
  <2>. QED  BY <1>11, <2>1
            DEF DiskChange, StoreOK, VersionsBounded, Open, ActorsOK, Stages, Idle
<1>12. ASSUME NEW u \in URIs, Unlist(u) PROVE StoreOK' /\ ActorsOK'
  BY <1>12 DEF Unlist, StoreOK, VersionsBounded, Open, ActorsOK, Stages, Idle
<1>13. CASE UNCHANGED vars
  BY <1>13 DEF vars, StoreOK, VersionsBounded, Open, ActorsOK, Stages, Idle
<1>. QED
  BY <1>1, <1>2, <1>3, <1>4, <1>5, <1>6, <1>7, <1>8, <1>9, <1>10, <1>11,
     <1>12, <1>13 DEF Next, Client, Start, Step, World

\* The server starts with the store and the actors in that shape.
THEOREM TypedInit == Init => Typed
<1>. SUFFICES ASSUME Init PROVE StoreOK /\ ActorsOK
  BY TypedParts
<1>1. NotOpen \in [version : 0 .. MaxEdits, text : BufferTexts \union {None}]
  BY BufferSyncAssumption DEF NotOpen
<1>2. StoreOK
  BY <1>1, BufferSyncAssumption
  DEF Init, StoreOK, VersionsBounded, Open, DiskTexts, Texts
<1>3. ActorsOK
  BY EmptyJob DEF Init, ActorsOK, Stages, Idle
<1>. QED  BY <1>2, <1>3

\* The variables keep their types, and idle actors hold no job.
THEOREM TypeCorrect == Spec => []TypeOK
<1>1. Spec => []Typed
  BY TypedInit, TypedStep, PTL DEF Spec
<1>2. Typed => TypeOK
  BY DEF Typed
<1>. QED  BY <1>1, <1>2, PTL

-------------------------------------------------------------------------------
\* Whoever works on one file leaves what is said of another one alone.
LEMMA OtherFile ==
  ASSUME ActorsOK, NEW v \in URIs, Converges(v), NEW a \in Actors, NEW at, NEW j,
         Begin(a, at, j),
         Idle(a) \/ job[a].uri # v,
         at = "idle" \/ j.uri # v,
         docs'[v] = docs[v], occs'[v] = occs[v], v \in raced' <=> v \in raced
  PROVE  Converges(v)'
<1>1. \A b \in Actors : b \in Working(v)' <=> b \in Working(v)
  BY DEF Working, Begin, Idle, ActorsOK
<1>2. \A b \in Working(v) : b \in Actors /\ b # a /\ pc'[b] = pc[b] /\ job'[b] = job[b]
  BY DEF Working, Begin, Idle, ActorsOK
<1>4. Open(v)' <=> Open(v)
  BY DEF Open
<1>5. Working(v) = Working(v)'
  BY <1>1 DEF Working
<1>6. ASSUME Open(v)', v \notin raced'
      PROVE  /\ \A b \in Working(v)' : Carries(b, v)'
             /\ (occs[v] = docs[v].text)' \/ \E b \in Working(v)' : WillCatchUp(b, v)'
  <2>1. /\ \A b \in Working(v) : Carries(b, v)
        /\ occs[v] = docs[v].text \/ \E b \in Working(v) : WillCatchUp(b, v)
    BY <1>4, <1>6 DEF Converges
  <2>. QED  BY <1>2, <1>5, <2>1 DEF Carries, WillCatchUp
<1>. QED  BY <1>6 DEF Converges

\* While a document is behind its buffer, some handler or rescan at work on it
\* still carries the text that brings it up to date (server.go, index.go).
THEOREM ConvergingStep == Typed /\ Converging /\ [Next]_vars => Converging'
<1>. SUFFICES ASSUME StoreOK, ActorsOK, Converging, [Next]_vars, NEW v \in URIs
              PROVE  Converges(v)'
  BY TypedParts DEF Converging
<1>0. Converges(v)
  BY DEF Converging
<1>. USE DEF files
<1>1. ASSUME NEW u \in URIs, DidOpen(u) PROVE Converges(v)'
  <2>. DEFINE doc == [version |-> 0, text |-> <<"buffer", edits + 1>>]
  <2>0. 0 \in Nat /\ 0 <= edits /\ edits < MaxEdits
    BY <1>1, BufferSyncAssumption DEF DidOpen, StoreOK
  <2>1. doc \in [version : 0 .. MaxEdits, text : BufferTexts \union {None}]
    BY <2>0, NewDoc
  <2>2. Holding(u, doc).uri = u /\ Holding(u, doc).source = "buffer"
        /\ Holding(u, doc).version = 0 /\ Holding(u, doc).text = doc.text
    BY <2>1, HoldingJob
  <2>3. CASE u # v
    <3>1. docs'[v] = docs[v] /\ occs'[v] = occs[v] /\ (v \in raced' <=> v \in raced)
      BY <1>1, <2>3 DEF DidOpen, StoreOK
    <3>. QED  BY <1>0, <1>1, <2>2, <2>3, <3>1, OtherFile DEF DidOpen, Actors
  <2>4. CASE u = v /\ Working(u) # {}
    BY <1>1, <2>4 DEF DidOpen, Converges
  <2>5. CASE u = v /\ Working(u) = {}
    <3>1. pc' = [pc EXCEPT ![Handler] = "scan"]
          /\ job' = [job EXCEPT ![Handler] = Holding(u, doc)]
          /\ docs'[v] = doc
      BY <1>1, <2>5 DEF DidOpen, Begin, StoreOK
    <3>2. Working(v)' = {Handler}
      BY <2>2, <2>5, <3>1 DEF Working, Idle, ActorsOK, Actors
    <3>3. Carries(Handler, v)' /\ WillCatchUp(Handler, v)'
      BY <2>2, <3>1 DEF Carries, WillCatchUp, ActorsOK, Actors
    <3>. QED  BY <3>2, <3>3 DEF Converges
  <2>. QED  BY <2>3, <2>4, <2>5
<1>2. ASSUME NEW u \in URIs, DidChange(u) PROVE Converges(v)'
  <2>. DEFINE doc == [version |-> docs[u].version + 1, text |-> <<"buffer", edits + 1>>]
  <2>0. docs[u].version \in Nat /\ docs[u].version + 1 \in Nat
        /\ docs[u].version + 1 <= edits /\ edits < MaxEdits
    BY <1>2, BufferSyncAssumption DEF DidChange, StoreOK, VersionsBounded
  <2>1. doc \in [version : 0 .. MaxEdits, text : BufferTexts \union {None}]
    BY <2>0, NewDoc
  <2>2. Holding(u, doc).uri = u /\ Holding(u, doc).source = "buffer"
        /\ Holding(u, doc).version = doc.version /\ Holding(u, doc).text = doc.text
    BY <2>1, HoldingJob
  <2>3. CASE u # v
    <3>1. docs'[v] = docs[v] /\ occs'[v] = occs[v] /\ (v \in raced' <=> v \in raced)
      BY <1>2, <2>3 DEF DidChange, StoreOK, Joined
    <3>. QED  BY <1>0, <1>2, <2>2, <2>3, <3>1, OtherFile DEF DidChange, Actors
  <2>4. CASE u = v
    <3>1. pc' = [pc EXCEPT ![Handler] = "scan"]
          /\ job' = [job EXCEPT ![Handler] = Holding(u, doc)]
          /\ docs'[v] = doc /\ pc[Handler] = "idle" /\ Open(v)
      BY <1>2, <2>4 DEF DidChange, Begin, StoreOK, Idle
    <3>2. Working(v)' = Working(v) \union {Handler}
      BY <2>2, <2>4, <3>1 DEF Working, Idle, ActorsOK, Actors
    <3>3. /\ job'[Handler] = Holding(u, doc) /\ pc'[Handler] = "scan"
          /\ Carries(Handler, v)' /\ WillCatchUp(Handler, v)'
      BY <2>0, <2>2, <3>1 DEF Carries, WillCatchUp, ActorsOK, Actors
    <3>4. CASE Working(v) = {}
      BY <3>2, <3>3, <3>4 DEF Converges
    <3>5. CASE Working(v) # {} /\ v \notin raced'
      <4>1. v \notin raced
        BY <1>2, <2>4, <3>5 DEF DidChange, Joined
      <4>2. \A a \in Working(v) : Carries(a, v)
        BY <1>0, <3>1, <4>1 DEF Converges
      <4>3. ASSUME NEW a \in Working(v) PROVE Carries(a, v)'
        <5>1. a \in Actors /\ a # Handler /\ job'[a] = job[a] /\ job[a].version \in Nat
          BY <3>1, BufferSyncAssumption DEF Working, Idle, ActorsOK, Jobs
        <5>. QED  BY <2>0, <2>4, <3>1, <4>2, <5>1 DEF Carries
      <4>. QED  BY <3>2, <3>3, <4>3 DEF Converges
    <3>6. CASE v \in raced'
      BY <3>6 DEF Converges
    <3>. QED  BY <3>4, <3>5, <3>6
  <2>. QED  BY <2>3, <2>4
<1>3. ASSUME NEW u \in URIs, DidClose(u) PROVE Converges(v)'
  <2>1. CASE u = v
    BY <1>3, <2>1 DEF DidClose, Converges, Open, StoreOK
  <2>2. CASE u # v
    <3>1. docs'[v] = docs[v] /\ occs'[v] = occs[v] /\ (v \in raced' <=> v \in raced)
      BY <1>3, <2>2 DEF DidClose, StoreOK, Joined
    <3>. QED  BY <1>0, <1>3, <2>2, <3>1, OtherFile, ReadingJob DEF DidClose, Actors
  <2>. QED  BY <2>1, <2>2
<1>4. ASSUME NEW t \in Tasks, NEW u \in URIs, StartRescan(t, u) PROVE Converges(v)'
  <2>1. t \in Actors /\ t # Handler /\ Idle(t) /\ docs' = docs /\ occs' = occs
    BY <1>4, BufferSyncAssumption DEF StartRescan, Actors
  <2>2. CASE u # v /\ ~Open(u)
    <3>1. v \in raced' <=> v \in raced
      BY <1>4, <2>2 DEF StartRescan, Joined
    <3>2. Begin(t, "read", Reading(u, "rescan"))
      BY <1>4, <2>2 DEF StartRescan
    <3>. QED  BY <1>0, <2>1, <2>2, <3>1, <3>2, OtherFile, ReadingJob
  <2>3. CASE u = v /\ ~Open(u)
    BY <2>1, <2>3 DEF Converges, Open
  <2>4. CASE Open(u)
    <3>1. docs[u] \in [version : 0 .. MaxEdits, text : BufferTexts \union {None}]
      BY DEF StoreOK
    <3>2. /\ Holding(u, docs[u]).uri = u /\ Holding(u, docs[u]).source = "buffer"
          /\ Holding(u, docs[u]).version = docs[u].version
          /\ Holding(u, docs[u]).text = docs[u].text
      BY <3>1, HoldingJob
    <3>3. Begin(t, "scan", Holding(u, docs[u])) /\ raced' = Joined(u, "buffer")
      BY <1>4, <2>4 DEF StartRescan
    <3>4. CASE u # v
      <4>1. v \in raced' <=> v \in raced
        BY <3>3, <3>4 DEF Joined
      <4>. QED  BY <1>0, <2>1, <3>2, <3>3, <3>4, <4>1, OtherFile
    <3>5. CASE u = v
      <4>1. Working(v)' = Working(v) \union {t}
        BY <2>1, <3>2, <3>3, <3>5 DEF Working, Begin, Idle, ActorsOK
      <4>2. Carries(t, v)' /\ WillCatchUp(t, v)'
        <5>1. job'[t] = Holding(u, docs[u]) /\ pc'[t] = "scan"
          BY <2>1, <3>3 DEF Begin, ActorsOK
        <5>2. docs[u].version \in Nat
          BY <3>1
        <5>. QED  BY <2>1, <3>2, <3>5, <5>1, <5>2 DEF Carries, WillCatchUp
      <4>3. CASE Working(v) = {}
        BY <4>1, <4>2, <4>3 DEF Converges
      <4>4. CASE Working(v) # {} /\ v \notin raced'
        <5>1. v \notin raced
          BY <3>3, <3>5, <4>4 DEF Joined
        <5>2. \A a \in Working(v) : Carries(a, v)
          BY <1>0, <2>4, <3>5, <5>1 DEF Converges
        <5>3. \A a \in Working(v) : job'[a] = job[a] /\ pc'[a] = pc[a]
          BY <2>1, <3>3 DEF Working, Begin, ActorsOK
        <5>4. \A a \in Working(v)' : Carries(a, v)'
          BY <2>1, <4>1, <4>2, <5>2, <5>3 DEF Carries
        <5>. QED  BY <4>1, <4>2, <5>4 DEF Converges
      <4>5. CASE v \in raced'
        BY <4>5 DEF Converges
      <4>. QED  BY <4>3, <4>4, <4>5
    <3>. QED  BY <3>4, <3>5
  <2>. QED  BY <2>2, <2>3, <2>4
<1>5. ASSUME NEW t \in Tasks, NEW u \in URIs, StartSync(t, u) \/ StartStale(t, u)
      PROVE  Converges(v)'
  <2>1. docs' = docs /\ occs' = occs /\ t \in Actors /\ Idle(t)
    BY <1>5 DEF StartSync, StartStale, Actors
  <2>2. CASE Open(u)
    <3>1. pc' = pc /\ job' = job /\ raced' = raced
      BY <1>5, <2>2 DEF StartSync, StartStale
    <3>. QED  BY <1>0, <2>1, <3>1
              DEF Converges, Open, Working, Idle, Carries, WillCatchUp
  <2>3. CASE ~Open(u) /\ u # v
    <3>1. v \in raced' <=> v \in raced
      BY <1>5, <2>3 DEF StartSync, StartStale, Joined
    <3>2. \/ Begin(t, "read", Reading(u, "sync"))
          \/ Begin(t, "remove", Reading(u, "stale"))
      BY <1>5, <2>3 DEF StartSync, StartStale
    <3>. QED  BY <1>0, <2>1, <2>3, <3>1, <3>2, OtherFile, ReadingJob
  <2>4. CASE ~Open(u) /\ u = v
    BY <2>1, <2>4 DEF Converges, Open
  <2>. QED  BY <2>2, <2>3, <2>4
<1>6. ASSUME NEW a \in Actors, ReadFile(a) PROVE Converges(v)'
  <2>. DEFINE u == job[a].uri
  <2>1. /\ docs' = docs /\ occs' = occs /\ raced' = raced
        /\ ~Idle(a) /\ u \in URIs /\ job[a] \in Jobs
    BY <1>6 DEF ReadFile, ActorsOK, Stages, Idle
  <2>2. CASE u = v
    <3>1. a \in Working(v) /\ job[a].source # "buffer"
      BY <1>6, <2>1, <2>2 DEF ReadFile, Working, ActorsOK, Stages
    <3>. QED  BY <1>0, <2>1, <3>1 DEF Converges, Carries, Open
  <2>3. CASE u # v
    <3>1. [job[a] EXCEPT !.text = disk[u]].uri = u
      BY <2>1 DEF Jobs
    <3>2. \/ Begin(a, "scan", [job[a] EXCEPT !.text = disk[u]])
          \/ Begin(a, "remove", job[a])
          \/ Begin(a, "idle", NoJob)
      BY <1>6 DEF ReadFile, Finish
    <3>. QED  BY <1>0, <2>1, <2>3, <3>1, <3>2, OtherFile
  <2>. QED  BY <2>2, <2>3
<1>7. ASSUME NEW a \in Actors, SetFile(a) PROVE Converges(v)'
  <2>. DEFINE u == job[a].uri
  <2>1. /\ docs' = docs /\ raced' = raced /\ occs' = [occs EXCEPT ![u] = job[a].text]
        /\ ~Idle(a) /\ u \in URIs
    BY <1>7 DEF SetFile, ActorsOK, Stages, Idle
  <2>2. CASE u # v
    <3>1. Begin(a, "recheck", job[a]) \/ Begin(a, "idle", NoJob)
      BY <1>7 DEF SetFile, Finish
    <3>2. occs'[v] = occs[v]
      BY <2>1, <2>2 DEF StoreOK
    <3>. QED  BY <1>0, <2>1, <2>2, <3>1, <3>2, OtherFile
  <2>3. CASE u = v /\ Open(v) /\ v \notin raced
    <3>1. a \in Working(v) /\ \A b \in Working(v) : Carries(b, v)
      BY <1>0, <2>1, <2>3 DEF Converges, Working
    <3>2. \A b \in Actors : b # a => pc'[b] = pc[b] /\ job'[b] = job[b]
      BY <1>7 DEF SetFile, Finish, Begin, ActorsOK
    <3>3. job'[a] = job[a] \/ pc'[a] = "idle"
      BY <1>7 DEF SetFile, Finish, Begin, ActorsOK
    <3>4. Working(v)' \subseteq Working(v)
      BY <2>1, <2>3, <3>2, <3>3 DEF Working, Idle
    <3>5. \A b \in Working(v)' : Carries(b, v)'
      <4>1. ASSUME NEW b \in Working(v), ~Idle(b)' PROVE Carries(b, v)'
        BY <2>1, <3>1, <3>2, <3>3, <4>1 DEF Carries, Working, Idle
      <4>. QED  BY <3>4, <4>1 DEF Carries, Working, Idle
    <3>6. CASE job[a].version = docs[v].version
      <4>1. occs'[v] = docs'[v].text
        BY <2>1, <2>3, <3>1, <3>6 DEF Carries, StoreOK
      <4>. QED  BY <3>5, <4>1 DEF Converges
    <3>7. CASE job[a].version # docs[v].version
      <4>1. a # Handler /\ job[a].source = "buffer"
        BY <3>1, <3>7 DEF Carries
      <4>2. pc'[a] = "recheck" /\ job'[a] = job[a]
        BY <1>7, <4>1 DEF SetFile, Begin, Actors, ActorsOK
      <4>3. a \in Working(v)' /\ WillCatchUp(a, v)'
        BY <2>1, <2>3, <3>7, <4>2 DEF Working, WillCatchUp, Idle
      <4>. QED  BY <3>5, <4>3 DEF Converges
    <3>. QED  BY <3>6, <3>7
  <2>4. CASE ~Open(v) \/ v \in raced
    BY <2>1, <2>4 DEF Converges, Open
  <2>. QED  BY <2>2, <2>3, <2>4
<1>8. ASSUME NEW a \in Actors, Recheck(a) PROVE Converges(v)'
  <2>. DEFINE u == job[a].uri
  <2>1. /\ docs' = docs /\ raced' = raced /\ occs' = occs
        /\ ~Idle(a) /\ u \in URIs /\ a # Handler
    BY <1>8, BufferSyncAssumption DEF Recheck, ActorsOK, Stages, Idle
  <2>2. /\ Holding(u, docs[u]).uri = u /\ Holding(u, docs[u]).source = "buffer"
        /\ Holding(u, docs[u]).version = docs[u].version
        /\ Holding(u, docs[u]).text = docs[u].text
        /\ docs[u].version \in Nat
    <3>1. docs[u] \in [version : 0 .. MaxEdits, text : BufferTexts \union {None}]
      BY <2>1 DEF StoreOK
    <3>. QED  BY <2>1, <3>1, HoldingJob
  <2>3. CASE u # v
    <3>1. Begin(a, "scan", Holding(u, docs[u])) \/ Begin(a, "idle", NoJob)
      BY <1>8 DEF Recheck, Finish
    <3>. QED  BY <1>0, <2>1, <2>2, <2>3, <3>1, OtherFile
  <2>4. CASE u = v /\ Open(v) /\ v \notin raced
    <3>1. /\ \A b \in Working(v) : Carries(b, v)
          /\ occs[v] = docs[v].text \/ \E b \in Working(v) : WillCatchUp(b, v)
      BY <1>0, <2>4 DEF Converges
    <3>2. \A b \in Actors : b # a => pc'[b] = pc[b] /\ job'[b] = job[b]
      BY <1>8 DEF Recheck, Finish, Begin, ActorsOK
    <3>3. CASE docs[v].version = job[a].version
      <4>1. pc'[a] = "idle" /\ pc[a] = "recheck"
        BY <1>8, <2>4, <3>3 DEF Recheck, Finish, Begin, ActorsOK
      <4>2. Working(v)' = Working(v) \ {a}
        BY <3>2, <4>1 DEF Working, Idle
      <4>3. ~WillCatchUp(a, v)
        BY <3>3, <4>1 DEF WillCatchUp
      <4>4. occs[v] = docs[v].text \/ \E b \in Working(v) \ {a} : WillCatchUp(b, v)
        BY <3>1, <4>3 DEF WillCatchUp
      <4>5. \A b \in Working(v) \ {a} : job'[b] = job[b] /\ pc'[b] = pc[b]
        BY <3>2 DEF Working
      <4>. QED  BY <2>1, <3>1, <4>2, <4>4, <4>5 DEF Converges, Carries, WillCatchUp
    <3>4. CASE docs[v].version # job[a].version
      <4>1. pc'[a] = "scan" /\ job'[a] = Holding(u, docs[u])
        BY <1>8, <2>4, <3>4 DEF Recheck, Begin, ActorsOK
      <4>2. Working(v)' = Working(v) /\ a \in Working(v)
        BY <2>1, <2>2, <2>4, <3>2, <4>1 DEF Working, Idle
      <4>3. Carries(a, v)' /\ WillCatchUp(a, v)'
        BY <2>1, <2>2, <2>4, <4>1 DEF Carries, WillCatchUp
      <4>4. \A b \in Working(v) : b # a => job'[b] = job[b]
        BY <3>2 DEF Working
      <4>5. \A b \in Working(v)' : Carries(b, v)'
        BY <2>1, <3>1, <4>2, <4>3, <4>4 DEF Carries
      <4>. QED  BY <4>2, <4>3, <4>5 DEF Converges
    <3>. QED  BY <3>3, <3>4
  <2>5. CASE ~Open(v) \/ v \in raced
    BY <2>1, <2>5 DEF Converges, Open
  <2>. QED  BY <2>3, <2>4, <2>5
<1>9. ASSUME NEW a \in Actors, RemoveFile(a) PROVE Converges(v)'
  <2>. DEFINE u == job[a].uri
  <2>1. /\ docs' = docs /\ raced' = raced /\ occs' = [occs EXCEPT ![u] = None]
        /\ ~Idle(a) /\ u \in URIs
    BY <1>9 DEF RemoveFile, ActorsOK, Stages, Idle
  <2>2. CASE u = v
    <3>1. a \in Working(v) /\ job[a].source # "buffer"
      BY <1>9, <2>1, <2>2 DEF RemoveFile, Working, ActorsOK, Stages
    <3>. QED  BY <1>0, <2>1, <3>1 DEF Converges, Carries, Open
  <2>3. CASE u # v
    <3>1. Begin(a, "idle", NoJob) /\ occs'[v] = occs[v]
      BY <1>9, <2>1, <2>3 DEF RemoveFile, Finish, StoreOK
    <3>. QED  BY <1>0, <2>1, <2>3, <3>1, OtherFile
  <2>. QED  BY <2>2, <2>3
<1>10. ASSUME UNCHANGED <<docs, occs, pc, job, raced>> PROVE Converges(v)'
  BY <1>0, <1>10 DEF Converges, Open, Working, Idle, Carries, WillCatchUp
<1>11. ASSUME World PROVE UNCHANGED <<docs, occs, pc, job, raced>>
  BY <1>11 DEF World, DiskChange, Unlist
<1>12. CASE UNCHANGED vars
  BY <1>10, <1>12 DEF vars
<1>. QED
  BY <1>1, <1>2, <1>3, <1>4, <1>5, <1>6, <1>7, <1>8, <1>9, <1>10, <1>11, <1>12
  DEF Next, Client, Start, Step

\* scanOpenBuffer (index.go) converges: once the jobs on an open file are
\* done, its occurrences come from the newest text the client sent.
THEOREM BufferConverges == Spec => []OpenOccurrences
<1>1. Init => Typed /\ Converging
  <2>1. Init => Converging
    BY DEF Init, Converging, Converges, Open
  <2>. QED  BY <2>1, TypedInit
<1>2. Typed /\ Converging /\ [Next]_vars => (Typed /\ Converging)'
  BY TypedStep, ConvergingStep
<1>3. Converging => OpenOccurrences
  BY DEF Converging, Converges, OpenOccurrences, Quiet
<1>. QED  BY <1>1, <1>2, <1>3, PTL DEF Spec

-------------------------------------------------------------------------------
\* The job at work on a closed file is alone, and will install what is on disk
\* unless an event of the file still waits.
WillInstall(a, u) == \/ pc[a] = "read"
                     \/ pc[a] = "scan" /\ job[a].text = disk[u]

Owing(u) == u \in prev \ pending /\ disk[u] # Gone

Settles(u) ==
    ~Open(u) /\ u \notin raced =>
        /\ \A a, b \in Working(u) : a = b
        /\ \A a \in Working(u) : job[a].source # "buffer"
        /\ Owing(u) => IF Working(u) = {} THEN occs[u] = disk[u]
                       ELSE \A a \in Working(u) : WillInstall(a, u)

Settling == \A u \in URIs : Settles(u)

\* Whoever works on one file leaves what is said of another one alone.
LEMMA ElsewhereSettles ==
  ASSUME ActorsOK, NEW v \in URIs, Settles(v), NEW a \in Actors, NEW at, NEW j,
         Begin(a, at, j),
         Idle(a) \/ job[a].uri # v,
         at = "idle" \/ j.uri # v,
         docs'[v] = docs[v], occs'[v] = occs[v], v \in raced' <=> v \in raced,
         disk'[v] = disk[v], v \in prev' <=> v \in prev, v \in pending' <=> v \in pending
  PROVE  Settles(v)'
<1>1. \A b \in Actors : b \in Working(v)' <=> b \in Working(v)
  BY DEF Working, Begin, Idle, ActorsOK
<1>2. \A b \in Working(v) : b \in Actors /\ b # a /\ pc'[b] = pc[b] /\ job'[b] = job[b]
  BY DEF Working, Begin, Idle, ActorsOK
<1>3. Working(v)' = Working(v)
  BY <1>1 DEF Working
<1>4. (Open(v)' <=> Open(v)) /\ (Owing(v)' <=> Owing(v))
  BY DEF Open, Owing
<1>5. \A b \in Working(v) : WillInstall(b, v)' <=> WillInstall(b, v)
  BY <1>2 DEF WillInstall
<1>. QED  BY <1>2, <1>3, <1>4, <1>5 DEF Settles

\* A job that starts on a file nobody works on.
LEMMA FirstSettles ==
  ASSUME ActorsOK, NEW v \in URIs, NEW a \in Actors, Idle(a), NEW at, NEW j,
         Begin(a, at, j), at # "idle", j.uri = v, j.source # "buffer", Working(v) = {},
         at = "read" \/ v \notin prev'
  PROVE  Settles(v)'
<1>1. pc'[a] = at /\ job'[a] = j
  BY DEF Begin, ActorsOK
<1>2. Working(v)' = {a}
  BY <1>1 DEF Working, Begin, Idle, ActorsOK
<1>. QED  BY <1>1, <1>2 DEF Settles, WillInstall, Owing

\* The next step of the job that works on a closed file alone.
LEMMA OwnSettles ==
  ASSUME ActorsOK, NEW v \in URIs, Settles(v), ~Open(v), v \notin raced,
         NEW a \in Working(v), NEW at, NEW j, Begin(a, at, j),
         docs' = docs, raced' = raced, disk' = disk, prev' = prev, pending' = pending,
         at # "idle" => j.uri = v /\ j.source = job[a].source,
         Owing(v) => IF at = "idle" THEN occs'[v] = disk[v]
                     ELSE at = "read" \/ (at = "scan" /\ j.text = disk[v])
  PROVE  Settles(v)'
<1>1. Working(v) = {a} /\ job[a].source # "buffer" /\ a \in Actors
  BY DEF Settles, Working
<1>2. /\ pc'[a] = at /\ job'[a] = j
      /\ \A b \in Actors : b # a => pc'[b] = pc[b] /\ job'[b] = job[b]
  BY <1>1 DEF Begin, ActorsOK
<1>3. Working(v)' = IF at = "idle" THEN {} ELSE {a}
  BY <1>1, <1>2 DEF Working, Idle
<1>4. Owing(v)' <=> Owing(v)
  BY DEF Owing
<1>5. at # "idle" => (WillInstall(a, v)' <=> at = "read" \/ (at = "scan" /\ j.text = disk[v]))
  BY <1>2 DEF WillInstall
<1>. QED  BY <1>1, <1>2, <1>3, <1>4, <1>5 DEF Settles

\* A job that starts on a closed file is alone, or a race is on record.
LEMMA StartSettles ==
  ASSUME ActorsOK, NEW v \in URIs, Settles(v), NEW a \in Actors, Idle(a),
         NEW u \in URIs, NEW kind \in {"close", "rescan", "sync", "stale"}, NEW at,
         Begin(a, at, Reading(u, kind)), raced' = Joined(u, kind), at \in {"read", "remove"},
         at = "read" \/ u \notin prev',
         occs' = occs, disk' = disk,
         u # v => /\ docs'[v] = docs[v]
                  /\ v \in prev' <=> v \in prev
                  /\ v \in pending' <=> v \in pending
  PROVE  Settles(v)'
<1>. DEFINE j == Reading(u, kind)
<1>1. j.uri = u /\ j.source # "buffer"
  BY ReadingJob
<1>. HIDE DEF j
<1>2. CASE u # v
  <2>1. v \in raced' <=> v \in raced
    BY <1>2 DEF Joined
  <2>. QED  BY <1>1, <1>2, <2>1, ElsewhereSettles DEF j
<1>3. CASE u = v /\ Working(v) = {}
  BY <1>1, <1>3, FirstSettles DEF j
<1>4. CASE u = v /\ Working(v) # {}
  BY <1>4 DEF Joined, Settles
<1>. QED  BY <1>2, <1>3, <1>4

\* While a document or its occurrences are behind, the actor that will still
\* install the last text stays at work, closed documents included.
THEOREM SettlingStep == Typed /\ Settling /\ [Next]_vars => Settling'
<1>. SUFFICES ASSUME StoreOK, ActorsOK, Settling, [Next]_vars, NEW v \in URIs
              PROVE  Settles(v)'
  BY TypedParts DEF Settling
<1>0. Settles(v)
  BY DEF Settling
<1>. USE DEF files
<1>1. ASSUME NEW u \in URIs, DidOpen(u) \/ DidChange(u) PROVE Settles(v)'
  <2>. DEFINE doc == [version |-> IF Open(u) THEN docs[u].version + 1 ELSE 0,
                      text |-> <<"buffer", edits + 1>>]
  <2>1. /\ Begin(Handler, "scan", Holding(u, doc)) /\ Idle(Handler)
        /\ docs' = [docs EXCEPT ![u] = doc]
        /\ UNCHANGED <<disk, occs, pending, prev>>
    BY <1>1 DEF DidOpen, DidChange
  <2>2. CASE u = v
    <3>1. docs'[v].text = <<"buffer", edits + 1>>
      BY <2>1, <2>2 DEF StoreOK
    <3>2. Open(v)'
      BY <3>1 DEF Open, NotOpen, None
    <3>. QED  BY <3>2 DEF Settles
  <2>3. CASE u # v
    <3>1. Holding(u, doc).uri = u
      BY DEF Holding, NoJob
    <3>2. docs'[v] = docs[v] /\ (v \in raced' <=> v \in raced)
      BY <1>1, <2>1, <2>3 DEF DidOpen, DidChange, Joined, StoreOK
    <3>. QED  BY <1>0, <2>1, <2>3, <3>1, <3>2, ElsewhereSettles DEF Actors
  <2>. QED  BY <2>2, <2>3
<1>2. ASSUME NEW u \in URIs, DidClose(u) PROVE Settles(v)'
  BY <1>0, <1>2, StartSettles DEF DidClose, Actors, StoreOK
<1>3. ASSUME NEW t \in Tasks, NEW u \in URIs, StartRescan(t, u) PROVE Settles(v)'
  <2>1. /\ t \in Actors /\ Idle(t)
        /\ UNCHANGED <<docs, occs, disk, pending, prev>>
    BY <1>3 DEF StartRescan, Actors
  <2>2. CASE ~Open(u)
    BY <1>0, <1>3, <2>1, <2>2, StartSettles DEF StartRescan
  <2>3. CASE Open(u) /\ u = v
    BY <2>1, <2>3 DEF Settles, Open
  <2>4. CASE Open(u) /\ u # v
    <3>1. Begin(t, "scan", Holding(u, docs[u])) /\ Holding(u, docs[u]).uri = u
      BY <1>3, <2>4 DEF StartRescan, Holding, NoJob
    <3>2. v \in raced' <=> v \in raced
      BY <1>3, <2>4 DEF StartRescan, Joined
    <3>. QED  BY <1>0, <2>1, <2>4, <3>1, <3>2, ElsewhereSettles
  <2>. QED  BY <2>2, <2>3, <2>4
<1>4. ASSUME NEW t \in Tasks, NEW u \in URIs, StartSync(t, u) \/ StartStale(t, u)
      PROVE  Settles(v)'
  <2>1. /\ t \in Actors /\ Idle(t) /\ UNCHANGED <<docs, occs, disk>>
        /\ u # v => (v \in prev' <=> v \in prev) /\ (v \in pending' <=> v \in pending)
    BY <1>4 DEF StartSync, StartStale, Actors
  <2>2. CASE ~Open(u) /\ StartSync(t, u)
    BY <1>0, <2>1, <2>2, StartSettles DEF StartSync
  <2>3. CASE ~Open(u) /\ StartStale(t, u)
    BY <1>0, <2>1, <2>3, StartSettles DEF StartStale
  <2>4. CASE Open(u)
    <3>1. UNCHANGED <<pc, job, raced>>
      BY <1>4, <2>4 DEF StartSync, StartStale
    <3>2. CASE u = v
      BY <2>1, <2>4, <3>2 DEF Settles, Open
    <3>3. CASE u # v
      BY <1>0, <2>1, <3>1, <3>3 DEF Settles, Open, Owing, Working, Idle, WillInstall
    <3>. QED  BY <3>2, <3>3
  <2>. QED  BY <1>4, <2>2, <2>3, <2>4
<1>5. ASSUME NEW a \in Actors, Step(a) PROVE Settles(v)'
  <2>. DEFINE u == job[a].uri
  <2>1. /\ ~Idle(a) /\ u \in URIs /\ job[a] \in Jobs
        /\ UNCHANGED <<docs, raced, disk, prev, pending>>
    BY <1>5 DEF Step, ReadFile, SetFile, Recheck, RemoveFile, ActorsOK, Stages, Idle
  <2>2. PICK at, j : Begin(a, at, j) /\ (at = "idle" \/ j.uri = u) /\ \A w \in URIs \ {u} : occs'[w] = occs[w]
    <3>1. CASE ReadFile(a)
      <4>1. [job[a] EXCEPT !.text = disk[u]].uri = u
        BY <2>1 DEF Jobs
      <4>. QED  BY <3>1, <4>1 DEF ReadFile, Finish
    <3>2. CASE SetFile(a)
      BY <3>2 DEF SetFile, Finish, StoreOK
    <3>3. CASE Recheck(a)
      <4>1. Holding(u, docs[u]).uri = u
        BY DEF Holding, NoJob
      <4>. QED  BY <3>3, <4>1 DEF Recheck, Finish
    <3>4. CASE RemoveFile(a)
      BY <3>4 DEF RemoveFile, Finish, StoreOK
    <3>. QED  BY <1>5, <3>1, <3>2, <3>3, <3>4 DEF Step
  <2>3. CASE u # v
    BY <1>0, <2>1, <2>2, <2>3, ElsewhereSettles
  <2>4. CASE Open(v) \/ v \in raced
    BY <2>1, <2>4 DEF Settles, Open
  <2>5. CASE u = v /\ ~Open(v) /\ v \notin raced
    <3>1. /\ a \in Working(v) /\ job[a].source # "buffer"
          /\ Owing(v) => WillInstall(a, v)
      BY <1>0, <2>1, <2>5 DEF Settles, Working
    <3>2. CASE ReadFile(a)
      <4>. DEFINE r == [job[a] EXCEPT !.text = disk[u]]
      <4>1. r.uri = u /\ r.source = job[a].source /\ r.text = disk[u]
        BY <2>1 DEF Jobs
      <4>. HIDE DEF r
      <4>2. CASE disk[u] # Gone
        <5>1. Begin(a, "scan", r)
          BY <3>2, <4>2 DEF ReadFile, r
        <5>. QED  BY <1>0, <2>1, <2>5, <3>1, <4>1, <5>1, OwnSettles
      <4>3. CASE disk[u] = Gone
        <5>1. Begin(a, "remove", job[a]) \/ Begin(a, "idle", NoJob)
          BY <3>2, <4>3 DEF ReadFile, Finish
        <5>2. ~Owing(v)
          BY <2>5, <4>3 DEF Owing
        <5>. QED  BY <1>0, <2>1, <2>5, <3>1, <5>1, <5>2, OwnSettles
      <4>. QED  BY <4>2, <4>3
    <3>3. CASE SetFile(a)
      <4>1. Begin(a, "idle", NoJob) /\ pc[a] = "scan" /\ occs'[v] = job[a].text
        BY <2>1, <2>5, <3>1, <3>3 DEF SetFile, Finish, StoreOK
      <4>. QED  BY <1>0, <2>1, <2>5, <3>1, <4>1, OwnSettles DEF WillInstall
    <3>4. ~Recheck(a)
      BY <3>1 DEF Recheck, ActorsOK, Stages
    <3>5. CASE RemoveFile(a)
      <4>1. Begin(a, "idle", NoJob) /\ ~Owing(v)
        BY <3>1, <3>5 DEF RemoveFile, Finish, WillInstall
      <4>. QED  BY <1>0, <2>1, <2>5, <3>1, <4>1, OwnSettles
    <3>. QED  BY <1>5, <3>2, <3>3, <3>4, <3>5 DEF Step
  <2>. QED  BY <2>3, <2>4, <2>5
<1>6. CASE World
  <2>1. UNCHANGED <<docs, occs, pc, job, raced, prev>> /\ pending \subseteq pending'
    BY <1>6 DEF World, DiskChange, Unlist
  <2>2. Owing(v)' => Owing(v) /\ disk'[v] = disk[v]
    BY <1>6 DEF World, DiskChange, Unlist, Owing, StoreOK
  <2>3. \A a : Owing(v)' => (WillInstall(a, v)' <=> WillInstall(a, v))
    BY <2>1, <2>2 DEF WillInstall
  <2>. QED  BY <1>0, <2>1, <2>2, <2>3 DEF Settles, Open, Working, Idle
<1>7. CASE UNCHANGED vars
  BY <1>0, <1>7 DEF vars, Settles, Open, Owing, Working, Idle, WillInstall
<1>. QED
  BY <1>1, <1>2, <1>3, <1>4, <1>5, <1>6, <1>7 DEF Next, Client, Start

\* DidClose and the watcher (index.go): a closed file whose events have all been
\* handled is indexed as it is on disk.
THEOREM ClosedConverges == Spec => []ClosedOccurrences
<1>1. Init => Typed /\ Settling
  <2>1. Init => Settling
    BY DEF Init, Settling, Settles, Working, Idle
  <2>. QED  BY <2>1, TypedInit
<1>2. Typed /\ Settling /\ [Next]_vars => (Typed /\ Settling)'
  BY TypedStep, SettlingStep
<1>3. Typed /\ Settling => ClosedOccurrences
  BY DEF Typed, TypeOK, Settling, Settles, Owing, ClosedOccurrences, Quiet
<1>. QED  BY <1>1, <1>2, <1>3, PTL DEF Spec
===============================================================================
