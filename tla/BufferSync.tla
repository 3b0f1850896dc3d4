------------------------------ MODULE BufferSync ------------------------------
(***************************************************************************)
(* Two sources compete to say what the index holds for a file: the         *)
(* client's open buffer (document.Store) and the file on disk.  The        *)
(* client's handlers run one at a time; the background passes (buildIndex, *)
(* scanIncludeDiscoveredFiles, the watcher's batch and its cascade, the    *)
(* staleness pass) run beside them.  None holds a lock from the moment it  *)
(* looks up whether a document is open to the moment Index.SetFile         *)
(* installs the scan, so every job below is a sequence of steps that the   *)
(* other jobs interleave with.                                             *)
(*                                                                         *)
(* A text is <<"disk", n>> or <<"buffer", n>>.  Of the index one entry per *)
(* file is kept: the text the file's occurrences were taken from, which    *)
(* only a scan of the file itself writes.  The declarations of a file,     *)
(* which the scans of its includers write as well, and all else SetFile    *)
(* does inside the index are the subject of SvIndex.                       *)
(***************************************************************************)
EXTENDS Naturals, FiniteSets

CONSTANTS URIs,       \* the workspace's file:// URIs
          NoURI,      \* no file: what an idle actor works on
          Tasks,      \* goroutines of the background worker pools
          Handler,    \* the connection's one handler goroutine
          MaxEdits,   \* bound: didOpen and didChange notifications
          MaxWrites   \* bound: writes and deletions on disk

ASSUME BufferSyncAssumption ==
    /\ NoURI \notin URIs
    /\ Handler \notin Tasks
    /\ MaxEdits \in Nat
    /\ MaxWrites \in Nat

VARIABLES disk,     \* the text of each file on disk, or Gone
          docs,     \* document.Store: version and text, or NotOpen
          occs,     \* the text the index's occurrences of a file come from
          pc,       \* where each actor is
          job,      \* the file it works on and what it has read so far
          pending,  \* watchFiles' pending map: files with an unhandled event
          listed,   \* files the filelists name now
          prev,     \* files the last finished pass discovered (and watches)
          edits,    \* edits so far; also makes every buffer text distinct
          writes,   \* disk writes so far; makes every disk text distinct
          raced     \* ghost: see Joined

vars == <<disk, docs, occs, pc, job, pending, listed, prev,
          edits, writes, raced>>
files == <<listed, prev>>

Actors == Tasks \union {Handler}
Gone == <<"gone", 0>>
None == <<"none", 0>>
DiskTexts == {"disk"} \X (0 .. MaxWrites)
BufferTexts == {"buffer"} \X (1 .. MaxEdits)
Texts == DiskTexts \union BufferTexts
NotOpen == [version |-> 0, text |-> None]
Open(u) == docs[u] # NotOpen
Idle(a) == pc[a] = "idle"

(***************************************************************************)
(* A job names the file, the source its text comes from, and the version   *)
(* and text read.                                                          *)
(***************************************************************************)
NoJob == [uri |-> NoURI, source |-> "none", version |-> 0, text |-> None]
Reading(u, kind) == [NoJob EXCEPT !.uri = u, !.source = kind]
Holding(u, doc) == [NoJob EXCEPT !.uri = u, !.source = "buffer",
                                 !.version = doc.version, !.text = doc.text]
Working(u) == {a \in Actors : ~Idle(a) /\ job[a].uri = u}

Init ==
    /\ disk = [u \in URIs |-> <<"disk", 0>>]
    /\ docs = [u \in URIs |-> NotOpen]
    /\ occs = disk
    /\ pc = [a \in Actors |-> "idle"]
    /\ job = [a \in Actors |-> NoJob]
    /\ pending = {}
    /\ listed = URIs
    /\ prev = URIs
    /\ edits = 0
    /\ writes = 0
    /\ raced = {}

(***************************************************************************)
(* Bookkeeping of the ghost raced.  A job that starts while another one is *)
(* at work on the same file is harmless only when both carry text of the   *)
(* buffer as it has been open since: raced collects the files where two    *)
(* jobs overlapped in any other way, until a job has the file to itself.   *)
(***************************************************************************)
Joined(u, source) ==
    LET others == Working(u) IN
    IF others = {} THEN raced \ {u}
    ELSE IF source = "buffer" /\ \A a \in others : job[a].source = "buffer"
         THEN raced ELSE raced \union {u}

Begin(a, at, with) ==
    /\ pc' = [pc EXCEPT ![a] = at]
    /\ job' = [job EXCEPT ![a] = with]

Finish(a) == Begin(a, "idle", NoJob)

(***************************************************************************)
(* The client's handlers.  Each changes the document store and then, with  *)
(* no lock in between, scans and installs the text.  A client numbers the  *)
(* versions of every opening from 0 again and changes only what is open.   *)
(***************************************************************************)
DidOpen(u) ==
    LET doc == [version |-> 0, text |-> <<"buffer", edits + 1>>] IN
    /\ Idle(Handler) /\ ~Open(u) /\ edits < MaxEdits
    /\ edits' = edits + 1
    /\ docs' = [docs EXCEPT ![u] = doc]
    /\ raced' = IF Working(u) = {} THEN raced \ {u} ELSE raced \union {u}
    /\ Begin(Handler, "scan", Holding(u, doc))
    /\ UNCHANGED <<disk, occs, pending, files, writes>>

DidChange(u) ==
    LET doc == [version |-> docs[u].version + 1, text |-> <<"buffer", edits + 1>>]
    IN
    /\ Idle(Handler) /\ Open(u) /\ edits < MaxEdits
    /\ edits' = edits + 1
    /\ docs' = [docs EXCEPT ![u] = doc]
    /\ raced' = Joined(u, "buffer")
    /\ Begin(Handler, "scan", Holding(u, doc))
    /\ UNCHANGED <<disk, occs, pending, files, writes>>

\* Mutant: closing forgets the buffer and leaves the index to the watcher.
DidClose_NoRescan(u) ==
    /\ Idle(Handler) /\ Open(u)
    /\ docs' = [docs EXCEPT ![u] = NotOpen]
    /\ raced' = Joined(u, "close")
    /\ UNCHANGED <<pc, job, disk, occs, pending, files, edits, writes>>

DidClose(u) ==
    /\ Idle(Handler) /\ Open(u)
    /\ docs' = [docs EXCEPT ![u] = NotOpen]
    /\ raced' = Joined(u, "close")
    /\ Begin(Handler, "read", Reading(u, "close"))
    /\ UNCHANGED <<disk, occs, pending, files, edits, writes>>

(***************************************************************************)
(* The background jobs.  StartRescan is one call of buildIndex's worker,   *)
(* of scanIncludeDiscoveredFiles' worker or of reindexURI, which share     *)
(* their control: an open document goes to scanOpenBuffer, anything else   *)
(* is read from disk.  StartSync is syncFromDisk for a file with an event; *)
(* StartStale is removeStaleFiles' turn for one file of prev that the      *)
(* pass's own file set, current, no longer has.                            *)
(***************************************************************************)
StartRescan(t, u) ==
    /\ Idle(t) /\ u \in listed
    /\ IF Open(u) THEN /\ Begin(t, "scan", Holding(u, docs[u]))
                       /\ raced' = Joined(u, "buffer")
                  ELSE /\ Begin(t, "read", Reading(u, "rescan"))
                       /\ raced' = Joined(u, "rescan")
    /\ UNCHANGED <<disk, docs, occs, pending, files, edits, writes>>

StartSync(t, u) ==
    /\ Idle(t) /\ u \in pending
    /\ pending' = pending \ {u}
    /\ IF Open(u) THEN UNCHANGED <<pc, job, raced>>
                  ELSE /\ Begin(t, "read", Reading(u, "sync"))
                       /\ raced' = Joined(u, "sync")
    /\ UNCHANGED <<disk, docs, occs, files, edits, writes>>

StartStale(t, u) ==
    /\ Idle(t) /\ u \in prev \ listed
    /\ prev' = prev \ {u}
    /\ pending' = pending \ {u}
    /\ IF Open(u) THEN UNCHANGED <<pc, job, raced>>
                  ELSE /\ Begin(t, "remove", Reading(u, "stale"))
                       /\ raced' = Joined(u, "stale")
    /\ UNCHANGED <<disk, docs, occs, listed, edits, writes>>

(***************************************************************************)
(* os.ReadFile: a missing file ends a rescan and a close, and makes        *)
(* syncFromDisk drop the file's entries.                                   *)
(***************************************************************************)
\* Mutant: the early return on a read error is dropped.
ReadFile_IgnoresError(a) ==
    /\ pc[a] = "read"
    /\ Begin(a, "scan", [job[a] EXCEPT !.text = disk[job[a].uri]])
    /\ UNCHANGED <<disk, docs, occs, pending, files, edits, writes, raced>>

ReadFile(a) ==
    LET u == job[a].uri IN
    /\ pc[a] = "read"
    /\ IF disk[u] # Gone
       THEN Begin(a, "scan", [job[a] EXCEPT !.text = disk[u]])
       ELSE IF job[a].source = "sync" THEN Begin(a, "remove", job[a])
                                      ELSE Finish(a)
    /\ UNCHANGED <<disk, docs, occs, pending, files, edits, writes, raced>>

(***************************************************************************)
(* SetFile: the text is scanned outside the index lock and the file's      *)
(* entry then replaced under it, at any time after the text was taken.     *)
(* Only scanOpenBuffer looks at the document again afterwards.             *)
(***************************************************************************)
SetFile(a) ==
    /\ pc[a] = "scan"
    /\ occs' = [occs EXCEPT ![job[a].uri] = job[a].text]
    /\ IF a \in Tasks /\ job[a].source = "buffer"
       THEN Begin(a, "recheck", job[a]) ELSE Finish(a)
    /\ UNCHANGED <<disk, docs, pending, files, edits, writes, raced>>

\* Mutants of the retry: it is dropped, or it forgets to take the newer
\* document.
Recheck_Once(t) ==
    /\ pc[t] = "recheck" /\ Finish(t)
    /\ UNCHANGED <<disk, docs, occs, pending, files, edits, writes, raced>>

Recheck_SameDoc(t) ==
    LET u == job[t].uri IN
    /\ pc[t] = "recheck"
    /\ IF ~Open(u) \/ docs[u].version = job[t].version
       THEN Finish(t) ELSE Begin(t, "scan", job[t])
    /\ UNCHANGED <<disk, docs, occs, pending, files, edits, writes, raced>>

Recheck(t) ==
    LET u == job[t].uri IN
    /\ pc[t] = "recheck"
    /\ IF ~Open(u) \/ docs[u].version = job[t].version
       THEN Finish(t) ELSE Begin(t, "scan", Holding(u, docs[u]))
    /\ UNCHANGED <<disk, docs, occs, pending, files, edits, writes, raced>>

RemoveFile(t) ==
    /\ pc[t] = "remove"
    /\ occs' = [occs EXCEPT ![job[t].uri] = None]
    /\ Finish(t)
    /\ UNCHANGED <<disk, docs, pending, files, edits, writes, raced>>

(***************************************************************************)
(* The world: a file is written or deleted on disk, which the watcher      *)
(* notices for the files the last pass discovered, and a filelist edit     *)
(* takes a file out of the workspace.                                      *)
(***************************************************************************)
DiskChange(u, text) ==
    /\ writes < MaxWrites
    /\ writes' = writes + 1
    /\ disk' = [disk EXCEPT ![u] = text]
    /\ pending' = IF u \in prev THEN pending \union {u} ELSE pending
    /\ UNCHANGED <<docs, occs, pc, job, files, edits, raced>>

Unlist(u) ==
    /\ u \in listed
    /\ listed' = listed \ {u}
    /\ UNCHANGED <<disk, docs, occs, pc, job, pending, prev, edits, writes, raced>>

Client == \E u \in URIs : DidOpen(u) \/ DidChange(u) \/ DidClose(u)
Start(t) == \E u \in URIs : StartRescan(t, u) \/ StartSync(t, u) \/ StartStale(t, u)
Step(a) == ReadFile(a) \/ SetFile(a) \/ Recheck(a) \/ RemoveFile(a)
World == \E u \in URIs : \/ DiskChange(u, <<"disk", writes + 1>>)
                         \/ disk[u] # Gone /\ DiskChange(u, Gone)
                         \/ Unlist(u)

Next == \/ Client
        \/ \E t \in Tasks : Start(t)
        \/ \E a \in Actors : Step(a)
        \/ World

(***************************************************************************)
(* A goroutine that has started a job keeps running: nothing in a job      *)
(* waits for another job.  Nobody has to edit, and no pass has to start.   *)
(***************************************************************************)
Fairness == \A a \in Actors : WF_vars(Step(a))
Spec == Init /\ [][Next]_vars /\ Fairness

-------------------------------------------------------------------------------
Jobs == [uri : URIs \union {NoURI},
         source : {"none", "buffer", "close", "rescan", "sync", "stale"},
         version : 0 .. MaxEdits,
         text : Texts \union {None}]

\* The variables keep their types: an entry of the index or the text of a job
\* is one the file had on disk or in the editor, so a file that cannot be read
\* is dropped or left alone and never scanned (Store, Index and the locals of
\* the worker functions).  A job is unset exactly when its actor is idle.
TypeOK ==
    /\ disk \in [URIs -> DiskTexts \union {Gone}]
    /\ docs \in [URIs -> [version : 0 .. MaxEdits, text : BufferTexts \union {None}]]
    /\ occs \in [URIs -> Texts \union {None}]
    /\ pc \in [Actors -> {"idle", "read", "scan", "recheck", "remove"}]
    /\ job \in [Actors -> Jobs]
    /\ \A a \in Actors : Idle(a) <=> job[a] = NoJob
    /\ pending \subseteq URIs /\ listed \subseteq URIs /\ prev \subseteq URIs
    /\ edits \in 0 .. MaxEdits /\ writes \in 0 .. MaxWrites
    /\ raced \subseteq URIs

Quiet(u) == Working(u) = {}

\* What scanOpenBuffer is for: however the rescans of an open file interleave
\* with the client's edits, once they are done the file's occurrences come
\* from the newest text -- unless a job of another kind ran into them.
OpenOccurrences ==
    \A u \in URIs : Open(u) /\ Quiet(u) /\ u \notin raced
                        => occs[u] = docs[u].text

\* DidClose's rescan and the watcher together: a closed file of the workspace
\* whose events have all been handled is indexed as it is on disk, whatever
\* was discarded with the buffer and whatever changed while it was open.
ClosedOccurrences ==
    \A u \in prev \ (raced \union pending) :
        ~Open(u) /\ Quiet(u) /\ disk[u] # Gone => occs[u] = disk[u]

\* scanOpenBuffer's retry ends: every job that starts finishes, however many
\* edits land while it scans.
JobsFinish == \A a \in Actors : pc[a] # "idle" ~> pc[a] = "idle"

-------------------------------------------------------------------------------
(***************************************************************************)
(* What the comments of the code say, and the races above take away.       *)
(***************************************************************************)

\* "The live editor buffer is authoritative while open", says buildIndex of the
\* files it scans: on a file of the workspace, whatever ran beside the handlers,
\* the buffer wins in the end.
OpenBufferAuthoritative ==
    \A u \in listed : Open(u) /\ Quiet(u) => occs[u] = docs[u].text
===============================================================================
