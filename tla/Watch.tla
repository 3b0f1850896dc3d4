-------------------------------- MODULE Watch --------------------------------
(***************************************************************************)
(* indexAndWatch (index.go) and the event loop it runs (watch.go): a pass  *)
(* discovers the files the filelists name, scans them and the headers      *)
(* their scans reached, drops what the previous pass had and this one has  *)
(* not, and arms directory watches; then events are collected until the    *)
(* debounce timer fires, and the batch is synchronised from disk and       *)
(* cascaded to the files that include what changed -- or, if a filelist    *)
(* changed, everything starts again with a new watcher.                    *)
(*                                                                         *)
(* The world changes files and filelists under the loop at any point, and  *)
(* the client opens, edits and closes.  One rescan, and one handler, is    *)
(* one step here (BufferSync takes them apart).                            *)
(***************************************************************************)
EXTENDS Naturals, FiniteSets

CONSTANTS Files,       \* paths of source files and headers
          Filelist,    \* the path of the filelist
          HeadersOf,   \* HeadersOf[f]: files f's text `includes, flattened
          MaxChanges   \* bound: changes on disk

ASSUME WatchAssumption == /\ HeadersOf \in [Files -> SUBSET Files]
                          /\ \A f \in Files : f \notin HeadersOf[f]
                          /\ Filelist \notin Files
                          /\ MaxChanges \in Nat

VARIABLES disk,      \* the generation of each file on disk, or Gone
          names,     \* the files the filelist names
          open,      \* the documents the client has open
          seen,      \* what a file's index entry was made from; see Entries
          pc,        \* where the loop is
          todo,      \* calls forEachParallel has not made yet
          found,     \* rebuildIndex's files, then the set the watcher knows
          prev,      \* indexAndWatch's prev
          armed,     \* the watcher is open and its directories are added
          events,    \* watcher.Events
          pending, rebuildPending, timer,  \* watchFiles' debounce state
          changes,   \* changes on disk so far
          lost,      \* ghost: files whose last change the watcher did not report
          visited,   \* ghost: files the client has had open
          skipped    \* ghost: open files a batch held along with a header

vars == <<disk, names, open, seen, pc, todo, found, prev, armed, events,
          pending, rebuildPending, timer, changes, lost, visited, skipped>>
world == <<disk, names, changes>>
batch == <<events, pending, rebuildPending, timer>>
ghosts == <<lost, visited, skipped>>

(***************************************************************************)
(* An entry maps the file to the generation it was scanned at (Buffer for  *)
(* an open one) and each header it names to the generation the scan found  *)
(* on disk.  A header that is not there is not resolved, and no dependency *)
(* on it is recorded.  A file without an entry has NoEntry.                *)
(***************************************************************************)
Generations == 0 .. MaxChanges
Gone == MaxChanges + 1
Buffer == MaxChanges + 2
NoEntry == [g \in {} |-> Gone]
Scanned(f, buffers) == [g \in {f} \union HeadersOf[f] |->
                           IF g = f /\ f \in buffers THEN Buffer ELSE disk[g]]
Indexed(f) == seen[f] # NoEntry
IncludesOf(f) == {h \in HeadersOf[f] : Indexed(f) /\ seen[f][h] # Gone}
Dependents(h) == {f \in Files : h \in IncludesOf(f)}

Rescan(f) == /\ seen' = [seen EXCEPT ![f] = Scanned(f, open)]
             /\ skipped' = skipped \ {f}
Remove(fs) == seen' = [f \in Files |-> IF f \in fs THEN NoEntry ELSE seen[f]]

Init ==
    /\ disk = [f \in Files |-> 0]
    /\ names \in SUBSET Files
    /\ open = {}
    /\ seen = [f \in Files |-> NoEntry]
    /\ pc = "discover"
    /\ todo = {} /\ found = {} /\ prev = {}
    /\ armed = FALSE
    /\ events = {} /\ pending = {} /\ rebuildPending = FALSE /\ timer = FALSE
    /\ changes = 0
    /\ lost = {} /\ visited = {} /\ skipped = {}

-------------------------------------------------------------------------------
(***************************************************************************)
(* rebuildIndex.  Discovery resolves each name, so a missing file is not   *)
(* part of the pass.  Open files are scanned from their buffer.            *)
(***************************************************************************)
Discover ==
    /\ pc = "discover"
    /\ found' = {f \in names : disk[f] # Gone}
    /\ todo' = found'
    /\ pc' = "scan"
    /\ lost' = {}
    /\ UNCHANGED <<world, open, seen, prev, armed, batch, visited, skipped>>

\* buildIndex's and scanIncludeDiscoveredFiles' worker: a file that has gone
\* since it was discovered is left as it is.
ScanOne(f) ==
    /\ pc \in {"scan", "headers"} /\ f \in todo
    /\ todo' = todo \ {f}
    /\ IF f \in open \/ disk[f] # Gone
       THEN Rescan(f) /\ found' = found \union {f}
       ELSE UNCHANGED <<seen, skipped, found>>
    /\ UNCHANGED <<world, open, pc, prev, armed, batch, lost, visited>>

\* scanIncludeDiscoveredFiles consults the dependencies this pass recorded.
ScanHeaders ==
    /\ pc = "scan" /\ todo = {}
    /\ todo' = (UNION {IncludesOf(f) : f \in found}) \ found
    /\ pc' = "headers"
    /\ UNCHANGED <<world, open, seen, found, prev, armed, batch, ghosts>>

\* removeStaleFiles, sparing open documents.
\* Mutant: the index only ever grows.
Reconcile_Keeps ==
    /\ pc = "headers" /\ todo = {}
    /\ prev' = found
    /\ pc' = "arm"
    /\ UNCHANGED <<world, open, seen, todo, found, armed, batch, ghosts>>

Reconcile ==
    /\ pc = "headers" /\ todo = {}
    /\ Remove((prev \ found) \ open)
    /\ prev' = found
    /\ pc' = "arm"
    /\ UNCHANGED <<world, open, todo, found, armed, batch, ghosts>>

-------------------------------------------------------------------------------
(***************************************************************************)
(* watchFiles.  Arming adds the directories of every found file and of the *)
(* filelist.  The loop then takes an event, or the timer's tick.           *)
(***************************************************************************)
Arm ==
    /\ pc = "arm"
    /\ armed' = TRUE
    /\ pc' = "select"
    /\ UNCHANGED <<world, open, seen, todo, found, prev, batch, ghosts>>

\* Mutant: the event is collected and the timer is not started.
TakeEvent_NoTimer(e) ==
    /\ pc = "select" /\ e \in events
    /\ events' = events \ {e}
    /\ rebuildPending' = (rebuildPending \/ e = Filelist)
    /\ pending' = pending \union ({e} \intersect found)
    /\ UNCHANGED <<timer, world, open, seen, pc, todo, found, prev, armed, ghosts>>

TakeEvent(e) ==
    /\ pc = "select" /\ e \in events
    /\ events' = events \ {e}
    /\ rebuildPending' = (rebuildPending \/ e = Filelist)
    /\ pending' = pending \union ({e} \intersect found)
    /\ timer' = (timer \/ e = Filelist \/ e \in found)
    /\ UNCHANGED <<world, open, seen, pc, todo, found, prev, armed, ghosts>>

\* The tick after a filelist changed: watchFiles returns, its watcher and all
\* it had collected go, and the next pass begins.
TickRebuild ==
    /\ pc = "select" /\ timer /\ rebuildPending
    /\ armed' = FALSE
    /\ events' = {} /\ pending' = {} /\ rebuildPending' = FALSE /\ timer' = FALSE
    /\ pc' = "discover"
    /\ UNCHANGED <<world, open, seen, todo, found, prev, ghosts>>

TickBatch ==
    /\ pc = "select" /\ timer /\ ~rebuildPending
    /\ timer' = FALSE
    /\ todo' = pending
    /\ pc' = "sync"
    /\ UNCHANGED <<world, open, seen, found, prev, armed, events, pending,
                   rebuildPending, ghosts>>

\* syncFromDisk: an open document is left alone, a missing file is dropped.
\* Mutant: what cannot be read is left as it is.
SyncOne_KeepsMissing(f) ==
    /\ pc = "sync" /\ f \in todo
    /\ todo' = todo \ {f}
    /\ IF f \in open \/ disk[f] = Gone THEN UNCHANGED <<seen, skipped>>
                                       ELSE Rescan(f)
    /\ UNCHANGED <<world, open, pc, found, prev, armed, batch, lost, visited>>

SyncOne(f) ==
    /\ pc = "sync" /\ f \in todo
    /\ todo' = todo \ {f}
    /\ IF f \in open THEN UNCHANGED <<seen, skipped>>
       ELSE IF disk[f] = Gone THEN Remove({f}) /\ UNCHANGED skipped
       ELSE Rescan(f)
    /\ UNCHANGED <<world, open, pc, found, prev, armed, batch, lost, visited>>

\* cascadeReindexDependents: whoever includes what changed, and is not in the
\* batch itself, is scanned again.  The ghost notes the members of the batch
\* that were skipped for being open and include another member.
\* Mutant: the batch is not cascaded.
Cascade_None ==
    /\ pc = "sync" /\ todo = {}
    /\ todo' = {}
    /\ pending' = {}
    /\ pc' = "cascade"
    /\ UNCHANGED <<skipped, world, open, seen, found, prev, armed, events,
                   rebuildPending, timer, lost, visited>>

Cascade ==
    /\ pc = "sync" /\ todo = {}
    /\ todo' = (UNION {Dependents(h) : h \in pending}) \ pending
    /\ pending' = {}
    /\ skipped' = skipped \union
                    {f \in pending \intersect open : HeadersOf[f] \intersect pending # {}}
    /\ pc' = "cascade"
    /\ UNCHANGED <<world, open, seen, found, prev, armed, events,
                   rebuildPending, timer, lost, visited>>

\* reindexURI: from the buffer if it is open, else from disk if it is there.
ReindexOne(f) ==
    /\ pc = "cascade" /\ f \in todo
    /\ todo' = todo \ {f}
    /\ IF f \in open \/ disk[f] # Gone THEN Rescan(f) ELSE UNCHANGED <<seen, skipped>>
    /\ UNCHANGED <<world, open, pc, found, prev, armed, batch, lost, visited>>

BatchDone ==
    /\ pc = "cascade" /\ todo = {}
    /\ pc' = "select"
    /\ UNCHANGED <<world, open, seen, todo, found, prev, armed, batch, ghosts>>

Loop == \/ Discover \/ ScanHeaders \/ Reconcile \/ Arm
        \/ TickRebuild \/ TickBatch \/ Cascade \/ BatchDone
        \/ \E f \in Files : ScanOne(f) \/ SyncOne(f) \/ ReindexOne(f)
        \/ \E e \in Files \union {Filelist} : TakeEvent(e)

-------------------------------------------------------------------------------
(***************************************************************************)
(* The world.  The watcher reports a change once it is armed, of a file it *)
(* looks for; events of other files of the directory are filtered out.     *)
(* Behind an event that waits the queue may be full: then the change is    *)
(* dropped, and watchFiles only logs the error (watch.go:158).  A change   *)
(* is lost until the watcher reports another one of that file.             *)
(***************************************************************************)
Missed(e) == /\ lost' = lost \union ({e} \ events)
             /\ UNCHANGED events

Noticed(e) == \/ /\ armed
                 /\ events' = events \union {e}
                 /\ lost' = lost \ {e}
              \/ /\ armed => events # {}
                 /\ Missed(e)

DiskChange(f, generation) ==
    /\ changes < MaxChanges
    /\ changes' = changes + 1
    /\ disk' = [disk EXCEPT ![f] = generation]
    /\ IF armed /\ f \notin found THEN UNCHANGED <<events, lost>> ELSE Noticed(f)
    /\ UNCHANGED <<names, open, seen, pc, todo, found, prev, armed, pending,
                   rebuildPending, timer, visited, skipped>>

\* A filelist edit adds or removes one name.
FilelistEdit(f) ==
    /\ changes < MaxChanges
    /\ changes' = changes + 1
    /\ names' = IF f \in names THEN names \ {f} ELSE names \union {f}
    /\ Noticed(Filelist)
    /\ UNCHANGED <<disk, open, seen, pc, todo, found, prev, armed, pending,
                   rebuildPending, timer, visited, skipped>>

World == \E f \in Files : \/ DiskChange(f, changes + 1)
                          \/ disk[f] # Gone /\ DiskChange(f, Gone)
                          \/ FilelistEdit(f)

(***************************************************************************)
(* The client.  Opening and editing index the buffer; closing goes back to *)
(* what is on disk, and leaves the entry alone if there is nothing.        *)
(***************************************************************************)
DidOpen(f) ==
    /\ f \notin open
    /\ open' = open \union {f}
    /\ visited' = visited \union {f}
    /\ seen' = [seen EXCEPT ![f] = Scanned(f, open')]
    /\ skipped' = skipped \ {f}
    /\ UNCHANGED <<world, pc, todo, found, prev, armed, batch, lost>>

DidChange(f) ==
    /\ f \in open
    /\ Rescan(f)
    /\ UNCHANGED <<world, open, pc, todo, found, prev, armed, batch, lost, visited>>

\* Mutant: closing leaves the entry to the watcher.
DidClose_NoRescan(f) ==
    /\ f \in open
    /\ open' = open \ {f}
    /\ UNCHANGED <<seen, skipped, world, pc, todo, found, prev, armed, batch,
                   lost, visited>>

DidClose(f) ==
    /\ f \in open
    /\ open' = open \ {f}
    /\ IF disk[f] = Gone THEN UNCHANGED <<seen, skipped>>
       ELSE /\ seen' = [seen EXCEPT ![f] = Scanned(f, open')]
            /\ skipped' = skipped \ {f}
    /\ UNCHANGED <<world, pc, todo, found, prev, armed, batch, lost, visited>>

Client == \E f \in Files : DidOpen(f) \/ DidChange(f) \/ DidClose(f)

Next == Loop \/ World \/ Client

\* The loop's goroutine keeps running, and the timer fires once it is armed.
Spec == Init /\ [][Next]_vars /\ WF_vars(Loop)

-------------------------------------------------------------------------------
\* The loop has nothing to do: no event, no batch, no timer.
Settled == /\ pc = "select" /\ events = {} /\ pending = {}
           /\ ~timer /\ ~rebuildPending

Entry(f) == [{f} \union HeadersOf[f] -> Generations \union {Gone, Buffer}]

\* Types; a batch exists only in the event loop; the watcher is open in it.
TypeOK ==
    /\ disk \in [Files -> Generations \union {Gone}]
    /\ \A f \in Files : seen[f] \in {NoEntry} \union Entry(f)
    /\ pc \in {"discover", "scan", "headers", "arm", "select", "sync", "cascade"}
    /\ {names, open, todo, found, prev, pending, visited, skipped} \subseteq SUBSET Files
    /\ {events, lost} \subseteq SUBSET (Files \union {Filelist})
    /\ changes \in 0 .. MaxChanges
    /\ armed <=> pc \in {"select", "sync", "cascade"}
    /\ pending \subseteq found
    /\ pending # {} \/ rebuildPending => timer \/ pc = "sync"

\* "keeping the index fresh for edits made outside the editor": at rest, a
\* watched file that is not open is indexed as it is on disk.
FreshWhenSettled ==
    Settled => \A f \in found \ (lost \union open) :
                   disk[f] # Gone => Indexed(f) /\ seen[f][f] = disk[f]

\* A file that goes from disk goes from the index, so that nothing resolves
\* into it -- but for what a closed buffer left behind.
DeletedIsDropped ==
    Settled => \A f \in Files \ (lost \union visited) : disk[f] = Gone => ~Indexed(f)

\* The cascade: at rest, every file of the view, open or not, was scanned with
\* the text its headers have on disk, if the scan found them at all.
HeaderEffects ==
    Settled => \A f \in found \ (lost \union skipped) : \A h \in IncludesOf(f) \ lost :
                   h \in found /\ (disk[f] # Gone \/ f \in open)
                       => seen[f][h] = disk[h]

\* The view follows the filelists: at rest, what they name is indexed, and
\* what neither they nor an included header lead to is not.
ViewFollowsFilelists ==
    Settled /\ Filelist \notin lost =>
        /\ \A f \in names : disk[f] = 0 => Indexed(f)
        /\ \A f \in Files \ visited : Indexed(f) => f \in found

\* The loop keeps coming to rest: no batch, rebuild or cascade is left hanging.
AlwaysSettles == []<>Settled

-------------------------------------------------------------------------------
\* cascadeReindexDependents: every file that includes one of the batch, "each
\* already reindexed by the caller", is scanned again -- open files too.
BatchReachesBuffers ==
    Settled => \A f \in (found \intersect open) \ lost : \A h \in IncludesOf(f) \ lost :
                   h \in found => seen[f][h] = disk[h]
===============================================================================
