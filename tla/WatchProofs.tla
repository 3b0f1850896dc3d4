----------------------------- MODULE WatchProofs -----------------------------
(***************************************************************************)
(* What is true of the index whenever the watching loop comes to rest, for *)
(* any files, headers and changes.  The loop is seldom at rest, so each    *)
(* fact is carried through a pass and through a batch by naming who still  *)
(* owes the scan that makes it true: the worker whose call is still to be  *)
(* made, the event that is not taken, the batch that waits for its tick,   *)
(* or the cascade.                                                         *)
(***************************************************************************)
EXTENDS Watch, TLAPS

\* The loop's phases, and what may wait in each.
Phases ==
    /\ pc \in {"discover", "scan", "headers", "arm", "select", "sync", "cascade"}
    /\ armed \in BOOLEAN /\ rebuildPending \in BOOLEAN /\ timer \in BOOLEAN
    /\ armed <=> pc \in {"select", "sync", "cascade"}
    /\ ~armed => events = {} /\ pending = {} /\ ~rebuildPending /\ ~timer
    /\ pc \in {"sync", "cascade"} => ~timer /\ ~rebuildPending
    /\ pc = "select" /\ (pending # {} \/ rebuildPending) => timer
    /\ pc = "cascade" => pending = {}
    /\ pc = "arm" => todo = {}
    /\ pc = "scan" => todo \subseteq found
    /\ pc = "sync" => todo \subseteq pending
    /\ pending \subseteq found

Sets ==
    /\ names \in SUBSET Files /\ open \in SUBSET Files /\ todo \in SUBSET Files
    /\ found \in SUBSET Files /\ prev \in SUBSET Files /\ pending \in SUBSET Files
    /\ visited \in SUBSET Files /\ skipped \in SUBSET Files
    /\ events \in SUBSET (Files \union {Filelist}) /\ lost \in SUBSET (Files \union {Filelist})
    /\ open \subseteq visited

Values ==
    /\ changes \in 0 .. MaxChanges
    /\ disk \in [Files -> Generations \union {Gone}]
    /\ DOMAIN seen = Files
    /\ \A f \in Files : seen[f] \in {NoEntry} \union Entry(f)

\* Whatever is indexed and was never open is one of this pass or of the last.
Known ==
    /\ pc \notin {"scan", "headers"} => prev = found
    /\ \A f \in Files \ visited : Indexed(f) => f \in found \union prev
    /\ pc = "cascade" => \A f \in todo : Indexed(f)

\* f is yet to be synchronised from disk.
Waiting(f) == \/ f \in events
              \/ pc = "select" /\ f \in pending
              \/ pc = "sync" /\ f \in todo

Fresh ==
    pc # "discover" => \A f \in found \ (lost \union open) :
        disk[f] # Gone => \/ Indexed(f) /\ seen[f][f] = disk[f]
                          \/ Waiting(f)
                          \/ pc = "scan" /\ f \in todo

Dropped ==
    pc # "discover" => \A f \in found \ (lost \union visited) :
        disk[f] = Gone => armed /\ (~Indexed(f) \/ Waiting(f))

\* f is there to be scanned, and the loop knows.
Live(f) == f \in open \/ (disk[f] # Gone /\ f \notin lost)

\* f is yet to be scanned with the header h as it is now.
Owed(f, h) == \/ h \in events
              \/ f \notin open /\ Waiting(f)
              \/ pc = "select" /\ h \in pending
              \/ pc = "sync" /\ h \in pending /\ (f \in pending => f \in open)
              \/ pc = "cascade" /\ f \in todo

PassHeaders ==
    pc \in {"scan", "headers", "arm"} =>
        \A f \in found \ todo : Live(f) =>
            \A h \in HeadersOf[f] \ lost : Indexed(f) /\ seen[f][h] = disk[h]

BatchHeaders ==
    armed => \A f \in found \ skipped : Live(f) =>
        \A h \in (IncludesOf(f) \intersect found) \ lost : seen[f][h] = disk[h] \/ Owed(f, h)

Named ==
    pc # "discover" =>
        /\ Filelist \notin lost \union events /\ ~rebuildPending =>
               \A f \in names : disk[f] = 0 => f \in found
        /\ \A f \in found : disk[f] = 0 => Indexed(f) \/ (pc = "scan" /\ f \in todo)

IInv == /\ Phases /\ Sets /\ Values
        /\ Known /\ Fresh /\ Dropped /\ PassHeaders /\ BatchHeaders /\ Named

-------------------------------------------------------------------------------
\* Scans.

LEMMA GoneIsNotZero == Gone # 0
BY WatchAssumption DEF Gone

\* An entry just made.
LEMMA ScannedIs ==
  ASSUME Values, NEW f \in Files, NEW b
  PROVE  /\ Scanned(f, b) \in Entry(f) /\ Scanned(f, b) # NoEntry
         /\ f \notin b => Scanned(f, b)[f] = disk[f]
         /\ \A h \in HeadersOf[f] : Scanned(f, b)[h] = disk[h]
<1>1. HeadersOf[f] \subseteq Files /\ f \notin HeadersOf[f]
  BY WatchAssumption
<1>2. DOMAIN Scanned(f, b) = {f} \union HeadersOf[f]
  BY DEF Scanned
<1>3. DOMAIN NoEntry = {}
  BY DEF NoEntry
<1>4. Scanned(f, b) # NoEntry
  BY <1>2, <1>3
<1>5. Scanned(f, b) \in Entry(f)
  BY <1>1 DEF Scanned, Entry, Values
<1> QED BY <1>1, <1>4, <1>5 DEF Scanned

\* A scan of f, with the buffers b, makes a new entry of it and leaves the others.
LEMMA Rescanned ==
  ASSUME Values, NEW f \in Files, NEW b, UNCHANGED <<disk, changes>>,
         seen' = [seen EXCEPT ![f] = Scanned(f, b)]
  PROVE  /\ Values'
         /\ Indexed(f)' /\ (f \notin b => seen'[f][f] = disk[f])
         /\ \A h \in HeadersOf[f] : seen'[f][h] = disk[h]
         /\ \A g \in Files \ {f} : /\ seen'[g] = seen[g]
                                   /\ Indexed(g)' <=> Indexed(g)
                                   /\ IncludesOf(g)' = IncludesOf(g)
<1>1. /\ DOMAIN seen' = Files /\ seen'[f] = Scanned(f, b)
      /\ \A g \in Files \ {f} : seen'[g] = seen[g]
  BY DEF Values
<1>2. /\ Scanned(f, b) \in Entry(f) /\ Scanned(f, b) # NoEntry
      /\ f \notin b => Scanned(f, b)[f] = disk[f]
      /\ \A h \in HeadersOf[f] : Scanned(f, b)[h] = disk[h]
  BY ScannedIs
<1>3. Values'
  BY <1>1, <1>2 DEF Values
<1>4. \A g \in Files \ {f} : Indexed(g)' <=> Indexed(g)
  BY <1>1 DEF Indexed
<1>5. \A g \in Files \ {f} : IncludesOf(g)' = IncludesOf(g)
  BY <1>1, <1>4 DEF IncludesOf
<1> QED BY <1>1, <1>2, <1>3, <1>4, <1>5 DEF Indexed

\* A removal takes the entries of some files.
LEMMA Removed ==
  ASSUME Values, NEW F \in SUBSET Files, UNCHANGED <<disk, changes>>, Remove(F)
  PROVE  /\ Values'
         /\ \A g \in F : ~Indexed(g)' /\ IncludesOf(g)' = {}
         /\ \A g \in Files \ F : /\ seen'[g] = seen[g]
                                 /\ Indexed(g)' <=> Indexed(g)
                                 /\ IncludesOf(g)' = IncludesOf(g)
<1>1. /\ DOMAIN seen' = Files /\ \A g \in F : seen'[g] = NoEntry
      /\ \A g \in Files \ F : seen'[g] = seen[g]
  BY DEF Remove
<1>2. /\ \A g \in F : ~Indexed(g)'
      /\ \A g \in Files \ F : Indexed(g)' <=> Indexed(g)
  BY <1>1 DEF Indexed
<1>3. /\ \A g \in F : IncludesOf(g)' = {}
      /\ \A g \in Files \ F : IncludesOf(g)' = IncludesOf(g)
  BY <1>1, <1>2 DEF IncludesOf
<1>4. Values'
  BY <1>1 DEF Values
<1> QED BY <1>1, <1>2, <1>3, <1>4

-------------------------------------------------------------------------------
\* The steps.

\* A pass begins: every file it found is owed a scan, and nothing is lost yet.
LEMMA DiscoverKeeps == ASSUME IInv, Discover PROVE IInv'
<1>1. Values'
  BY DEF IInv, Values, Discover, world
<1>2. Phases'
  BY DEF IInv, Phases, Discover, batch
<1>3. Sets'
  BY DEF IInv, Sets, Discover, world, batch
<1>4. Known'
  BY DEF IInv, Known, Indexed, Discover
<1>5. Fresh'
  BY DEF IInv, Fresh, Discover
<1>6. Dropped'
  BY DEF IInv, Dropped, Discover, world
<1>7. PassHeaders'
  BY DEF IInv, PassHeaders, Discover
<1>8. BatchHeaders'
  BY DEF IInv, BatchHeaders, Phases, Discover
<1>9. Named'
  BY GoneIsNotZero DEF IInv, Named, Discover, world
<1> QED BY <1>1, <1>2, <1>3, <1>4, <1>5, <1>6, <1>7, <1>8, <1>9 DEF IInv

\* The headers the pass reached are the next calls.
LEMMA ScanHeadersKeeps == ASSUME IInv, ScanHeaders PROVE IInv'
<1>1. Values'
  BY DEF IInv, Values, ScanHeaders, world
<1>2. Phases'
  BY DEF IInv, Phases, ScanHeaders, batch
<1>3. Sets'
  BY WatchAssumption DEF IInv, Sets, ScanHeaders, world, batch, ghosts, IncludesOf
<1>4. Known'
  BY DEF IInv, Known, Indexed, ScanHeaders, ghosts
<1>5. Fresh'
  BY DEF IInv, Fresh, Phases, Waiting, Indexed, ScanHeaders, world, ghosts
<1>6. Dropped'
  BY DEF IInv, Dropped, Phases, ScanHeaders, world, ghosts
<1>7. PassHeaders'
  BY DEF IInv, PassHeaders, Live, Indexed, ScanHeaders, world, ghosts
<1>8. BatchHeaders'
  BY DEF IInv, BatchHeaders, Phases, ScanHeaders
<1>9. Named'
  BY DEF IInv, Named, Phases, Indexed, ScanHeaders, world, ghosts
<1> QED BY <1>1, <1>2, <1>3, <1>4, <1>5, <1>6, <1>7, <1>8, <1>9 DEF IInv

\* The watcher is open.
LEMMA ArmKeeps == ASSUME IInv, Arm PROVE IInv'
<1>1. Values'
  BY DEF IInv, Values, Arm, world
<1>2. Phases'
  BY DEF IInv, Phases, Arm, batch
<1>3. Sets'
  BY DEF IInv, Sets, Arm, world, batch, ghosts
<1>4. Known'
  BY DEF IInv, Known, Indexed, Arm, ghosts
<1>5. Fresh'
  BY DEF IInv, Fresh, Phases, Waiting, Indexed, Arm, world, ghosts
<1>6. Dropped'
  BY DEF IInv, Dropped, Phases, Arm, world, ghosts
<1>7. PassHeaders'
  BY DEF IInv, PassHeaders, Arm
<1>8. BatchHeaders'
  BY DEF IInv, BatchHeaders, Phases, Live, IncludesOf, Arm, world, ghosts, PassHeaders
<1>9. Named'
  BY DEF IInv, Named, Phases, Indexed, Arm, world, ghosts
<1> QED BY <1>1, <1>2, <1>3, <1>4, <1>5, <1>6, <1>7, <1>8, <1>9 DEF IInv

\* Everything starts again.
LEMMA TickRebuildKeeps == ASSUME IInv, TickRebuild PROVE IInv'
<1>1. Values'
  BY DEF IInv, Values, TickRebuild, world
<1>2. Phases'
  BY DEF IInv, Phases, TickRebuild
<1>3. Sets'
  BY DEF IInv, Sets, TickRebuild, world, ghosts
<1>4. Known'
  BY DEF IInv, Known, Indexed, TickRebuild, ghosts
<1>5. Fresh'
  BY DEF IInv, Fresh, TickRebuild
<1>6. Dropped'
  BY DEF IInv, Dropped, TickRebuild
<1>7. PassHeaders'
  BY DEF IInv, PassHeaders, TickRebuild
<1>8. BatchHeaders'
  BY DEF IInv, BatchHeaders, TickRebuild
<1>9. Named'
  BY DEF IInv, Named, TickRebuild
<1> QED BY <1>1, <1>2, <1>3, <1>4, <1>5, <1>6, <1>7, <1>8, <1>9 DEF IInv

\* What was pending is owed a synchronisation.
LEMMA TickBatchKeeps == ASSUME IInv, TickBatch PROVE IInv'
<1>1. Values'
  BY DEF IInv, Values, TickBatch, world
<1>2. Phases'
  BY DEF IInv, Phases, TickBatch
<1>3. Sets'
  BY DEF IInv, Sets, TickBatch, world, ghosts
<1>4. Known'
  BY DEF IInv, Known, Indexed, TickBatch, ghosts
<1>5. Fresh'
  BY DEF IInv, Fresh, Waiting, Indexed, TickBatch, world, ghosts
<1>6. Dropped'
  BY DEF IInv, Dropped, Waiting, Indexed, TickBatch, world, ghosts
<1>7. PassHeaders'
  BY DEF IInv, PassHeaders, TickBatch
<1>8. BatchHeaders'
  BY DEF IInv, BatchHeaders, Live, Owed, Waiting, IncludesOf, Indexed, TickBatch, world, ghosts
<1>9. Named'
  BY DEF IInv, Named, Indexed, TickBatch, world, ghosts
<1> QED BY <1>1, <1>2, <1>3, <1>4, <1>5, <1>6, <1>7, <1>8, <1>9 DEF IInv

\* Whoever includes what changed is owed a scan.
LEMMA CascadeKeeps == ASSUME IInv, Cascade PROVE IInv'
<1>1. Values'
  BY DEF IInv, Values, Cascade, world
<1>2. Phases'
  BY DEF IInv, Phases, Cascade
<1>3. Sets'
  BY DEF IInv, Sets, Cascade, world, Dependents
<1>4. Known'
  BY DEF IInv, Known, Indexed, Cascade, Dependents, IncludesOf
<1>5. Fresh'
  BY DEF IInv, Fresh, Waiting, Indexed, Cascade, world
<1>6. Dropped'
  BY DEF IInv, Dropped, Waiting, Indexed, Cascade, world
<1>7. PassHeaders'
  BY DEF IInv, PassHeaders, Cascade
<1>8. BatchHeaders'
  <2> SUFFICES ASSUME NEW f \in found \ skipped', Live(f), NEW h \in (IncludesOf(f) \intersect found) \ lost
               PROVE  seen[f][h] = disk[h] \/ Owed(f, h)'
    BY DEF BatchHeaders, Cascade, Live, IncludesOf, Indexed, world
  <2>1. /\ pc = "sync" /\ armed /\ todo = {} /\ pc' = "cascade" /\ UNCHANGED <<events, open>>
        /\ todo' = (UNION {Dependents(g) : g \in pending}) \ pending
        /\ skipped' = skipped \union {g \in pending \intersect open : HeadersOf[g] \intersect pending # {}}
    BY DEF IInv, Phases, Cascade
  <2>2. seen[f][h] = disk[h] \/ Owed(f, h)
    BY <2>1 DEF IInv, BatchHeaders
  <2>3. f \in Files /\ h \in HeadersOf[f]
    BY DEF IInv, Sets, IncludesOf
  <2>4. CASE h \in pending /\ f \notin pending
    <3>1. f \in Dependents(h)
      BY <2>3 DEF Dependents
    <3>2. f \in todo'
      BY <2>1, <2>4, <3>1
    <3> QED BY <2>1, <3>2 DEF Owed
  <2>5. CASE ~(h \in pending /\ f \notin pending)
    BY <2>1, <2>2, <2>3, <2>5 DEF Owed, Waiting
  <2> QED BY <2>4, <2>5
<1>9. Named'
  BY DEF IInv, Named, Indexed, Cascade, world
<1> QED BY <1>1, <1>2, <1>3, <1>4, <1>5, <1>6, <1>7, <1>8, <1>9 DEF IInv

\* Nothing is owed by the batch any more.
LEMMA BatchDoneKeeps == ASSUME IInv, BatchDone PROVE IInv'
<1>1. Values'
  BY DEF IInv, Values, BatchDone, world
<1>2. Phases'
  BY DEF IInv, Phases, BatchDone, batch
<1>3. Sets'
  BY DEF IInv, Sets, BatchDone, world, batch, ghosts
<1>4. Known'
  BY DEF IInv, Known, Indexed, BatchDone, ghosts
<1>5. Fresh'
  BY DEF IInv, Fresh, Waiting, Indexed, BatchDone, world, batch, ghosts
<1>6. Dropped'
  BY DEF IInv, Dropped, Waiting, Indexed, BatchDone, world, batch, ghosts
<1>7. PassHeaders'
  BY DEF IInv, PassHeaders, BatchDone
<1>8. BatchHeaders'
  BY DEF IInv, BatchHeaders, Live, Owed, Waiting, IncludesOf, Indexed, BatchDone, world, batch, ghosts
<1>9. Named'
  BY DEF IInv, Named, Indexed, BatchDone, world, batch, ghosts
<1> QED BY <1>1, <1>2, <1>3, <1>4, <1>5, <1>6, <1>7, <1>8, <1>9 DEF IInv

\* What an event reports now waits for the tick.
LEMMA TakeEventKeeps == ASSUME IInv, NEW e \in Files \union {Filelist}, TakeEvent(e) PROVE IInv'
<1>1. Values'
  BY DEF IInv, Values, TakeEvent, world
<1>2. Phases'
  BY DEF IInv, Phases, TakeEvent
<1>3. Sets'
  BY DEF IInv, Sets, TakeEvent, world, ghosts
<1>4. Known'
  BY DEF IInv, Known, Indexed, TakeEvent, ghosts
<1>5. Fresh'
  BY DEF IInv, Fresh, Waiting, Indexed, TakeEvent, world, ghosts
<1>6. Dropped'
  BY DEF IInv, Dropped, Waiting, Indexed, TakeEvent, world, ghosts
<1>7. PassHeaders'
  BY DEF IInv, PassHeaders, TakeEvent
<1>8. BatchHeaders'
  BY DEF IInv, BatchHeaders, Live, Owed, Waiting, IncludesOf, Indexed, TakeEvent, world, ghosts
<1>9. Named'
  BY DEF IInv, Named, Indexed, TakeEvent, world, ghosts
<1> QED BY <1>1, <1>2, <1>3, <1>4, <1>5, <1>6, <1>7, <1>8, <1>9 DEF IInv

\* A change is reported, lost, or of no concern.
LEMMA DiskChangeKeeps == ASSUME IInv, NEW f \in Files, NEW n \in (Generations \ {0}) \union {Gone}, DiskChange(f, n) PROVE IInv'
<1>1. Values'
  BY WatchAssumption DEF IInv, Values, Generations, DiskChange
<1>2. Phases'
  BY DEF IInv, Phases, DiskChange, Noticed, Missed
<1>3. Sets'
  BY DEF IInv, Sets, DiskChange, Noticed, Missed
<1>4. Known'
  BY DEF IInv, Known, Indexed, DiskChange
<1>5. Fresh'
  BY DEF IInv, Fresh, Waiting, Indexed, DiskChange, Noticed, Missed
<1>6. Dropped'
  BY DEF IInv, Dropped, Phases, Waiting, Indexed, DiskChange, Noticed, Missed
<1>7. PassHeaders'
  BY DEF IInv, PassHeaders, Phases, Live, Indexed, DiskChange, Noticed, Missed
<1>8. BatchHeaders'
  BY DEF IInv, BatchHeaders, Live, Owed, Waiting, IncludesOf, Indexed, DiskChange, Noticed, Missed
<1>9. Named'
  BY GoneIsNotZero DEF IInv, Named, Indexed, DiskChange, Noticed, Missed
<1> QED BY <1>1, <1>2, <1>3, <1>4, <1>5, <1>6, <1>7, <1>8, <1>9 DEF IInv

\* An edit of the filelist is reported or lost.
LEMMA FilelistEditKeeps == ASSUME IInv, NEW f \in Files, FilelistEdit(f) PROVE IInv'
<1>1. Values'
  BY WatchAssumption DEF IInv, Values, Generations, FilelistEdit
<1>2. Phases'
  BY DEF IInv, Phases, FilelistEdit, Noticed, Missed
<1>3. Sets'
  BY DEF IInv, Sets, FilelistEdit, Noticed, Missed
<1>4. Known'
  BY DEF IInv, Known, Indexed, FilelistEdit
<1>5. Fresh'
  BY DEF IInv, Fresh, Waiting, Indexed, FilelistEdit, Noticed, Missed
<1>6. Dropped'
  BY DEF IInv, Dropped, Waiting, Indexed, FilelistEdit, Noticed, Missed
<1>7. PassHeaders'
  BY DEF IInv, PassHeaders, Phases, Live, Indexed, FilelistEdit, Noticed, Missed
<1>8. BatchHeaders'
  BY DEF IInv, BatchHeaders, Live, Owed, Waiting, IncludesOf, Indexed, FilelistEdit, Noticed, Missed
<1>9. Named'
  BY DEF IInv, Named, Indexed, FilelistEdit, Noticed, Missed
<1> QED BY <1>1, <1>2, <1>3, <1>4, <1>5, <1>6, <1>7, <1>8, <1>9 DEF IInv

\* A worker's call.
LEMMA ScanOneKeeps == ASSUME IInv, NEW f \in Files, ScanOne(f) PROVE IInv'
<1>1. CASE f \in open \/ disk[f] # Gone
  <2>1. /\ pc \in {"scan", "headers"} /\ f \in todo /\ todo' = todo \ {f}
        /\ skipped' = skipped \ {f} /\ found' = found \union {f}
        /\ UNCHANGED <<names, open, prev, pc, armed, events, pending,
                         rebuildPending, timer, changes, lost, visited, disk>>
    BY <1>1 DEF ScanOne, world, batch, Rescan
  <2>2. /\ Values'
        /\ Indexed(f)' /\ (f \notin open => seen'[f][f] = disk[f])
        /\ \A h \in HeadersOf[f] : seen'[f][h] = disk[h]
        /\ \A g \in Files \ {f} : /\ seen'[g] = seen[g]
                                  /\ Indexed(g)' <=> Indexed(g)
                                  /\ IncludesOf(g)' = IncludesOf(g)
    BY <1>1, <2>1, Rescanned DEF IInv, ScanOne, Rescan
  <2>3. Phases'
    BY <2>1, <2>2, <1>1 DEF IInv, Phases
  <2>4. Sets'
    BY <2>1, <2>2, <1>1 DEF IInv, Sets
  <2>5. Known'
    BY <2>1, <2>2, <1>1 DEF IInv, Known
  <2>6. Fresh'
    BY <2>1, <2>2, <1>1 DEF IInv, Fresh, Sets, Waiting
  <2>7. Dropped'
    BY <2>1, <2>2, <1>1 DEF IInv, Dropped, Sets, Waiting
  <2>8. PassHeaders'
    BY <2>1, <2>2, <1>1 DEF IInv, PassHeaders, Sets, Live
  <2>9. BatchHeaders'
    <3> SUFFICES ASSUME armed', NEW g \in found' \ skipped', Live(g)',
                        NEW h \in (IncludesOf(g)' \intersect found') \ lost'
                 PROVE  seen'[g][h] = disk'[h] \/ Owed(g, h)'
      BY DEF BatchHeaders
    <3>1. g \in Files
      BY <2>1 DEF IInv, Sets
    <3>2. CASE g = f
      BY <2>1, <2>2, <1>1, <3>1, <3>2 DEF IncludesOf
    <3>3. CASE ~(g = f)
      BY <2>1, <2>2, <1>1, <3>1, <3>3 DEF IInv, BatchHeaders, Phases
    <3> QED BY <3>2, <3>3
  <2>10. Named'
    BY <2>1, <2>2, <1>1 DEF IInv, Named, Sets
  <2> QED BY <2>2, <2>3, <2>4, <2>5, <2>6, <2>7, <2>8, <2>9, <2>10 DEF IInv
<1>2. CASE ~(f \in open \/ disk[f] # Gone)
  <2>1. /\ pc \in {"scan", "headers"} /\ f \in todo /\ todo' = todo \ {f}
        /\ UNCHANGED <<names, open, found, prev, pc, armed, events, pending, rebuildPending,
                         timer, changes, lost, visited, skipped, disk, seen>>
    BY <1>2 DEF ScanOne, world, batch
  <2>2. Values'
    BY <2>1 DEF IInv, Values
  <2>3. Phases'
    BY <2>1, <2>2, <1>2 DEF IInv, Phases
  <2>4. Sets'
    BY <2>1, <2>2, <1>2 DEF IInv, Sets
  <2>5. Known'
    BY <2>1, <2>2, <1>2 DEF IInv, Known, Indexed
  <2>6. Fresh'
    BY <2>1, <2>2, <1>2 DEF IInv, Fresh, Waiting, Indexed
  <2>7. Dropped'
    BY <2>1, <2>2, <1>2 DEF IInv, Dropped, Waiting, Indexed
  <2>8. PassHeaders'
    BY <2>1, <2>2, <1>2 DEF IInv, PassHeaders, Live, Indexed
  <2>9. BatchHeaders'
    BY <2>1, <2>2, <1>2 DEF IInv, BatchHeaders, Live, Owed, Waiting, IncludesOf, Indexed
  <2>10. Named'
    BY GoneIsNotZero, <2>1, <2>2, <1>2 DEF IInv, Named, Indexed
  <2> QED BY <2>2, <2>3, <2>4, <2>5, <2>6, <2>7, <2>8, <2>9, <2>10 DEF IInv
<1> QED BY <1>1, <1>2

\* What the last pass knew and this one does not is dropped, all else is current.
LEMMA ReconcileKeeps == ASSUME IInv, Reconcile PROVE IInv'
<1>1. /\ pc = "headers" /\ todo = {} /\ prev' = found /\ pc' = "arm"
      /\ UNCHANGED <<names, open, todo, found, armed, events, pending, rebuildPending,
                       timer, changes, lost, visited, skipped, disk>>
  BY DEF Reconcile, world, batch, ghosts
<1>2. /\ Values'
      /\ \A g \in (prev \ found) \ open : ~Indexed(g)' /\ IncludesOf(g)' = {}
      /\ \A g \in Files \ ((prev \ found) \ open) :
            /\ seen'[g] = seen[g]
            /\ Indexed(g)' <=> Indexed(g)
            /\ IncludesOf(g)' = IncludesOf(g)
  BY <1>1, Removed DEF IInv, Sets, Reconcile
<1>3. Phases'
  BY <1>1, <1>2 DEF IInv, Phases
<1>4. Sets'
  BY <1>1, <1>2 DEF IInv, Sets
<1>5. Known'
  <2>1. ASSUME NEW g \in Files \ visited, Indexed(g)' PROVE g \in found
    <3>1. g \notin (prev \ found) \ open
      BY <1>2, <2>1
    <3>2. Indexed(g)
      BY <1>2, <2>1, <3>1
    <3> QED BY <2>1, <3>1, <3>2 DEF IInv, Known, Sets
  <2> QED BY <1>1, <2>1 DEF Known
<1>6. Fresh'
  <2>1. \A g \in found : seen'[g] = seen[g] /\ (Indexed(g)' <=> Indexed(g))
    <3> TAKE g \in found
    <3>1. g \in Files \ ((prev \ found) \ open)
      BY DEF IInv, Sets
    <3> QED BY <1>2, <3>1
  <2> QED BY <1>1, <2>1 DEF IInv, Fresh, Waiting
<1>7. Dropped'
  BY <1>1, <1>2 DEF IInv, Dropped, Sets, Waiting
<1>8. PassHeaders'
  <2>1. \A g \in found : seen'[g] = seen[g] /\ (Indexed(g)' <=> Indexed(g))
    <3> TAKE g \in found
    <3>1. g \in Files \ ((prev \ found) \ open)
      BY DEF IInv, Sets
    <3> QED BY <1>2, <3>1
  <2> QED BY <1>1, <2>1 DEF IInv, PassHeaders, Live
<1>9. BatchHeaders'
  <2> SUFFICES ASSUME armed', NEW g \in found' \ skipped', Live(g)',
                      NEW h \in (IncludesOf(g)' \intersect found') \ lost'
               PROVE  seen'[g][h] = disk'[h] \/ Owed(g, h)'
    BY DEF BatchHeaders
  <2>1. g \in Files
    BY <1>1 DEF IInv, Sets
  <2>2. CASE g \in ((prev \ found) \ open)
    BY <1>1, <1>2, <2>1, <2>2
  <2>3. CASE ~(g \in ((prev \ found) \ open))
    BY <1>1, <1>2, <2>1, <2>3 DEF IInv, BatchHeaders, Live, Owed, Waiting
  <2> QED BY <2>2, <2>3
<1>10. Named'
  <2>1. \A g \in found : Indexed(g)' <=> Indexed(g)
    <3> TAKE g \in found
    <3>1. g \in Files \ ((prev \ found) \ open)
      BY DEF IInv, Sets
    <3> QED BY <1>2, <3>1
  <2> QED BY <1>1, <2>1 DEF IInv, Named
<1> QED BY <1>2, <1>3, <1>4, <1>5, <1>6, <1>7, <1>8, <1>9, <1>10 DEF IInv

\* A file of the batch.
LEMMA SyncOneKeeps == ASSUME IInv, NEW f \in Files, SyncOne(f) PROVE IInv'
<1>1. CASE f \in open
  <2>1. /\ pc = "sync" /\ f \in todo /\ todo' = todo \ {f}
        /\ UNCHANGED <<names, open, found, prev, pc, armed, events, pending, rebuildPending,
                         timer, changes, lost, visited, skipped, disk, seen>>
    BY <1>1 DEF SyncOne, world, batch
  <2>2. Values'
    BY <2>1 DEF IInv, Values
  <2>3. Phases'
    BY <2>1, <2>2, <1>1 DEF IInv, Phases
  <2>4. Sets'
    BY <2>1, <2>2, <1>1 DEF IInv, Sets
  <2>5. Known'
    BY <2>1, <2>2, <1>1 DEF IInv, Known, Indexed
  <2>6. Fresh'
    BY <2>1, <2>2, <1>1 DEF IInv, Fresh, Waiting, Indexed
  <2>7. Dropped'
    BY <2>1, <2>2, <1>1 DEF IInv, Dropped, Sets, Waiting, Indexed
  <2>8. PassHeaders'
    BY <2>1, <2>2, <1>1 DEF IInv, PassHeaders
  <2>9. BatchHeaders'
    BY <2>1, <2>2, <1>1 DEF IInv, BatchHeaders, Live, Owed, Waiting, IncludesOf, Indexed
  <2>10. Named'
    BY <2>1, <2>2, <1>1 DEF IInv, Named, Indexed
  <2> QED BY <2>2, <2>3, <2>4, <2>5, <2>6, <2>7, <2>8, <2>9, <2>10 DEF IInv
<1>2. CASE f \notin open /\ disk[f] = Gone
  <2>1. /\ pc = "sync" /\ f \in todo /\ todo' = todo \ {f}
        /\ UNCHANGED <<names, open, found, prev, pc, armed, events, pending,
                         rebuildPending, timer, changes, lost, visited, skipped, disk>>
    BY <1>2 DEF SyncOne, world, batch
  <2>2. /\ Values'
        /\ ~Indexed(f)' /\ IncludesOf(f)' = {}
        /\ \A g \in Files \ {f} : /\ seen'[g] = seen[g]
                                  /\ Indexed(g)' <=> Indexed(g)
                                  /\ IncludesOf(g)' = IncludesOf(g)
    BY <1>2, <2>1, Removed DEF IInv, SyncOne
  <2>3. Phases'
    BY <2>1, <2>2, <1>2 DEF IInv, Phases
  <2>4. Sets'
    BY <2>1, <2>2, <1>2 DEF IInv, Sets
  <2>5. Known'
    BY <2>1, <2>2, <1>2 DEF IInv, Known
  <2>6. Fresh'
    BY <2>1, <2>2, <1>2 DEF IInv, Fresh, Sets, Waiting
  <2>7. Dropped'
    BY <2>1, <2>2, <1>2 DEF IInv, Dropped, Sets, Waiting
  <2>8. PassHeaders'
    BY <2>1, <2>2, <1>2 DEF IInv, PassHeaders
  <2>9. BatchHeaders'
    <3> SUFFICES ASSUME armed', NEW g \in found' \ skipped', Live(g)',
                        NEW h \in (IncludesOf(g)' \intersect found') \ lost'
                 PROVE  seen'[g][h] = disk'[h] \/ Owed(g, h)'
      BY DEF BatchHeaders
    <3>1. g \in Files
      BY <2>1 DEF IInv, Sets
    <3>2. CASE g = f
      BY <2>1, <2>2, <1>2, <3>1, <3>2
    <3>3. CASE ~(g = f)
      BY <2>1, <2>2, <1>2, <3>1, <3>3 DEF IInv, BatchHeaders, Live, Owed, Waiting
    <3> QED BY <3>2, <3>3
  <2>10. Named'
    BY GoneIsNotZero, <2>1, <2>2, <1>2 DEF IInv, Named, Sets
  <2> QED BY <2>2, <2>3, <2>4, <2>5, <2>6, <2>7, <2>8, <2>9, <2>10 DEF IInv
<1>3. CASE f \notin open /\ disk[f] # Gone
  <2>1. /\ pc = "sync" /\ f \in todo /\ todo' = todo \ {f}
        /\ skipped' = skipped \ {f}
        /\ UNCHANGED <<names, open, found, prev, pc, armed, events, pending,
                         rebuildPending, timer, changes, lost, visited, disk>>
    BY <1>3 DEF SyncOne, world, batch, Rescan
  <2>2. /\ Values'
        /\ Indexed(f)' /\ (f \notin open => seen'[f][f] = disk[f])
        /\ \A h \in HeadersOf[f] : seen'[f][h] = disk[h]
        /\ \A g \in Files \ {f} : /\ seen'[g] = seen[g]
                                  /\ Indexed(g)' <=> Indexed(g)
                                  /\ IncludesOf(g)' = IncludesOf(g)
    BY <1>3, <2>1, Rescanned DEF IInv, SyncOne, Rescan
  <2>3. Phases'
    BY <2>1, <2>2, <1>3 DEF IInv, Phases
  <2>4. Sets'
    BY <2>1, <2>2, <1>3 DEF IInv, Sets
  <2>5. Known'
    BY <2>1, <2>2, <1>3 DEF IInv, Known, Phases
  <2>6. Fresh'
    BY <2>1, <2>2, <1>3 DEF IInv, Fresh, Sets, Waiting
  <2>7. Dropped'
    BY <2>1, <2>2, <1>3 DEF IInv, Dropped, Sets, Waiting
  <2>8. PassHeaders'
    BY <2>1, <2>2, <1>3 DEF IInv, PassHeaders
  <2>9. BatchHeaders'
    <3> SUFFICES ASSUME armed', NEW g \in found' \ skipped', Live(g)',
                        NEW h \in (IncludesOf(g)' \intersect found') \ lost'
                 PROVE  seen'[g][h] = disk'[h] \/ Owed(g, h)'
      BY DEF BatchHeaders
    <3>1. g \in Files
      BY <2>1 DEF IInv, Sets
    <3>2. CASE g = f
      BY <2>1, <2>2, <1>3, <3>1, <3>2 DEF IncludesOf
    <3>3. CASE ~(g = f)
      BY <2>1, <2>2, <1>3, <3>1, <3>3 DEF IInv, BatchHeaders, Live, Owed, Waiting
    <3> QED BY <3>2, <3>3
  <2>10. Named'
    BY <2>1, <2>2, <1>3 DEF IInv, Named, Sets
  <2> QED BY <2>2, <2>3, <2>4, <2>5, <2>6, <2>7, <2>8, <2>9, <2>10 DEF IInv
<1> QED BY <1>1, <1>2, <1>3

\* A dependent.
LEMMA ReindexOneKeeps == ASSUME IInv, NEW f \in Files, ReindexOne(f) PROVE IInv'
<1>1. CASE f \in open \/ disk[f] # Gone
  <2>1. /\ pc = "cascade" /\ f \in todo /\ todo' = todo \ {f}
        /\ skipped' = skipped \ {f}
        /\ UNCHANGED <<names, open, found, prev, pc, armed, events, pending,
                         rebuildPending, timer, changes, lost, visited, disk>>
    BY <1>1 DEF ReindexOne, world, batch, Rescan
  <2>2. /\ Values'
        /\ Indexed(f)' /\ (f \notin open => seen'[f][f] = disk[f])
        /\ \A h \in HeadersOf[f] : seen'[f][h] = disk[h]
        /\ \A g \in Files \ {f} : /\ seen'[g] = seen[g]
                                  /\ Indexed(g)' <=> Indexed(g)
                                  /\ IncludesOf(g)' = IncludesOf(g)
    BY <1>1, <2>1, Rescanned DEF IInv, ReindexOne, Rescan
  <2>3. Phases'
    BY <2>1, <2>2, <1>1 DEF IInv, Phases
  <2>4. Sets'
    BY <2>1, <2>2, <1>1 DEF IInv, Sets
  <2>5. Known'
    BY <2>1, <2>2, <1>1 DEF IInv, Known, Sets
  <2>6. Fresh'
    BY <2>1, <2>2, <1>1 DEF IInv, Fresh, Sets, Waiting
  <2>7. Dropped'
    BY <2>1, <2>2, <1>1 DEF IInv, Dropped, Sets, Waiting
  <2>8. PassHeaders'
    BY <2>1, <2>2, <1>1 DEF IInv, PassHeaders
  <2>9. BatchHeaders'
    <3> SUFFICES ASSUME armed', NEW g \in found' \ skipped', Live(g)',
                        NEW h \in (IncludesOf(g)' \intersect found') \ lost'
                 PROVE  seen'[g][h] = disk'[h] \/ Owed(g, h)'
      BY DEF BatchHeaders
    <3>1. g \in Files
      BY <2>1 DEF IInv, Sets
    <3>2. CASE g = f
      BY <2>1, <2>2, <1>1, <3>1, <3>2 DEF IncludesOf
    <3>3. CASE ~(g = f)
      BY <2>1, <2>2, <1>1, <3>1, <3>3 DEF IInv, BatchHeaders, Live, Owed, Waiting
    <3> QED BY <3>2, <3>3
  <2>10. Named'
    BY <2>1, <2>2, <1>1 DEF IInv, Named, Sets
  <2> QED BY <2>2, <2>3, <2>4, <2>5, <2>6, <2>7, <2>8, <2>9, <2>10 DEF IInv
<1>2. CASE ~(f \in open \/ disk[f] # Gone)
  <2>1. /\ pc = "cascade" /\ f \in todo /\ todo' = todo \ {f}
        /\ UNCHANGED <<names, open, found, prev, pc, armed, events, pending, rebuildPending,
                         timer, changes, lost, visited, skipped, disk, seen>>
    BY <1>2 DEF ReindexOne, world, batch
  <2>2. Values'
    BY <2>1 DEF IInv, Values
  <2>3. Phases'
    BY <2>1, <2>2, <1>2 DEF IInv, Phases
  <2>4. Sets'
    BY <2>1, <2>2, <1>2 DEF IInv, Sets
  <2>5. Known'
    BY <2>1, <2>2, <1>2 DEF IInv, Known, Indexed
  <2>6. Fresh'
    BY <2>1, <2>2, <1>2 DEF IInv, Fresh, Waiting, Indexed
  <2>7. Dropped'
    BY <2>1, <2>2, <1>2 DEF IInv, Dropped, Waiting, Indexed
  <2>8. PassHeaders'
    BY <2>1, <2>2, <1>2 DEF IInv, PassHeaders
  <2>9. BatchHeaders'
    BY <2>1, <2>2, <1>2 DEF IInv, BatchHeaders, Live, Owed, Waiting, IncludesOf, Indexed
  <2>10. Named'
    BY <2>1, <2>2, <1>2 DEF IInv, Named, Indexed
  <2> QED BY <2>2, <2>3, <2>4, <2>5, <2>6, <2>7, <2>8, <2>9, <2>10 DEF IInv
<1> QED BY <1>1, <1>2

\* An opened buffer is scanned.
LEMMA DidOpenKeeps == ASSUME IInv, NEW f \in Files, DidOpen(f) PROVE IInv'
<1>1. /\ f \notin open /\ open' = open \union {f} /\ visited' = visited \union {f}
      /\ skipped' = skipped \ {f}
      /\ UNCHANGED <<names, todo, found, prev, pc, armed, events,
                       pending, rebuildPending, timer, changes, lost, disk>>
  BY DEF DidOpen, world, batch, Rescan
<1>2. /\ Values'
      /\ Indexed(f)' /\ (f \notin open' => seen'[f][f] = disk[f])
      /\ \A h \in HeadersOf[f] : seen'[f][h] = disk[h]
      /\ \A g \in Files \ {f} : /\ seen'[g] = seen[g]
                                /\ Indexed(g)' <=> Indexed(g)
                                /\ IncludesOf(g)' = IncludesOf(g)
  BY <1>1, Rescanned DEF IInv, DidOpen, Rescan
<1>3. Phases'
  BY <1>1, <1>2 DEF IInv, Phases
<1>4. Sets'
  BY <1>1, <1>2 DEF IInv, Sets
<1>5. Known'
  BY <1>1, <1>2 DEF IInv, Known, Sets
<1>6. Fresh'
  BY <1>1, <1>2 DEF IInv, Fresh, Sets, Waiting
<1>7. Dropped'
  BY <1>1, <1>2 DEF IInv, Dropped, Sets, Waiting
<1>8. PassHeaders'
  BY <1>1, <1>2 DEF IInv, PassHeaders, Sets, Live
<1>9. BatchHeaders'
  <2> SUFFICES ASSUME armed', NEW g \in found' \ skipped', Live(g)',
                      NEW h \in (IncludesOf(g)' \intersect found') \ lost'
               PROVE  seen'[g][h] = disk'[h] \/ Owed(g, h)'
    BY DEF BatchHeaders
  <2>1. g \in Files
    BY <1>1 DEF IInv, Sets
  <2>2. CASE g = f
    BY <1>1, <1>2, <2>1, <2>2 DEF IncludesOf
  <2>3. CASE ~(g = f)
    BY <1>1, <1>2, <2>1, <2>3 DEF IInv, BatchHeaders, Live, Owed, Waiting
  <2> QED BY <2>2, <2>3
<1>10. Named'
  BY <1>1, <1>2 DEF IInv, Named, Sets
<1> QED BY <1>2, <1>3, <1>4, <1>5, <1>6, <1>7, <1>8, <1>9, <1>10 DEF IInv

\* An edited buffer is scanned.
LEMMA DidChangeKeeps == ASSUME IInv, NEW f \in Files, DidChange(f) PROVE IInv'
<1>1. /\ f \in open
      /\ skipped' = skipped \ {f}
      /\ UNCHANGED <<names, open, todo, found, prev, pc, armed, events,
                       pending, rebuildPending, timer, changes, lost, visited, disk>>
  BY DEF DidChange, world, batch, Rescan
<1>2. /\ Values'
      /\ Indexed(f)' /\ (f \notin open => seen'[f][f] = disk[f])
      /\ \A h \in HeadersOf[f] : seen'[f][h] = disk[h]
      /\ \A g \in Files \ {f} : /\ seen'[g] = seen[g]
                                /\ Indexed(g)' <=> Indexed(g)
                                /\ IncludesOf(g)' = IncludesOf(g)
  BY <1>1, Rescanned DEF IInv, DidChange, Rescan
<1>3. Phases'
  BY <1>1, <1>2 DEF IInv, Phases
<1>4. Sets'
  BY <1>1, <1>2 DEF IInv, Sets
<1>5. Known'
  BY <1>1, <1>2 DEF IInv, Known, Sets
<1>6. Fresh'
  BY <1>1, <1>2 DEF IInv, Fresh, Sets, Waiting
<1>7. Dropped'
  BY <1>1, <1>2 DEF IInv, Dropped, Sets, Waiting
<1>8. PassHeaders'
  BY <1>1, <1>2 DEF IInv, PassHeaders, Sets, Live
<1>9. BatchHeaders'
  <2> SUFFICES ASSUME armed', NEW g \in found' \ skipped', Live(g)',
                      NEW h \in (IncludesOf(g)' \intersect found') \ lost'
               PROVE  seen'[g][h] = disk'[h] \/ Owed(g, h)'
    BY DEF BatchHeaders
  <2>1. g \in Files
    BY <1>1 DEF IInv, Sets
  <2>2. CASE g = f
    BY <1>1, <1>2, <2>1, <2>2 DEF IncludesOf
  <2>3. CASE ~(g = f)
    BY <1>1, <1>2, <2>1, <2>3 DEF IInv, BatchHeaders, Live, Owed, Waiting
  <2> QED BY <2>2, <2>3
<1>10. Named'
  BY <1>1, <1>2 DEF IInv, Named, Sets
<1> QED BY <1>2, <1>3, <1>4, <1>5, <1>6, <1>7, <1>8, <1>9, <1>10 DEF IInv

\* A closed file is scanned from disk, if it is there.
LEMMA DidCloseKeeps == ASSUME IInv, NEW f \in Files, DidClose(f) PROVE IInv'
<1>1. CASE disk[f] = Gone
  <2>1. /\ f \in open /\ open' = open \ {f}
        /\ UNCHANGED <<names, todo, found, prev, pc, armed, events, pending, rebuildPending,
                         timer, changes, lost, visited, skipped, disk, seen>>
    BY <1>1 DEF DidClose, world, batch
  <2>2. Values'
    BY <2>1 DEF IInv, Values
  <2>3. Phases'
    BY <2>1, <2>2, <1>1 DEF IInv, Phases
  <2>4. Sets'
    BY <2>1, <2>2, <1>1 DEF IInv, Sets
  <2>5. Known'
    BY <2>1, <2>2, <1>1 DEF IInv, Known, Indexed
  <2>6. Fresh'
    BY <2>1, <2>2, <1>1 DEF IInv, Fresh, Waiting, Indexed
  <2>7. Dropped'
    BY <2>1, <2>2, <1>1 DEF IInv, Dropped, Waiting, Indexed
  <2>8. PassHeaders'
    BY <2>1, <2>2, <1>1 DEF IInv, PassHeaders, Live, Indexed
  <2>9. BatchHeaders'
    BY <2>1, <2>2, <1>1 DEF IInv, BatchHeaders, Live, Owed, Waiting, IncludesOf, Indexed
  <2>10. Named'
    BY <2>1, <2>2, <1>1 DEF IInv, Named, Indexed
  <2> QED BY <2>2, <2>3, <2>4, <2>5, <2>6, <2>7, <2>8, <2>9, <2>10 DEF IInv
<1>2. CASE disk[f] # Gone
  <2>1. /\ f \in open /\ open' = open \ {f}
        /\ skipped' = skipped \ {f}
        /\ UNCHANGED <<names, todo, found, prev, pc, armed, events, pending,
                         rebuildPending, timer, changes, lost, visited, disk>>
    BY <1>2 DEF DidClose, world, batch, Rescan
  <2>2. /\ Values'
        /\ Indexed(f)' /\ (f \notin open' => seen'[f][f] = disk[f])
        /\ \A h \in HeadersOf[f] : seen'[f][h] = disk[h]
        /\ \A g \in Files \ {f} : /\ seen'[g] = seen[g]
                                  /\ Indexed(g)' <=> Indexed(g)
                                  /\ IncludesOf(g)' = IncludesOf(g)
    BY <1>2, <2>1, Rescanned DEF IInv, DidClose, Rescan
  <2>3. Phases'
    BY <2>1, <2>2, <1>2 DEF IInv, Phases
  <2>4. Sets'
    BY <2>1, <2>2, <1>2 DEF IInv, Sets
  <2>5. Known'
    BY <2>1, <2>2, <1>2 DEF IInv, Known, Sets
  <2>6. Fresh'
    BY <2>1, <2>2, <1>2 DEF IInv, Fresh, Sets, Waiting
  <2>7. Dropped'
    BY <2>1, <2>2, <1>2 DEF IInv, Dropped, Sets, Waiting
  <2>8. PassHeaders'
    BY <2>1, <2>2, <1>2 DEF IInv, PassHeaders, Sets, Live
  <2>9. BatchHeaders'
    <3> SUFFICES ASSUME armed', NEW g \in found' \ skipped', Live(g)',
                        NEW h \in (IncludesOf(g)' \intersect found') \ lost'
                 PROVE  seen'[g][h] = disk'[h] \/ Owed(g, h)'
      BY DEF BatchHeaders
    <3>1. g \in Files
      BY <2>1 DEF IInv, Sets
    <3>2. CASE g = f
      BY <2>1, <2>2, <1>2, <3>1, <3>2 DEF IncludesOf
    <3>3. CASE ~(g = f)
      BY <2>1, <2>2, <1>2, <3>1, <3>3 DEF IInv, BatchHeaders, Live, Owed, Waiting
    <3> QED BY <3>2, <3>3
  <2>10. Named'
    BY <2>1, <2>2, <1>2 DEF IInv, Named, Sets
  <2> QED BY <2>2, <2>3, <2>4, <2>5, <2>6, <2>7, <2>8, <2>9, <2>10 DEF IInv
<1> QED BY <1>1, <1>2

LEMMA LoopKeeps == ASSUME IInv, Loop PROVE IInv'
BY DiscoverKeeps, ScanOneKeeps, ScanHeadersKeeps, ReconcileKeeps, ArmKeeps, TakeEventKeeps,
   TickRebuildKeeps, TickBatchKeeps, SyncOneKeeps, CascadeKeeps, ReindexOneKeeps, BatchDoneKeeps
   DEF Loop

LEMMA WorldKeeps == ASSUME IInv, World PROVE IInv'
<1>1. PICK f \in Files : \/ DiskChange(f, changes + 1)
                         \/ disk[f] # Gone /\ DiskChange(f, Gone)
                         \/ FilelistEdit(f)
  BY DEF World
<1>2. CASE DiskChange(f, changes + 1)
  <2>1. changes + 1 \in Generations \ {0}
    BY <1>2, WatchAssumption DEF IInv, Values, Generations, DiskChange
  <2> QED BY <1>2, <2>1, DiskChangeKeeps
<1>3. CASE DiskChange(f, Gone)
  BY <1>3, DiskChangeKeeps
<1>4. CASE FilelistEdit(f)
  BY <1>4, FilelistEditKeeps
<1> QED BY <1>1, <1>2, <1>3, <1>4

LEMMA IInvStep == IInv /\ [Next]_vars => IInv'
<1>1. ASSUME IInv, UNCHANGED vars PROVE IInv'
  <2>1. (Phases /\ Sets /\ Values /\ Known)'
    BY <1>1 DEF IInv, Phases, Sets, Values, Known, Indexed, vars
  <2>2. (Fresh /\ Dropped /\ Named)'
    BY <1>1 DEF IInv, Fresh, Dropped, Named, Indexed, Waiting, vars
  <2>3. (PassHeaders /\ BatchHeaders)'
    BY <1>1 DEF IInv, PassHeaders, BatchHeaders, Indexed, IncludesOf, Live, Owed, Waiting, vars
  <2> QED BY <2>1, <2>2, <2>3 DEF IInv
<1>2. IInv /\ Client => IInv'
  BY DidOpenKeeps, DidChangeKeeps, DidCloseKeeps DEF Client
<1> QED BY <1>1, <1>2, LoopKeeps, WorldKeeps DEF Next

LEMMA IInvInit == Init => IInv
<1> SUFFICES ASSUME Init PROVE IInv
  OBVIOUS
<1>1. Phases /\ Sets
  BY DEF Init, Phases, Sets
<1>2. Values
  BY WatchAssumption DEF Init, Values, Generations
<1>3. Known
  BY DEF Init, Known, Indexed
<1>4. Fresh /\ Dropped /\ PassHeaders /\ BatchHeaders /\ Named
  BY DEF Init, Fresh, Dropped, PassHeaders, BatchHeaders, Named
<1> QED BY <1>1, <1>2, <1>3, <1>4 DEF IInv

\* Throughout passes, batches and cascades, whatever a scan has not yet made true
\* is owed by somebody (watch.go).
THEOREM Watched == Spec => []IInv
BY IInvInit, IInvStep, PTL DEF Spec

-------------------------------------------------------------------------------
\* Types, and a batch only while the watcher is open.
THEOREM WatchTypes == Spec => []TypeOK
<1>1. IInv => TypeOK
  BY DEF IInv, Phases, Sets, Values, TypeOK
<1> QED BY <1>1, Watched, PTL

\* At rest, a watched file that is not open is indexed as it is on disk: neither
\* the debounce nor a pass begun meanwhile loses a change the watcher saw.
THEOREM RestIsFresh == Spec => []FreshWhenSettled
<1>1. IInv => FreshWhenSettled
  BY DEF IInv, Fresh, Waiting, Settled, FreshWhenSettled
<1> QED BY <1>1, Watched, PTL

\* At rest, what has gone from disk has gone from the index, whichever of the
\* pass, the batch and the cascade came across it.
THEOREM GoneIsDropped == Spec => []DeletedIsDropped
<1>1. IInv => DeletedIsDropped
  <2> SUFFICES ASSUME IInv, Settled, NEW f \in Files \ (lost \union visited), disk[f] = Gone, Indexed(f)
               PROVE  FALSE
    BY DEF DeletedIsDropped
  <2>1. f \in found
    BY DEF IInv, Known, Settled
  <2> QED BY <2>1 DEF IInv, Dropped, Waiting, Settled
<1> QED BY <1>1, Watched, PTL

\* At rest, every file of the view was scanned with its headers as they are, but
\* for the open ones a batch held along with such a header.
THEOREM HeadersReach == Spec => []HeaderEffects
<1>1. IInv => HeaderEffects
  <2> SUFFICES ASSUME IInv, Settled, NEW f \in found \ (lost \union skipped),
                      NEW h \in IncludesOf(f) \ lost, h \in found, disk[f] # Gone \/ f \in open
               PROVE  seen[f][h] = disk[h]
    BY DEF HeaderEffects
  <2>1. armed /\ Live(f) /\ ~Owed(f, h)
    BY DEF IInv, Phases, Live, Owed, Waiting, Settled
  <2> QED BY <2>1 DEF IInv, BatchHeaders
<1> QED BY <1>1, Watched, PTL

\* At rest, the index holds what the filelists name and nothing neither they nor
\* an included header lead to.
THEOREM ViewFollows == Spec => []ViewFollowsFilelists
<1>1. IInv => ViewFollowsFilelists
  BY DEF IInv, Known, Named, Settled, ViewFollowsFilelists
<1> QED BY <1>1, Watched, PTL
===============================================================================
