------------------------------ MODULE Lifecycle ------------------------------
(***************************************************************************)
(* Initialize, Shutdown and the runs of indexAndWatch they start and       *)
(* cancel (handlers.go, index.go).  All runs work on one index, whose      *)
(* include resolver and macros a pass replaces once it has expanded the    *)
(* filelists.  A client that initializes again gets a second run while the *)
(* first, whose context is cancelled, goes on to where it next looks at    *)
(* its context.  The handlers scan what the client opens with whatever     *)
(* configuration the index holds when the scan starts.                     *)
(*                                                                         *)
(* An edition is one state of the filelists: it decides the view (the      *)
(* files named) and the configuration (+incdir+ and +define+).  Watching,  *)
(* and headers found through `include, are the subject of Watch.           *)
(***************************************************************************)
EXTENDS Naturals, FiniteSets

CONSTANTS Files,
          View,       \* View[e]: the files edition e of the filelists names
          MaxRuns,    \* bound: Initialize requests
          MaxEdition, \* bound: editions of the filelists
          MaxEdits    \* bound: didOpen and didChange notifications

Editions == 1 .. MaxEdition
Runs == 1 .. MaxRuns
Nothing == 0   \* the configuration of a discoverer that has captured none

ASSUME LifecycleAssumption == /\ MaxRuns \in Nat /\ MaxEdits \in Nat
                              /\ MaxEdition \in Nat \ {0}
                              /\ View \in [Editions -> SUBSET Files]

VARIABLES edition,          \* the filelists' edition on disk
          newest,           \* the run Server.watchCancel belongs to; 0 if none
          cancelled,        \* runs whose context is cancelled
          shutdown,         \* Server.shutdownReceived
          pc,               \* where each run is
          captured,         \* each run's discoverer: the edition captured last
          found, todo, prev,\* each run's files, calls to make, and prev
          due,              \* runs whose watcher has seen a filelist change
          factory, macros,  \* Index.resolverFactory and initialMacros
          entry,            \* the configuration an entry was scanned with
          open,             \* files the client has opened
          scan,             \* the handler's scan in flight: set of at most one
          edits,            \* edits so far
          overtaken,        \* ghost: files scanned by a handler that started
                            \* under a configuration since replaced
          hasty             \* ghost: a run was cancelled in the middle of a
                            \* pass, or began one once it was cancelled

vars == <<edition, newest, cancelled, shutdown, pc, captured, found, todo, prev,
          due, factory, macros, entry, open, scan, edits, overtaken, hasty>>
server == <<newest, cancelled, shutdown, hasty>>
passes == <<pc, captured, found, todo, prev, due>>
config == <<factory, macros>>
client == <<open, scan, edits, overtaken>>

Missing == MaxEdition + 1   \* the entry of a file that is not indexed
Config == [factory : {Nothing} \union Editions, macros : {Nothing} \union Editions]
Current == [factory |-> factory, macros |-> macros]
Of(e) == [factory |-> e, macros |-> e]
NotIndexed == [factory |-> Missing, macros |-> Missing]
Goto(r, where) == pc' = [pc EXCEPT ![r] = where]

Init ==
    /\ edition = 1
    /\ newest = 0 /\ cancelled = {} /\ shutdown = FALSE
    /\ pc = [r \in Runs |-> "none"]
    /\ captured = [r \in Runs |-> Nothing]
    /\ found = [r \in Runs |-> {}]
    /\ todo = [r \in Runs |-> {}]
    /\ prev = [r \in Runs |-> {}]
    /\ due = {}
    /\ factory = Nothing /\ macros = Nothing
    /\ entry = [f \in Files |-> NotIndexed]
    /\ open = {} /\ scan = {} /\ edits = 0
    /\ overtaken = {} /\ hasty = FALSE

-------------------------------------------------------------------------------
(***************************************************************************)
(* Initialize cancels the previous run and starts one of its own; Shutdown *)
(* cancels the newest.  A client initializes before it shuts down.         *)
(***************************************************************************)
\* Mutant: the second handshake starts a run beside the first.
Initialize_NoCancel ==
    /\ newest < MaxRuns /\ ~shutdown
    /\ newest' = newest + 1
    /\ Goto(newest + 1, "discover")
    /\ UNCHANGED <<cancelled, hasty, edition, shutdown, captured, found, todo,
                   prev, due, config, entry, client>>

Initialize ==
    /\ newest < MaxRuns /\ ~shutdown
    /\ newest' = newest + 1
    /\ cancelled' = cancelled \union ({newest} \ {0})
    /\ Goto(newest + 1, "discover")
    /\ hasty' = (hasty \/ (newest # 0 /\ pc[newest] # "watch"))
    /\ UNCHANGED <<edition, shutdown, captured, found, todo, prev, due, config,
                   entry, client>>

Shutdown ==
    /\ newest # 0 /\ ~shutdown
    /\ shutdown' = TRUE
    /\ cancelled' = cancelled \union {newest}
    /\ UNCHANGED <<edition, newest, hasty, passes, config, entry, client>>

-------------------------------------------------------------------------------
(***************************************************************************)
(* One pass.  Files() of a cancelled run fails: nothing is found, and what *)
(* the discoverer captured the last time stays.  The configuration is      *)
(* wired all the same, in two calls.                                       *)
(***************************************************************************)
Discover(r) ==
    /\ pc[r] = "discover"
    /\ IF r \in cancelled
       THEN /\ found' = [found EXCEPT ![r] = {}]
            /\ UNCHANGED captured
       ELSE /\ found' = [found EXCEPT ![r] = View[edition]]
            /\ captured' = [captured EXCEPT ![r] = edition]
    /\ Goto(r, "factory")
    /\ UNCHANGED <<edition, server, todo, prev, due, config, entry, client>>

SetIncludeResolverFactory(r) ==
    /\ pc[r] = "factory"
    /\ factory' = captured[r]
    /\ Goto(r, "macros")
    /\ UNCHANGED <<edition, server, captured, found, todo, prev, due, macros,
                   entry, client>>

SetInitialMacros(r) ==
    /\ pc[r] = "macros"
    /\ macros' = captured[r]
    /\ todo' = [todo EXCEPT ![r] = found[r]]
    /\ Goto(r, "scan")
    /\ UNCHANGED <<edition, server, captured, found, prev, due, factory, entry,
                   client>>

\* forEachParallel: no call starts once the context is cancelled.  An open
\* file is scanned like any other, from its buffer.
\* Mutant: open files are left to the client's next keystroke.
ScanOne_SkipsOpen(r, f) ==
    /\ pc[r] = "scan" /\ f \in todo[r] /\ r \notin cancelled
    /\ todo' = [todo EXCEPT ![r] = @ \ {f}]
    /\ entry' = IF f \in open THEN entry ELSE [entry EXCEPT ![f] = Current]
    /\ overtaken' = overtaken \ {f}
    /\ UNCHANGED <<edition, server, pc, captured, found, prev, due, config,
                   open, scan, edits>>

ScanOne(r, f) ==
    /\ pc[r] = "scan" /\ f \in todo[r] /\ r \notin cancelled
    /\ todo' = [todo EXCEPT ![r] = @ \ {f}]
    /\ entry' = [entry EXCEPT ![f] = Current]
    /\ overtaken' = overtaken \ {f}
    /\ UNCHANGED <<edition, server, pc, captured, found, prev, due, config,
                   open, scan, edits>>

\* removeStaleFiles, against the files of the run's own previous pass.  The run
\* is over if its watcher cannot be started.
Reconcile(r) ==
    /\ pc[r] = "scan" /\ (todo[r] = {} \/ r \in cancelled)
    /\ entry' = [f \in Files |-> IF f \in (prev[r] \ found[r]) \ open
                                 THEN NotIndexed ELSE entry[f]]
    /\ prev' = [prev EXCEPT ![r] = found[r]]
    /\ todo' = [todo EXCEPT ![r] = {}]
    /\ Goto(r, "watch") \/ Goto(r, "done")
    /\ UNCHANGED <<edition, server, captured, found, due, config, client>>

\* Mutant: the loop does not look at its context.
WatchFiles_Forever(r) ==
    /\ pc[r] = "watch" /\ r \in due
    /\ due' = due \ {r} /\ Goto(r, "discover")
    /\ hasty' = (hasty \/ r \in cancelled)
    /\ UNCHANGED <<edition, newest, cancelled, shutdown, captured, found, todo,
                   prev, config, entry, client>>

\* watchFiles returns when a filelist changed, or for good once cancelled; if
\* it could do either, it does one of the two.
WatchFiles(r) ==
    /\ pc[r] = "watch"
    /\ \/ r \in due /\ Goto(r, "discover") /\ hasty' = (hasty \/ r \in cancelled)
       \/ r \in cancelled /\ Goto(r, "done") /\ UNCHANGED hasty
    /\ due' = due \ {r}
    /\ UNCHANGED <<edition, newest, cancelled, shutdown, captured, found, todo,
                   prev, config, entry, client>>

Run(r) == \/ Discover(r) \/ SetIncludeResolverFactory(r) \/ SetInitialMacros(r)
          \/ Reconcile(r) \/ WatchFiles(r)
          \/ \E f \in Files : ScanOne(r, f)

-------------------------------------------------------------------------------
\* A filelist is edited.  A watching run sees it, and rebuilds when its debounce
\* timer fires; a run already cancelled does not wait for that.
EditFilelist ==
    /\ edition < MaxEdition
    /\ edition' = edition + 1
    /\ due' = due \union {r \in Runs \ cancelled : pc[r] = "watch"}
    /\ UNCHANGED <<server, pc, captured, found, todo, prev, config, entry, client>>

\* didOpen or didChange: SetFile takes the configuration, scans, installs.
StartScan(f) ==
    /\ newest # 0 /\ ~shutdown /\ scan = {} /\ edits < MaxEdits
    /\ edits' = edits + 1
    /\ open' = open \union {f}
    /\ scan' = {[file |-> f, config |-> Current]}
    /\ UNCHANGED <<edition, server, passes, config, entry, overtaken>>

EndScan ==
    /\ \E s \in scan :
          /\ entry' = [entry EXCEPT ![s.file] = s.config]
          /\ overtaken' = IF s.config = Current THEN overtaken \ {s.file}
                                                ELSE overtaken \union {s.file}
    /\ scan' = {}
    /\ UNCHANGED <<edition, server, passes, config, open, edits>>

Next == \/ Initialize \/ Shutdown \/ EditFilelist \/ EndScan
        \/ \E f \in Files : StartScan(f)
        \/ \E r \in Runs : Run(r)

\* Every run's goroutine keeps running, and a scan once started ends.
Spec == /\ Init /\ [][Next]_vars
        /\ WF_vars(EndScan) /\ \A r \in Runs : WF_vars(Run(r))
-------------------------------------------------------------------------------
(***************************************************************************)
(* Properties.                                                             *)
(***************************************************************************)
Places == {"none", "discover", "factory", "macros", "scan", "watch", "done"}

\* Every variable has its type, and a pass makes no call but for a file it has
\* just found.
TypeOK ==
    /\ edition \in Editions /\ newest \in 0 .. MaxRuns
    /\ cancelled \subseteq 1 .. newest /\ shutdown \in BOOLEAN
    /\ pc \in [Runs -> Places]
    /\ captured \in [Runs -> {Nothing} \union Editions]
    /\ found \in [Runs -> SUBSET Files] /\ prev \in [Runs -> SUBSET Files]
    /\ todo \in [Runs -> SUBSET Files]
    /\ \A r \in Runs : todo[r] \subseteq found[r]
    /\ due \subseteq Runs
    /\ Current \in Config
    /\ entry \in [Files -> Config \union {NotIndexed}]
    /\ open \subseteq Files /\ overtaken \subseteq Files
    /\ scan \subseteq [file : Files, config : Config] /\ Cardinality(scan) <= 1
    /\ edits \in 0 .. MaxEdits /\ hasty \in BOOLEAN

\* Whatever the client sends, at most one run is left to go on: the newest, and
\* only until Shutdown.  A run nothing can cancel would leak its watcher.
OneLiveRun ==
    \A r \in Runs : pc[r] # "none" /\ r \notin cancelled => r = newest /\ ~shutdown

\* The newest run watches with nothing in flight, and no cancelled run was still
\* in a pass.
Settled == /\ newest # 0 /\ newest \notin cancelled
           /\ pc[newest] = "watch" /\ newest \notin due
           /\ scan = {} /\ ~hasty

\* Once the newest run has settled, the index is configured by the filelists as
\* that run read them, and every file they name is indexed under exactly that
\* configuration, the open ones too: no entry is left that was scanned with an
\* older +incdir+ or +define+, or with one old and one new.  The exception is
\* an entry installed by a handler that the pass overtook.
SettledIsReconfigured ==
    Settled => LET e == captured[newest]
               IN /\ e # Nothing /\ Current = Of(e)
                  /\ \A f \in View[e] \ overtaken : entry[f] = Of(e)

\* After Shutdown every run comes to its end.
ShutdownEndsRuns == shutdown ~> \A r \in Runs : pc[r] \in {"none", "done"}
===============================================================================
