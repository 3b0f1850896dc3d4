# sigils, modelled in TLA+

sigils is a language server for SystemVerilog: it indexes the files a
workspace's filelists name, keeps the index in step with the editor's open
buffers and with the disk, and answers the editor's queries from it.  This
directory holds TLA+ modules of the parts where the order of things matters,
TLC configurations that check them on small instances, and theorems about them
that TLAPS checks for every value of the constants.

Run a configuration with `tlc -config MCWatch.cfg MCWatch.tla`, check the
proofs with `tlapm` on the `*Proofs` modules.
`PROJECT.json` lists the runs, the source lines every definition stands for,
the hazards, and a broken variant of the code that each property detects.

## The system

| component | source | state it keeps | operations |
|---|---|---|---|
| document store | `internal/document/store.go` | open documents: version, text | Open, ApplyFullChange, Close, Get |
| worker pool | `internal/lspserver/index.go` `forEachParallel` | a shared counter | one call per index, wait |
| declaration scan | `internal/sv/scan.go` | none | Scan: text to buckets per file |
| declaration index | `internal/sv/index.go`, `names.go` | some twenty maps under one lock | SetFile, RemoveFile, configuration setters, queries |
| top-k collector | `internal/sv/topk.go` | a bounded heap | push, sorted |
| indexing passes | `internal/lspserver/index.go` | the previous pass's files | buildIndex, scanIncludeDiscoveredFiles, removeStaleFiles |
| file watching | `internal/lspserver/watch.go` | pending events, the debounce timer | watchFiles, syncFromDisk, cascadeReindexDependents |
| diagnostics | `internal/lspserver/diagnostics.go` | what was last published | publishDiagnostics |
| lifecycle | `internal/lspserver/handlers.go`, `server.go` | the newest run's cancel, the shutdown flag | Initialize, Shutdown |
| filelist discovery | `internal/workspace/filelist.go` | what the last walk captured | Files, IncludeDirs, Defines, VisitedFilelists |
| include resolution | `internal/lspserver/resolver.go` | the headers one scan found | Resolve |
| name resolution | `internal/sv/index.go` 748-2555, `filedecls.go` | none of its own | FindDefinition, ScopedOccurrences, OccurrencesInFile, ... |
| symbol queries | `internal/sv/index.go`, `names.go` | the index's cached name list | CompleteSymbols, WorkspaceSymbols |
| token cache | `internal/lspserver/tokens.go` | tokens of open documents | tokensFor, forgetTokens |
| cursor and call context | `internal/sv/word.go`, `call.go`, `instantiation.go` | none | WordAt, DotReceiverAt, CallContextIn, InstantiationPortNameIn, ... |
| references, rename, highlight | `internal/lspserver/references.go`, `occurrences.go`, `hover.go` | none | read store and index |
| definition, hover, completion, signature help | `internal/lspserver/handlers.go`, `hover.go`, `signature.go` | none | read store and index |
| outline, folding, symbol picker | `internal/lspserver/outline.go` | none | read the index |

How they interact.  The connection calls the handlers one at a time on one
goroutine.  `Initialize` starts a *run*, a goroutine that loops over discover,
scan, reconcile and watch (`indexAndWatch`); its scans, its batches and its
cascades fan out over the worker pool.  Handlers and workers all end in
`Index.SetFile` or `RemoveFile` followed by `publishDiagnostics`.  The store,
the index, `Server.mu` and the discoverer each have a lock, and no step of the
program holds two of them or holds one across two operations: everything that
looks something up, works, and writes back is open to interleaving.

What is hard, and where it is modelled:

* a scan takes long, and what it was started from (the buffer, the disk, the
  configuration) may be superseded before it is installed: `BufferSync`,
  `Lifecycle`;
* one file's scan writes entries of other files, the headers it includes, and
  several files include one header: `SvIndex`, `Diagnostics`;
* disk changes fall before, during and after passes, in bursts, and batches
  treat open files, headers and deleted files differently: `Watch`;
* a second handshake leaves two runs on one index: `Lifecycle`;
* filelists form cycles, through links too, and a walk may be cancelled:
  `Filelist`;
* what a name means is decided by a chain of scopes, imports and includes, and
  where it occurs by several other paths that must agree with the chain:
  `Resolve`;
* requests arrive in the middle of typing, so what the cursor is at is guessed
  from tokens, while the index was built by a parser; and each handler has its own
  copy of the order in which a connection, a member and a name are tried:
  `Cursor`, `Queries`;
* answers are cut to a limit, from lists and maps that rescans patch:
  `SymbolQueries`.

What makes each part correct:

| part | correct when |
|---|---|
| worker pool | each call is made once, the caller waits for all, cancellation stops new ones |
| index | its maps are inverses of one another; what a scan contributed goes with it; changed diagnostics are reported |
| open buffers | the entry of an open file is its newest text; of a closed one, the disk's |
| diagnostics | the editor shows what the index has, and is not sent it twice |
| watching | at rest, index, disk, filelists and headers agree; the loop comes to rest |
| lifecycle | one run lives; it rescans everything under its configuration; shutdown ends it |
| filelists | the walk ends with exactly what is reachable, once each |
| name resolution | rename misses no reference; the paths that collect occurrences agree |
| cursor and call context | the guess is what the parser has, in text that parses |
| requests at a cursor | definition, declaration, hover, highlight, completion and signature help agree about one token |
| symbol queries | the answer is the front of what is declared, and says when there is more |

## Modules

| module | models | state and actions |
|---|---|---|
| `BulkCalls` | what callers rely on when they call `forEachParallel` | abstract: calls start, finish, the whole returns |
| `ForEachParallel` | `forEachParallel` | `next` is the atomic counter; a worker is at `check` (ctx.Err), `claim` (Add) or `call` (fn). Implements `BulkCalls` with `started <- Claimed` |
| `SvScan` | `Scan` and the AST walk, as an operator on an abstract text | a text is a sequence of items: declarations, containers, imports, connections, errors, defines, conditionals, includes. The preprocessor (svparse) is external and modelled as the code uses it |
| `SvIndex` | `SetFile`'s locked half, `RemoveFile`, `sortedNamesLocked` | one variable per map of `sv.Index`; one action per operation, written as the composition of the code's helpers (`Recontribute`, `Relink`, ...) |
| `BufferSync` | every job that installs a scan, against didOpen, didChange, didClose | each actor has a `pc` (read, scan, recheck, remove) and a `job`; an entry is the text the file's occurrences came from, which no other file's scan writes |
| `Diagnostics` | `publishDiagnostics` by several goroutines | `Read` (index lock), `Compare` (Server.mu) and `Notify` (no lock) are separate steps |
| `Watch` | `indexAndWatch`, `rebuildIndex`, `watchFiles` and its batches | the loop's `pc`, the watcher's queue, the debounce state; one rescan is one step |
| `Lifecycle` | `Initialize`, `Shutdown`, the runs, and the index's include resolver and macros | an entry is the configuration it was scanned with; an edition is one state of the filelists |
| `Filelist` | `FilelistDiscoverer.Files` and `expand` | `stack` is the recursion of `expand`, one action per line |
| `Cursor` | `word.go`, `call.go`, `instantiation.go` | operators on a text as a sequence of tokens: what a token is written after, which list the cursor is in |
| `Resolve` | the lookups of `resolveRefsLocked` and the occurrence queries | a text is a sequence of tokens with the parser's view of each; one operator per lookup, in the order of the code |
| `Queries` | the handlers that answer about a cursor, and the queries only they use | one operator per request. The state is a workspace, scanned, and at most one rename: `Rename` applies the answer of a rename at any token, and `meant` remembers what referred to one declaration with that token |
| `SymbolQueries` | `CompleteSymbols`, `WorkspaceSymbols` and `topK` | operators on the maps of `SvIndex`, asked in every state it reaches. The heap is a sequence, as in the code, and its loops are recursive functions of how many turns they have left; the map is walked in every order |

`SvIndex` stands for the index that the server modules see as one entry per
file: `BufferSync`, `Watch` and `Lifecycle` each keep the one aspect of an
entry their properties are about (the text of the file's own scan, the generation
on disk, the configuration).  `ForEachParallel` justifies the sets of calls still to make
(`todo`) in the others: each call is made at most once, and the pool waits.
`Resolve` takes the maps as a scan of every file from its present text leaves
them, so that an answer never mixes two versions of a file; `SvIndex` says how the maps are kept there, and below is the one case known
where they are not (a header that one of two files drops).
`Diagnostics!Scan` relies on `SvIndex!ChangesReported`.  `MC*` modules give the
constants.  In every module the operators named `X_Something` next to an `X`
are plausible mistakes of the code; they are not part of the model.

## Runs

Bounds are constants of the modules and named there.

| run | instance | what it shows |
|---|---|---|
| `MCForEachParallel` | 4 calls, 3 goroutines | no call is made twice or forgotten; a cancellation lets at most one more call per goroutine start; the pool implements `BulkCalls` and returns. More calls than goroutines, so that a goroutine claims repeatedly |
| `MCSvIndex` | 2 sources, a header, a header of the header; 2-3 texts each, 3 states of the disk; symbol queries with limits 0, 1 and 4 | the maps agree after any sequence of scans and removals, unbounded in length (the state space closes), and in every state completion and the symbol picker answer the exact front of what is declared. Two backers of one bucket, nested includes, links into two containers, the drop of the name list and a heap that has to move an element twice all occur |
| `MCBufferSync` | a file, 2 workers beside the handler (of two passes, which a second handshake lets overlap), 3 edits, 2 disk writes: 234 615 states | rescans of an open buffer converge on the newest text and end; a closed file is indexed as it is on disk; a missing file is never scanned. Jobs on different files share nothing but the goroutine, so one file suffices; two files with one worker, 2 edits and 2 writes have been tried: a million states, no error. `BufferConverges` and `ClosedConverges` are proved for any number |
| `MCDiagnostics` | a file, a header and the command line's pseudo-file, 2 publishers | suppression is right except where publishers overlap |
| `MCWatch` | a source and its header, 3 changes on disk or of the filelist, any number of opens, edits and closes; an event behind a waiting one may be dropped | at rest, index, disk, filelists and headers agree, but for files whose last event was lost |
| `MCLifecycle` | 2 files, 2 handshakes, 3 editions of the filelists, 1 edit | one live run; a settled run has reconfigured every entry; shutdown ends all runs |
| `MCFilelist` | 2 directories, a cycle, a link to a filelist and one to a source, 5 states of the disk, 3 calls; one filelist is read in two directories, of which only the second has the file it names | the walk ends, returns exactly what is reachable, and captures one whole walk |
| `MCResolve` | a header, a package, a module and a module that instantiates it, in 632 combinations of texts (7004 states); every request at every token named `x`, and a rename there | rename loses no reference; references find every token that means the declaration, and the accesses to a field are those through its struct; the heuristic finds the connections the parser found; the requests agree |

Why the bounds are enough.  The races are between two parties over one file, a
header and a file that includes it, or two files that share a header; each
instance has those its properties are about, plus one repetition (a second edit, a second write, a third
edition) so that a stale result can meet a newer one.  Properties whose
interesting case needs no second file (`MCBufferSync`) get one to keep the instance
small.  `MCResolve` has two families of workspaces, every
combination within each.  The texts of the first have, between them, every kind
of scope, an explicit and a wildcard import, a header at file scope and in a body,
a qualified name, connections with and without overrides and through an instance
array, all of one name, so that the lookups compete for it; a parameter stands in a module's
header, in its body, or is a localparam.  Those of the second
have structs and interfaces behind receivers of one name in two scopes, prototypes
and bodies in one and in several files, calls nested in named arguments, and a struct's
member in a positional connection.  What
the requests answer depends on the texts only, so one rename per workspace
suffices.  In `MCSvIndex` the limits are no limit, one symbol, and a heap of three
levels.

Deadlock is off (`CHECK_DEADLOCK FALSE`) where a bounded number of requests or
edits leaves nothing to do; `MCWatch` and `MCSvIndex` never stop and check it.

### Ghosts

Some properties exclude histories that really do harm (the next section).  A ghost
variable records them, and nothing else reads it: `raced` (jobs of different
kinds overlapped on a file, `BufferSync`), `overlapped` (two publishers on one
file, `Diagnostics`), `lost`, `visited` and `skipped` (`Watch`), `overtaken` and
`hasty` (`Lifecycle`), `touched` (`SvIndex`), `lateStarts`
(`ForEachParallel`).  Those that excuse a file or a run are cleared as soon as the
damage can be undone, so that the passing properties claim as much as holds, with
two exceptions, which only grow: `visited`, the files ever opened, and `hasty`.
`touched` and `lateStarts` excuse nothing: they record what a property is about.

### Where the code and its comments disagree

Each of four runs checks one property that states a comment, and fails.

| property | run | what happens |
|---|---|---|
| `OpenBufferAuthoritative` | `MCBufferSync_OpenBufferAuthoritative` | a rescan that found the file closed reads it from disk and installs that after didOpen's handler has installed the buffer |
| `PublishedIsShown` | `MCDiagnostics_PublishedIsShown` | two publishers record in one order and send in the other |
| `BatchReachesBuffers` | `MCWatch_BatchReachesBuffers` | an open includer in the batch of its header is not rescanned |
| `RestrictionIsSafe` | `MCResolve_RestrictionIsSafe` | a name declared in a module and used in a header its body includes: the search of the module's own span misses the use |

These are representatives.  The ghosts and guards of the passing properties mark
where others of their kind begin; no run is spent on them:

* `raced` (`BufferSync`): a buffer scan in flight when the file closes installs
  the discarded text after the close's rescan; a document closed and opened again
  repeats a version, so `scanOpenBuffer` takes it for unchanged; a file taken out
  of the filelists while open is spared by that pass and unknown to the next; a file
  that is opened just after `removeStaleFiles` has looked it up is dropped all the
  same, buffer and all (`OpenBufferAuthoritative` asks only about files of the
  workspace, of which the comment speaks).
* `BufferSync` is about what only a file's own scan writes: the scan of an includer
  replaces an open header's declarations by those of the disk.
* `overlapped` (`Diagnostics`): a list read before another scan is recorded after.
* `lost` (`Watch`): a change between a file's read and the arming of its watch
  raises no event, and one that overflows the watcher's queue is dropped.
  `IncludesOf` knows only headers the scan found: a scan that missed a header
  leaves no dependency, so the header's return is not cascaded.
* `overtaken` (`Lifecycle`): a handler's scan that took the old configuration
  installs after the pass has rescanned the file.  `hasty`: a run cancelled by a
  second handshake wires its own configuration, or drops the files that the
  newest run has just indexed.
* `SvIndex`: a header two files back keeps the declarations that the last scan
  gave it, also when that scan's file has since dropped the include: the rescan
  clears a bucket only when nobody backs it.
* `SpreadOverFiles` (`Queries`): `RestrictionIsSafe` again, for rename and for
  connections.  So is a parameter declared in a header that a module's body
  includes: asked from a connection, its references come up empty.
* `Namesake` (`Queries`): a token inside a declaration of its own name (a
  function's return value, or an argument called like its function) resolves to
  that declaration.
* `QualifiedReceiver` (`Queries`): the search for a struct field resolves a
  receiver without its qualifier, so `p::s.x` is missed by references and rename.
* `PlainCursor` (`Queries`): at a field's own declaration, and at the name of a
  named argument, references fall back to a search by name.  A field is no
  declaration of the index, so references without declarations still list it.
* `HighlightCovers` (`Queries`) allows the highlight more connections than the
  references have: `OccurrencesInFile` keeps those inside the module's span.
* `ConnectionsAgree` (`Queries`) is about the first instance of a list and about
  one dimension of an array: the second of `leaf u0(...), u1(.x(..))` and a
  two-dimensional array are not recognised at the cursor, though the parser records
  their connections.  A label before a call looks like an instantiation, and its
  references come up empty.  A connection may go to a variable of the module: the
  lookup does not tell kinds apart.  Nor does the lookup tell a parameter of the
  header from a localparam or a parameter of the body, which completion never
  offers (`Overridable`).
* `Recognised` (`Queries`): the member in a positional connection, `m u (s.x)`, is
  taken for a connection of m's `x`, where definition then goes and what a rename
  there renames.
* `JumpsAgree` (`Queries`): a jump by name chooses between a routine's prototype and
  its body, one through a receiver or a connection does not (`resolveWordAt` returns
  before the choice).  So go-to-definition on a routine of an interface may lead to
  the prototype, and from there, by name, on to the body; the property says that a
  jump stays where it led for jumps by name, and for what is of the kind asked for.
  Of several members with one name completion offers all and a jump takes the first.
  The property also lets a definition go to any of several interfaces' members where
  hover describes the primary one: `interfaceMemberLocation` takes the first in the
  order of indexing.  Member completion leaves out members that
  an interface's body includes from a header, which definition finds; the property
  asks for the other direction.  With several bodies for a prototype, or the other
  way round, the answer depends on which declaration comes first.
* `ReferencesExact` (`Queries`): a member of an enumeration that is named through
  its type from outside the module, and the declarations left out above, are missed
  by the search restricted to a body.
* `SignatureAgrees` (`Queries`): signature help is withheld when the routine stands
  at the line and column of the call in another file, since the code compares no
  URI; so the property asks only about what is shown.
* `OneDirectory` (`Filelist`): a filelist met again in another directory is
  skipped, with the files, include directories and filelists its relative entries
  name there.  Without the condition the answers are still within what is reachable.

## Fairness

Weak fairness of goroutines that can run: the pool's workers (`ForEachParallel`),
a job once it has started (`BufferSync`), a publisher that has scanned
(`Diagnostics`), the watch loop (`Watch`), runs and the handler's scan
(`Lifecycle`), the walk (`Filelist`).  The Go scheduler runs every runnable
goroutine, no step waits for a lock that is held across another step, reads and
scans end, and the debounce timer fires.  Nothing is assumed of the client, the
disk or cancellation, and starting a scan is never owed.

## Proofs

| module | theorems | argument |
|---|---|---|
| `ForEachParallelProofs` | `PoolInvariant`, `DisjointCalls`, `CompleteReturn`, `FewLateStarts`, `PoolRefinesBulkCall` | `PoolInv` ties each goroutine's place to the counter: indices below it are finished or in exactly one goroutine's hands. Neither of the two properties is inductive without the last conjuncts (an unborn or done goroutine holds nothing). The number of late calls is bounded with the goroutines that can still make one, which a claim leaves and none joins. Refinement: a claim starts a call, a return is the abstract one, the rest stutters |
| `SvIndexProofs` | `BackersInverse`, `NoOrphans`, `DependentsInverse`, `MembershipInverse`, `UsesInverse`, `ByNameInverse`, `NameListInverse`, `SymbolsFront`, `ChangesReturned` | `BackInvariant` joins the two-way map with the emptiness of unbacked buckets: a file is cleared exactly when its last backer goes, which only the inverse tells. The links and dependencies are inductive on their own; the uses and connections need only what a scan may drop. A name's list has each of its declarations once, and that is what makes dropping a file's refs right: the code pops them when they are the tail and filters otherwise, and both leave the positions that are not the file's, in order. One bucket after another is replaced (`Replaced`), so that the first bucket after which the list is wrong would be a wrong step. The name list then needs only that the changes noted are the names whose list became empty or stopped being so. That every changed file is reported is a fact of each step. `SymbolsFront`: `siftUp` keeps a max-heap but for the element that rises, `siftDown` but for the one that sinks, and each loop has turns enough to end; so the root is the greatest of what is kept, and by the pushes so far everything dropped comes after everything kept. Then the kept symbols are the front of the order, in whatever order the map was walked. Completion's answer is a run of the sorted name list from the prefix on, and the name list is exact by `NameListInverse` |
| `BufferSyncProofs` | `TypeCorrect`, `BufferConverges`, `ClosedConverges` | the strengthening says where the newest text of an open, unraced file is: in the entry, or in a job that will install it last or look again after it did. For a closed file (`Settling`) it is that one job at most is at work, never a buffer scan, and that it has read the disk as it is or is yet to read. A lemma disposes of the steps that work on another file |
| `DiagnosticsProofs` | `ShowsIndex`, `SendsNoRepeat` | for a file no two publishers overlapped on, at most one publisher is at it, and what it holds and the record tell what the editor shows |
| `LifecycleProofs` | `LiveRunIsNewest`, `SettledConfiguration` | the first is inductive with the number of runs started: a handshake cancels the only run that was not. With it, the newest run is the only one in a pass unless a handshake came in the middle of one (`hasty`), and how far its pass has come says which of the include resolver, the macros and the entries are its edition's |
| `FilelistProofs` | `EachFileOnce`, `FilesExact`, `CapturesWhole` | soundness: whatever waits in a frame of `expand` is a line of a reachable filelist. Completeness is a closure argument: what is reachable is the least set closed under references, every line of a visited filelist is handled or waits in a frame, so with the stack empty the visited set is closed. A filelist on the stack is visited before its lines are read, which is why a cycle does no harm |
| `WatchProofs` | `WatchTypes`, `RestIsFresh`, `GoneIsDropped`, `HeadersReach`, `ViewFollows` | the loop is seldom at rest, so each fact is carried through passes and batches by naming who still owes the scan that makes it true: the call the pool has not made, the event not taken, the batch that waits for its tick, or the cascade. The phases say which of these can exist when |
| `QueriesProofs` | `HighlightsCover`, `JumpsTogether`, `ReferencesFound`, `ConnectionPaths` | `HighlightsCover` holds whatever the files hold: every lookup answers with declarations of the name asked for, a scope's search and the search of one file differ only in the connections they add, and the files a scan's includes reach are the same on both paths. The other three are about workspaces that parse. Until the rename the texts are those of a workspace (`Fresh`), so whatever is opened is closed; counting brackets, spans nest (`SpansNest`), and so the parents of the innermost scope are every scope around a position (`AncestorsAre`). `JumpsTogether`: hover and the jumps take the first of the same sets, and a bare name that is in no declaration of its own resolves to itself. `ReferencesFound`: a name that resolves to a declaration of a module's body stands in that body, unless it is spread over files (`InBody`), so the restricted search reaches it; a name that resolves to a declaration is not shadowed from it (`SeesItsOwn`), so the filter keeps it; a connection's module is found by name (`PortsIn`); and tokens that share file, receiver and innermost scope resolve the receiver alike (`SameResolution`), so a remembered type is the right one. `ConnectionPaths`: the comment "both directions resolve to the same result set" (occurrences.go:35), wherever one declaration is meant and its own name is not taken for anything else |

Assumptions are the named `ASSUME`s of the modules: sets of the right type,
bounds that are natural numbers, distinct sentinels; for `SvIndex` that there are
finitely many files, and that a scan's result has the shape `Scan` gives it,
mentions the scanned file and declares at most `MaxIdx` times in one file; for
`SymbolQueries` that the orders list every name and every file once and that a
prefix selects a run of the names; for `Filelist` that each path has one real path and that a filelist is a sequence of
lines; for `Queries` that a text is a sequence and an include leads to a file
(`QueriesAssumption`), and what the parser guarantees of the declarations it makes
(`ParsedAssumption`): what opens is closed and is a scope, names are not empty, a
declaration without a body is not written after a receiver, and an argument stands
in a function or a task.
None fixes the number of files, names, runs, workers or steps.

`Least` (in `SvIndexProofs` and `QueriesProofs`) takes the least number of a set
that has one.  It is how the proofs reason about recursive functions and about
lists of any length: the first step at which a fact fails is looked at, with the
one before it, where it held.

Only model-checked:

* liveness (`EventuallyReturns`, `JobsFinish`, `EventuallyShown`,
  `AlwaysSettles`, `ShutdownEndsRuns`, `CallsReturn`), which needs fairness;
* `RenameKeepsBindings`, `ConnectionsAgree`, `SignatureAgrees`: they depend on
  SystemVerilog's grammar and typing, of which `ParsedAssumption` says only what the
  index relies on.  A rename may change what another name means when a receiver is
  itself an access that is renamed (`a.x.x`), when an enumeration's member is named
  from outside its module, or when a module has a port of its own name; that it
  edits every token that meant the declaration is `ReferencesFound`.  Whether
  the token heuristic finds a connection's module depends on how an instantiation is
  written, and whether completion still offers a connected name on its being
  connected once; that the two paths agree where it does is `ConnectionPaths`.
  Which call an argument is in depends on how calls and lists of commas nest.  The
  instance has texts with all of these constructs written as the language has them;
* what `SvScan` makes of a text.

## Not modelled

* The outline and the folding ranges: they copy the declarations of one file and
  their parents, which `SvIndex` keeps, into the reply.
* What the replies look like: hover text, signatures, snippets, edit ranges; the
  jump from an `` `include `` line, which matches a path by its end; leaving the
  declarations out of references.
* The token cache: an entry is used only when its text equals the text asked
  about, on the one handler goroutine, so what it answers does not depend on it.
* svparse, the LSP library, logging, the command line, the panic guard, the search
  for the workspace root and its configuration file: external, or one sequential
  read without state.
* The order of directories a header is looked for in.
* Read errors other than a missing file, and errors of the watcher other than a
  full queue, which the code logs.  A client that changes or closes what it has not
  opened, or changes a document the LSP forbids it to.
* Text itself: columns, UTF-16, what a name is made of, numbers and operators.
* A request that meets a buffer newer than the index: `Queries` asks about texts
  that are indexed.

In `Lifecycle` and `Watch` one scan is one step where the properties allow it;
`BufferSync` takes it apart.  In `Filelist` the disk changes between walks.

## Plan

Done, in this order: the pool (`ForEachParallel`), the index (`SvScan`,
`SvIndex`), open buffers (`BufferSync`), diagnostics, the watch loop, the
lifecycle, filelists, name resolution (`Resolve`), the cursor and the requests
(`Cursor`, `Queries`), symbol queries (`SymbolQueries`); and theorems of all of these
but the scan and the cursor.

Next:

1. A grammar of instantiations and calls, for which the heuristics of `Cursor` would
   be proved right (`ConnectionsAgree`, `SignatureAgrees`).
2. An abstract index (file to text it was scanned from) that `BufferSync` without
   races implements, and that `Watch` at rest implements.
3. Requests in the middle of a rescan: `Queries` over an index one version behind.
