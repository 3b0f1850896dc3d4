------------------------------- MODULE Filelist -------------------------------
(***************************************************************************)
(* FilelistDiscoverer (internal/workspace/filelist.go): Files walks the    *)
(* configured filelists depth first, a filelist naming others, and         *)
(* captures the include directories and defines it met.  A filelist or a   *)
(* source is known by the path its symbolic links lead to, whatever it was *)
(* referred to as; a relative entry stands in the directory of the path    *)
(* its filelist was referred to as.  The context may be cancelled between  *)
(* any two lines.                                                          *)
(*                                                                         *)
(* A line is what expand makes of one: a source (a plain or -v entry), a   *)
(* filelist (-f, -F or a filelist's extension), the directories of an      *)
(* +incdir+, the definitions of a +define+, something it skips ("other"),  *)
(* or one too long for the scanner ("long").                               *)
(***************************************************************************)
EXTENDS Naturals, Sequences, FiniteSets, SequencesExt

CONSTANTS Dirs, Names,
          Here,         \* the directory of a relative entry
          Link,         \* Link[p]: where p's symbolic links lead
          Gone,         \* the text of a path that leads nowhere
          Editions,     \* what the disk may hold: the text of every path
          Configured,   \* the filelists of the workspace's configuration
          MaxCalls      \* bound: calls of Files

Paths == [dir : Dirs, name : Names]

Entries == [dir : Dirs \union {Here}, name : Names]

\* A line that names a path names one, a line of directories any number.
IsText(t) ==
    /\ t \in Seq(ToSet(t))
    /\ \A l \in ToSet(t) :
          /\ l.kind \in {"source", "filelist"} => l.args \in [{1} -> Entries]
          /\ l.kind = "incdir" => ToSet(l.args) \subseteq Entries

ASSUME FilelistAssumption == /\ Here \notin Dirs
                             /\ Link \in [Paths -> Paths]
                             /\ \A d \in Editions : DOMAIN d = Paths
                             /\ \A d \in Editions : \A r \in Paths : d[r] = Gone \/ IsText(d[r])
                             /\ Configured \in Seq(Paths)
                             /\ MaxCalls \in Nat

VARIABLES disk,      \* disk[r]: the lines of r, or Gone
          pc,        \* "idle" or "walk"
          roots,     \* configured filelists left
          stack,     \* expand's frames: the path as referred to, the lines left
          st,        \* discoveryState
          captured,  \* the discoverer's visited, includeDirs and defines
          result,    \* what the last call returned: {files}, or {} for ctx.Err()
          cancelled, \* the context is
          calls      \* calls so far

vars == <<disk, pc, roots, stack, st, captured, result, cancelled, calls>>

NoDefines == [n \in {} |-> Gone]
Nothing == [filelists |-> {}, sources |-> {}, files |-> <<>>,
            includeDirs |-> {}, defines |-> NoDefines]
Capture(s) == [visited |-> s.filelists, includeDirs |-> s.includeDirs,
               defines |-> s.defines]

Init == /\ disk \in Editions
        /\ pc = "idle"
        /\ roots = <<>> /\ stack = <<>>
        /\ st = Nothing
        /\ captured = Capture(Nothing)
        /\ result = {}
        /\ cancelled = FALSE
        /\ calls = 0

Join(dir, entry) == IF entry.dir = Here THEN [entry EXCEPT !.dir = dir] ELSE entry

-------------------------------------------------------------------------------
\* recordIncludeDirs and recordDefines: a directory counts once, and the last
\* definition of a name.  The order of the directories is left out.
RecordIncludeDirs(s, dir, args) ==
    [s EXCEPT !.includeDirs = @ \union {Join(dir, a) : a \in ToSet(args)}]

Define(defines, args) ==
    [n \in DOMAIN defines \union {a.name : a \in ToSet(args)} |->
        LET places == {i \in DOMAIN args : args[i].name = n}
        IN IF places = {} THEN defines[n] ELSE args[Max(places)].value]

RecordDefines(s, args) == [s EXCEPT !.defines = Define(@, args)]

\* Mutant: a source counts once per path it is referred to as.
RecordSource_ByPath(s, path) ==
    IF disk[Link[path]] = Gone \/ path \in s.sources THEN s
    ELSE [s EXCEPT !.sources = @ \union {path},
                   !.files = Append(@, [logical |-> path, resolved |-> Link[path]])]

RecordSource(s, path) ==
    IF disk[Link[path]] = Gone \/ Link[path] \in s.sources THEN s
    ELSE [s EXCEPT !.sources = @ \union {Link[path]},
                   !.files = Append(@, [logical |-> path, resolved |-> Link[path]])]

\* expand, up to its first line.
Visit(path, below) ==
    LET r == Link[path] IN
    IF cancelled \/ disk[r] = Gone \/ r \in st.filelists
    THEN stack' = below /\ UNCHANGED st
    ELSE /\ stack' = Append(below, [path |-> path, rest |-> disk[r]])
         /\ st' = [st EXCEPT !.filelists = @ \union {r}]

-------------------------------------------------------------------------------
\* Files is called when a pass begins; what is on disk may have changed.
Call == /\ pc = "idle" /\ calls < MaxCalls
        /\ calls' = calls + 1
        /\ disk' \in Editions
        /\ pc' = "walk"
        /\ roots' = Configured
        /\ st' = Nothing
        /\ UNCHANGED <<stack, captured, result, cancelled>>

\* Mutant: the loop over the configured filelists does not advance.
NextRoot_Stays == /\ pc = "walk" /\ stack = <<>> /\ roots # <<>>
                  /\ Visit(Head(roots), <<>>)
                  /\ UNCHANGED <<roots, disk, pc, captured, result, cancelled, calls>>

NextRoot == /\ pc = "walk" /\ stack = <<>> /\ roots # <<>>
            /\ roots' = Tail(roots)
            /\ Visit(Head(roots), <<>>)
            /\ UNCHANGED <<disk, pc, captured, result, cancelled, calls>>

Top == Last(stack)

\* Mutant: the last line of a filelist is not read.
AtEnd_SkipsRest == cancelled \/ (Top.rest # <<>> => \/ Head(Top.rest).kind = "long"
                                                  \/ Len(Top.rest) = 1)

AtEnd == cancelled \/ (Top.rest # <<>> => Head(Top.rest).kind = "long")

ReadLine ==
    /\ pc = "walk" /\ stack # <<>> /\ ~AtEnd
    /\ LET line  == Head(Top.rest)
           dir   == Top.path.dir
           below == Append(Front(stack), [Top EXCEPT !.rest = Tail(@)])
       IN IF line.kind = "filelist" THEN Visit(Join(dir, line.args[1]), below)
          ELSE /\ stack' = below
               /\ st' = CASE line.kind = "source" -> RecordSource(st, Join(dir, line.args[1]))
                          [] line.kind = "incdir" -> RecordIncludeDirs(st, dir, line.args)
                          [] line.kind = "define" -> RecordDefines(st, line.args)
                          [] OTHER                -> st
    /\ UNCHANGED <<disk, pc, roots, captured, result, cancelled, calls>>

\* expand returns: no line is left, none can be read, or the context is gone.
EndOfFilelist == /\ pc = "walk" /\ stack # <<>> /\ AtEnd
                 /\ stack' = Front(stack)
                 /\ UNCHANGED <<disk, pc, roots, st, captured, result, cancelled, calls>>

\* Mutant: what a cancelled walk found is captured.
Return_CapturesAnyway ==
    /\ pc = "walk" /\ stack = <<>> /\ roots = <<>>
    /\ pc' = "idle"
    /\ captured' = Capture(st)
    /\ result' = IF cancelled THEN {} ELSE {st.files}
    /\ UNCHANGED <<disk, roots, stack, st, cancelled, calls>>

Return == /\ pc = "walk" /\ stack = <<>> /\ roots = <<>>
          /\ pc' = "idle"
          /\ IF cancelled THEN result' = {} /\ UNCHANGED captured
                          ELSE result' = {st.files} /\ captured' = Capture(st)
          /\ UNCHANGED <<disk, roots, stack, st, cancelled, calls>>

Cancel == /\ ~cancelled
          /\ cancelled' = TRUE
          /\ UNCHANGED <<disk, pc, roots, stack, st, captured, result, calls>>

Walk == NextRoot \/ ReadLine \/ EndOfFilelist \/ Return

Next == Call \/ Walk \/ Cancel

\* The indexing goroutine keeps running; nobody has to call or cancel.
Spec == Init /\ [][Next]_vars /\ WF_vars(Walk)

-------------------------------------------------------------------------------
(***************************************************************************)
(* What the filelists of an edition lead to: the least set of references   *)
(* that holds the configured ones and is closed under the filelist lines.  *)
(***************************************************************************)
Exists(d, p) == d[Link[p]] # Gone

\* The lines of a text before the first that is too long.
Readable(t) == {t[i] : i \in {j \in 1 .. Len(t) : \A k \in 1 .. j : t[k].kind # "long"}}

LinesOf(d, p) == Readable(d[Link[p]])

Refers(d, p, kind) ==
    UNION {{Join(p.dir, a) : a \in ToSet(l.args)} : l \in {m \in LinesOf(d, p) : m.kind = kind}}

Existing(d) == {p \in Paths : Exists(d, p)}

Closed(d, S) == /\ ToSet(Configured) \intersect Existing(d) \subseteq S
                /\ \A p \in S : Refers(d, p, "filelist") \intersect Existing(d) \subseteq S

Reached(d) == {p \in Existing(d) : \A S \in SUBSET Existing(d) : Closed(d, S) => p \in S}

All(d, kind) == UNION {Refers(d, p, kind) : p \in Reached(d)}
Sources(d) == {p \in All(d, "source") : Exists(d, p)}
Definitions(d) == UNION {ToSet(l.args) : l \in {m \in UNION {LinesOf(d, p) : p \in Reached(d)} :
                                                   m.kind = "define"}}

\* No filelist is referred to in two directories.
OneDirectory(d) == \A p, q \in Reached(d) : Link[p] = Link[q] => p.dir = q.dir

Resolved(files) == {files[i].resolved : i \in 1 .. Len(files)}

\* One real file is one source file, under however many paths the filelists
\* name it, so that a pass never scans it into two entries.
NoFileTwice == \A i, j \in 1 .. Len(st.files) : st.files[i].resolved = st.files[j].resolved => i = j

\* A call that returns files returns exactly those that the filelists lead to,
\* under paths they name, as long as no filelist is met in two directories.
ResultExact ==
    \A files \in result : pc = "idle" =>
        /\ \A i \in 1 .. Len(files) : files[i].logical \in Sources(disk)
        /\ OneDirectory(disk) => Resolved(files) = {Link[p] : p \in Sources(disk)}

\* What IncludeDirs, Defines and VisitedFilelists answer with always comes from
\* one whole walk: a cancelled one leaves nothing of itself behind.
CapturedWhole ==
    captured # Capture(Nothing) =>
        \E d \in Editions :
            /\ captured.visited \subseteq {Link[p] : p \in Reached(d)}
            /\ captured.includeDirs \subseteq All(d, "incdir")
            /\ DOMAIN captured.defines \subseteq {a.name : a \in Definitions(d)}
            /\ OneDirectory(d) => /\ captured.visited = {Link[p] : p \in Reached(d)}
                                  /\ captured.includeDirs = All(d, "incdir")
                                  /\ DOMAIN captured.defines = {a.name : a \in Definitions(d)}

\* Every call returns: a cycle of filelists is no endless walk.
CallsReturn == pc = "walk" ~> pc = "idle"
===============================================================================
