--------------------------- MODULE LifecycleProofs ---------------------------
(***************************************************************************)
(* For any number of handshakes, files, editions of the filelists and      *)
(* edits: at most one run is live, and once it has settled the index is    *)
(* configured as the filelists say, entry by entry.                        *)
(***************************************************************************)
EXTENDS Lifecycle, TLAPS

\* What the invariant needs of the types.
Numbered == newest \in Nat /\ DOMAIN pc = Runs

IInv == Numbered /\ OneLiveRun

\* Every action but Initialize and Shutdown leaves the requests' state alone and
\* moves only a run that was started already.
LEMMA PassKeepsRuns ==
    ASSUME IInv, NEW r \in Runs, Run(r)
    PROVE  /\ UNCHANGED <<newest, cancelled, shutdown>>
           /\ DOMAIN pc' = Runs
           /\ \A q \in Runs : pc'[q] # "none" => pc[q] # "none"
<1>1. CASE Discover(r)
  BY <1>1 DEF IInv, Numbered, Discover, Goto, server
<1>2. CASE SetIncludeResolverFactory(r)
  BY <1>2 DEF IInv, Numbered, SetIncludeResolverFactory, Goto, server
<1>3. CASE SetInitialMacros(r)
  BY <1>3 DEF IInv, Numbered, SetInitialMacros, Goto, server
<1>4. CASE Reconcile(r)
  BY <1>4 DEF IInv, Numbered, Reconcile, Goto, server
<1>5. CASE WatchFiles(r)
  BY <1>5 DEF IInv, Numbered, WatchFiles, Goto
<1>6. CASE \E f \in Files : ScanOne(r, f)
  BY <1>6 DEF IInv, Numbered, ScanOne, server
<1>7. QED
  BY <1>1, <1>2, <1>3, <1>4, <1>5, <1>6 DEF Run

\* One step of anything preserves the invariant.
LEMMA OneLiveRunStep == IInv /\ [Next]_vars => IInv'
<1> SUFFICES ASSUME IInv, [Next]_vars PROVE IInv'
  OBVIOUS
<1>1. CASE Initialize
  <2>1. /\ newest < MaxRuns /\ ~shutdown
        /\ newest' = newest + 1
        /\ cancelled' = cancelled \union ({newest} \ {0})
        /\ pc' = [pc EXCEPT ![newest + 1] = "discover"]
        /\ shutdown' = shutdown
    BY <1>1 DEF Initialize, Goto
  <2>2. Numbered'
    BY <2>1 DEF IInv, Numbered
  <2>3. ASSUME NEW q \in Runs, pc'[q] # "none", q \notin cancelled'
        PROVE  q = newest'
    <3>1. CASE pc[q] # "none"
      <4>1. q = newest
        BY <2>1, <2>3, <3>1 DEF IInv, OneLiveRun
      <4>2. q # 0
        BY DEF Runs
      <4>3. QED
        BY <2>1, <2>3, <4>1, <4>2
    <3>2. CASE pc[q] = "none"
      BY <2>1, <2>3, <3>2 DEF IInv, Numbered
    <3>3. QED
      BY <3>1, <3>2
  <2>4. QED
    BY <2>1, <2>2, <2>3 DEF IInv, OneLiveRun
<1>2. CASE Shutdown
  <2>1. Numbered'
    BY <1>2 DEF Shutdown, IInv, Numbered, passes
  <2>2. OneLiveRun'
    BY <1>2 DEF Shutdown, IInv, OneLiveRun, passes
  <2>3. QED
    BY <2>1, <2>2 DEF IInv
<1>3. CASE \E r \in Runs : Run(r)
  <2>1. PICK r \in Runs : Run(r)
    BY <1>3
  <2>2. QED
    BY <2>1, PassKeepsRuns DEF IInv, Numbered, OneLiveRun
<1>4. CASE EditFilelist \/ EndScan \/ \E f \in Files : StartScan(f)
  BY <1>4 DEF EditFilelist, EndScan, StartScan, server, passes, IInv, Numbered,
              OneLiveRun
<1>5. CASE UNCHANGED vars
  BY <1>5 DEF vars, IInv, Numbered, OneLiveRun
<1>6. QED
  BY <1>1, <1>2, <1>3, <1>4, <1>5 DEF Next

\* However often the client initializes, and whatever the runs are doing, a run
\* that is not cancelled is the newest, and there is none after Shutdown.
THEOREM LiveRunIsNewest == Spec => []OneLiveRun
<1>1. Init => IInv
  BY DEF Init, IInv, Numbered, OneLiveRun
<1>2. IInv => OneLiveRun
  BY DEF IInv
<1>3. QED
  BY <1>1, <1>2, OneLiveRunStep, PTL DEF Spec
-------------------------------------------------------------------------------
(***************************************************************************)
(* The configuration.  While no handshake has cancelled a run in the       *)
(* middle of a pass, the newest run is alone: the others watch, cancelled, *)
(* or are done.  How far its pass has come says how much of the index's    *)
(* configuration, and which entries, are those of the edition it read.     *)
(***************************************************************************)

\* The shape of the state the argument walks on.
Shaped ==
    /\ edition \in Editions /\ newest \in 0 .. MaxRuns
    /\ cancelled \subseteq 1 .. newest /\ (newest \in cancelled => shutdown)
    /\ pc \in [Runs -> Places]
    /\ captured \in [Runs -> {Nothing} \union Editions]
    /\ DOMAIN found = Runs /\ DOMAIN todo = Runs /\ DOMAIN prev = Runs
    /\ DOMAIN entry = Files

\* No run but the newest is in a pass.
Alone == \A r \in Runs \ {newest} : pc[r] \in {"none", "watch", "done"}

\* What run r, the newest, has made of the edition it captured.
Reconfigures(r) ==
    LET e == captured[r] IN
    /\ pc[r] \in {"factory", "macros", "scan", "watch"} => e \in Editions /\ found[r] = View[e]
    /\ pc[r] \in {"macros", "scan", "watch"} => factory = e
    /\ pc[r] \in {"scan", "watch"} =>
          /\ macros = e
          /\ \A f \in View[e] \ overtaken :
                entry[f] = Of(e) \/ (pc[r] = "scan" /\ f \in todo[r])

Converges == newest # 0 /\ newest \notin cancelled /\ ~hasty => Alone /\ Reconfigures(newest)

ConfigInv == Shaped /\ Converges

LEMMA RunsFact == /\ Runs \subseteq Nat \ {0}
                  /\ \A n \in 0 .. MaxRuns : n < MaxRuns => n + 1 \in Runs
                  /\ \A n \in 0 .. MaxRuns : n # 0 => n \in Runs
                  /\ Editions \subseteq Nat \ {0} /\ 1 \in Editions
BY LifecycleAssumption DEF Runs, Editions

LEMMA ShapedStep == OneLiveRun /\ Shaped /\ [Next]_vars => Shaped'
<1> SUFFICES ASSUME OneLiveRun, Shaped, [Next]_vars PROVE Shaped'
  OBVIOUS
<1>1. CASE Initialize
  <2>1. newest' \in 0 .. MaxRuns /\ cancelled' \subseteq 1 .. newest' /\ newest' \notin cancelled'
    BY <1>1, LifecycleAssumption DEF Initialize, Shaped
  <2>2. pc' \in [Runs -> Places]
    BY <1>1 DEF Initialize, Shaped, Goto, Places
  <2> QED BY <1>1, <2>1, <2>2 DEF Initialize, Shaped, config, client
<1>2. CASE Shutdown
  BY <1>2, LifecycleAssumption DEF Shutdown, Shaped, passes
<1>3. CASE EditFilelist
  BY <1>3, LifecycleAssumption DEF EditFilelist, Shaped, server, Editions
<1>4. CASE EndScan \/ \E f \in Files : StartScan(f)
  BY <1>4 DEF EndScan, StartScan, Shaped, server, passes
<1>5. ASSUME NEW r \in Runs, Discover(r) PROVE Shaped'
  BY <1>5 DEF Discover, Goto, Shaped, Places, server
<1>6. ASSUME NEW r \in Runs, SetIncludeResolverFactory(r) PROVE Shaped'
  BY <1>6 DEF SetIncludeResolverFactory, Goto, Shaped, Places, server
<1>7. ASSUME NEW r \in Runs, SetInitialMacros(r) PROVE Shaped'
  BY <1>7 DEF SetInitialMacros, Goto, Shaped, Places, server
<1>8. ASSUME NEW r \in Runs, NEW f \in Files, ScanOne(r, f) PROVE Shaped'
  BY <1>8 DEF ScanOne, Shaped, server
<1>9. ASSUME NEW r \in Runs, Reconcile(r) PROVE Shaped'
  BY <1>9 DEF Reconcile, Goto, Shaped, Places, server
<1>10. ASSUME NEW r \in Runs, WatchFiles(r) PROVE Shaped'
  BY <1>10 DEF WatchFiles, Goto, Shaped, Places
<1>11. CASE UNCHANGED vars
  BY <1>11 DEF vars, Shaped
<1> QED BY <1>1, <1>2, <1>3, <1>4, <1>5, <1>6, <1>7, <1>8, <1>9, <1>10, <1>11 DEF Next, Run

\* A handshake finds the run before it watching, or is hasty.
LEMMA InitializeConverges ==
  ASSUME OneLiveRun, ConfigInv, Initialize
  PROVE  Converges'
<1>1. /\ newest \in 0 .. MaxRuns /\ newest' = newest + 1 /\ newest' \in Runs
      /\ pc' = [pc EXCEPT ![newest'] = "discover"]
      /\ hasty' = (hasty \/ (newest # 0 /\ pc[newest] # "watch"))
      /\ newest \notin cancelled
  BY RunsFact DEF Initialize, Goto, ConfigInv, Shaped
<1>2. SUFFICES ASSUME ~hasty' PROVE Alone' /\ Reconfigures(newest)'
  BY DEF Converges
<1>3. ~hasty /\ (newest # 0 => pc[newest] = "watch")
  BY <1>1, <1>2
<1>4. ASSUME NEW r \in Runs \ {newest'} PROVE pc'[r] \in {"none", "watch", "done"}
  <2>1. pc'[r] = pc[r]
    BY <1>1 DEF ConfigInv, Shaped
  <2>2. CASE newest = 0
    BY <2>1, <2>2, RunsFact DEF ConfigInv, Shaped, OneLiveRun
  <2>3. CASE newest # 0
    BY <1>1, <1>3, <2>1, <2>3 DEF ConfigInv, Converges, Alone
  <2> QED BY <2>2, <2>3
<1>5. pc'[newest'] = "discover"
  BY <1>1 DEF ConfigInv, Shaped
<1>6. Reconfigures(newest)'
  BY <1>5 DEF Reconfigures
<1> QED BY <1>4, <1>6 DEF Alone

\* While the newest run is alone, another one can only come to its end.
LEMMA OthersEnd ==
  ASSUME OneLiveRun, ConfigInv, Alone, NEW r \in Runs \ {newest}, Run(r), ~hasty'
  PROVE  /\ pc' = [pc EXCEPT ![r] = "done"]
         /\ UNCHANGED <<edition, newest, cancelled, hasty, captured, found, todo,
                        config, entry, overtaken>>
<1>1. pc[r] \in {"none", "watch", "done"}
  BY DEF Alone
<1>2. WatchFiles(r)
  BY <1>1 DEF Run, Discover, SetIncludeResolverFactory, SetInitialMacros, ScanOne, Reconcile
<1>3. r \in cancelled
  BY <1>2 DEF WatchFiles, OneLiveRun
<1> QED BY <1>2, <1>3 DEF WatchFiles, Goto, client

\* One step of the newest run, which is alone and not cancelled.
LEMMA NewestReconfigures ==
  ASSUME ConfigInv, NEW r \in Runs, r = newest, r \notin cancelled, Alone,
         Reconfigures(r), Run(r), ~hasty'
  PROVE  newest' = newest /\ Alone' /\ Reconfigures(r)'
<1>1. CASE Discover(r)
  BY <1>1, LifecycleAssumption DEF Discover, Goto, ConfigInv, Shaped, Alone, Reconfigures, server
<1>2. CASE SetIncludeResolverFactory(r)
  BY <1>2 DEF SetIncludeResolverFactory, Goto, ConfigInv, Shaped, Alone, Reconfigures, server
<1>3. CASE SetInitialMacros(r)
  BY <1>3 DEF SetInitialMacros, Goto, ConfigInv, Shaped, Alone, Reconfigures, server
<1>4. ASSUME NEW g \in Files, ScanOne(r, g) PROVE newest' = newest /\ Alone' /\ Reconfigures(r)'
  <2>1. /\ pc[r] = "scan" /\ pc' = pc /\ newest' = newest /\ captured' = captured
        /\ found' = found /\ factory' = factory /\ macros' = macros
        /\ todo' = [todo EXCEPT ![r] = @ \ {g}]
        /\ entry' = [entry EXCEPT ![g] = Current]
        /\ overtaken' = overtaken \ {g}
    BY <1>4 DEF ScanOne, server, config
  <2>2. Current = Of(captured[r])
    BY <2>1 DEF Reconfigures, Current, Of
  <2> QED BY <2>1, <2>2 DEF ConfigInv, Shaped, Alone, Reconfigures
<1>5. CASE Reconcile(r)
  <2>1. /\ pc[r] = "scan" /\ todo[r] = {} /\ newest' = newest /\ captured' = captured
        /\ found' = found /\ factory' = factory /\ macros' = macros /\ overtaken' = overtaken
        /\ todo' = [todo EXCEPT ![r] = {}]
        /\ pc' = [pc EXCEPT ![r] = "watch"] \/ pc' = [pc EXCEPT ![r] = "done"]
        /\ \A f \in found[r] \cap Files : entry'[f] = entry[f]
    BY <1>5 DEF Reconcile, Goto, server, config, client, ConfigInv, Shaped
  <2>2. View[captured[r]] = found[r] /\ found[r] \subseteq Files
    BY <2>1, LifecycleAssumption DEF Reconfigures
  <2> QED BY <2>1, <2>2 DEF ConfigInv, Shaped, Alone, Reconfigures
<1>6. CASE WatchFiles(r)
  BY <1>6 DEF WatchFiles, Goto, ConfigInv, Shaped, Alone, Reconfigures
<1> QED BY <1>1, <1>2, <1>3, <1>4, <1>5, <1>6 DEF Run

\* A handler installs what it scanned under the configuration of now, or leaves an
\* entry that was overtaken.
LEMMA HandlerKeeps ==
  ASSUME ConfigInv, Alone, newest \in Runs, Reconfigures(newest), EndScan
  PROVE  newest' = newest /\ Alone' /\ Reconfigures(newest)'
<1>1. PICK s \in scan :
         /\ entry' = [entry EXCEPT ![s.file] = s.config]
         /\ overtaken' = IF s.config = Current THEN overtaken \ {s.file}
                                               ELSE overtaken \union {s.file}
  BY DEF EndScan
<1>2. UNCHANGED <<newest, pc, captured, found, todo, factory, macros>>
  BY DEF EndScan, server, passes, config
<1>3. pc[newest] \in {"scan", "watch"} => Current = Of(captured[newest])
  BY DEF Reconfigures, Current, Of
<1>4. ASSUME pc[newest] \in {"scan", "watch"}, NEW f \in View[captured[newest]] \ overtaken'
      PROVE  entry'[f] = Of(captured[newest]) \/ (pc[newest] = "scan" /\ f \in todo[newest])
  <2>1. f \in Files
    BY <1>4, LifecycleAssumption DEF Reconfigures
  <2>2. CASE f = s.file
    BY <1>1, <1>3, <1>4, <2>1, <2>2 DEF ConfigInv, Shaped
  <2>3. CASE f # s.file
    BY <1>1, <1>4, <2>1, <2>3 DEF ConfigInv, Shaped, Reconfigures
  <2> QED BY <2>2, <2>3
<1> QED BY <1>2, <1>4 DEF Alone, Reconfigures

LEMMA ConfigStep == OneLiveRun /\ ConfigInv /\ [Next]_vars => ConfigInv'
<1> SUFFICES ASSUME OneLiveRun, ConfigInv, [Next]_vars PROVE Converges'
  BY ShapedStep DEF ConfigInv
<1>1. CASE Initialize
  BY <1>1, InitializeConverges
<1> SUFFICES ASSUME ~Initialize, newest' # 0, newest' \notin cancelled', ~hasty'
             PROVE  Alone' /\ Reconfigures(newest)'
  BY <1>1 DEF Converges
<1>2. ASSUME newest' = newest, cancelled \subseteq cancelled', hasty => hasty'
      PROVE  Alone /\ Reconfigures(newest) /\ newest \in Runs /\ newest \notin cancelled
  BY <1>2, RunsFact DEF ConfigInv, Converges, Shaped
<1>3. CASE Shutdown
  BY <1>3 DEF Shutdown
<1>4. CASE EditFilelist
  BY <1>2, <1>4 DEF EditFilelist, server, config, client, Alone, Reconfigures
<1>5. ASSUME NEW f \in Files, StartScan(f) PROVE Alone' /\ Reconfigures(newest)'
  BY <1>2, <1>5 DEF StartScan, server, passes, config, Alone, Reconfigures
<1>6. CASE EndScan
  BY <1>2, <1>6, HandlerKeeps DEF EndScan, server
<1>7. ASSUME NEW r \in Runs, Run(r) PROVE Alone' /\ Reconfigures(newest)'
  <2>1. newest' = newest /\ cancelled' = cancelled /\ (hasty => hasty')
    <3>1. Numbered
      BY DEF ConfigInv, Shaped, Numbered
    <3>2. UNCHANGED <<newest, cancelled>>
      BY <1>7, <3>1, PassKeepsRuns DEF IInv
    <3>3. WatchFiles(r) => UNCHANGED hasty \/ hasty' = (hasty \/ r \in cancelled)
      BY DEF WatchFiles
    <3>4. WatchFiles(r) \/ UNCHANGED hasty => (hasty => hasty')
      BY <3>3, Zenon
    <3> QED BY <1>7, <3>2, <3>4 DEF Run, Discover, SetIncludeResolverFactory,
              SetInitialMacros, ScanOne, Reconcile, server
  <2>2. Alone /\ Reconfigures(newest) /\ newest \in Runs /\ newest \notin cancelled
    BY <1>2, <2>1
  <2>3. CASE r = newest
    BY <1>7, <2>1, <2>2, <2>3, NewestReconfigures
  <2>4. CASE r # newest
    BY <1>7, <2>2, <2>4, OthersEnd DEF ConfigInv, Shaped, Alone, Reconfigures, config
  <2> QED BY <2>3, <2>4
<1>8. CASE UNCHANGED vars
  BY <1>2, <1>8 DEF vars, Alone, Reconfigures
<1> QED BY <1>3, <1>4, <1>5, <1>6, <1>7, <1>8 DEF Next

\* Whatever the runs, the client and the filelists do, once the newest run watches
\* with nothing in flight, every file its filelists name is indexed under the
\* configuration they gave, unless a handler that started earlier installed it.
THEOREM SettledConfiguration == Spec => []SettledIsReconfigured
<1>1. Init => ConfigInv
  BY RunsFact, LifecycleAssumption DEF Init, ConfigInv, Shaped, Converges, Places
<1>2. ConfigInv => SettledIsReconfigured
  <2> SUFFICES ASSUME ConfigInv, Settled
               PROVE  LET e == captured[newest]
                      IN /\ e # Nothing /\ Current = Of(e)
                         /\ \A f \in View[e] \ overtaken : entry[f] = Of(e)
    BY DEF SettledIsReconfigured
  <2>1. Reconfigures(newest) /\ pc[newest] = "watch"
    BY DEF Settled, ConfigInv, Converges
  <2> QED BY <2>1, RunsFact DEF Reconfigures, Current, Of, Nothing
<1> QED BY <1>1, <1>2, ConfigStep, LiveRunIsNewest, PTL DEF Spec

===============================================================================
