----------------------------- MODULE Diagnostics -----------------------------
(***************************************************************************)
(* publishDiagnostics (diagnostics.go): after each Index.SetFile or        *)
(* RemoveFile, the goroutine that made the change goes through the touched *)
(* URIs one at a time -- it reads the URI's list from the index (under the *)
(* index lock), compares it with what was last published and records it    *)
(* (under Server.mu), and sends the notification (under no lock).  The     *)
(* handler goroutine and the worker pools all do so at once, and a header  *)
(* is touched by the scan of every file that includes it.                  *)
(***************************************************************************)
EXTENDS Naturals, FiniteSets

CONSTANTS URIs,        \* what a scan may report on
          FileURIs,    \* those with the file:// scheme; the rest is logged
          NoURI,       \* the loop variable outside the loop's body
          Publishers,  \* the goroutines that scan and publish
          Lists,       \* diagnostics lists
          Clean,       \* the empty list
          MaxScans     \* bound: scans in a behaviour

ASSUME DiagnosticsAssumption == /\ FileURIs \subseteq URIs
                                /\ NoURI \notin URIs
                                /\ Clean \in Lists
                                /\ MaxScans \in Nat

VARIABLES diags,       \* Index.diagsByURI
          published,   \* Server.published; Clean where it has no entry
          client,      \* the list the editor shows
          todo,        \* touched URIs a publisher has not come to yet
          pc,          \* "idle", "next", "compare" or "notify"
          uri, list,   \* publishDiagnostics' loop variable, and diags
          scans,       \* scans so far
          overlapped   \* ghost: see Overlap

vars == <<diags, published, client, todo, pc, uri, list, scans, overlapped>>

Busy(p, u) == u \in todo[p] \/ (pc[p] \in {"compare", "notify"} /\ uri[p] = u)
Settled(u) == \A p \in Publishers : ~Busy(p, u)

Init ==
    /\ diags = [u \in URIs |-> Clean]
    /\ published = [u \in URIs |-> Clean]
    /\ client = [u \in URIs |-> Clean]
    /\ todo = [p \in Publishers |-> {}]
    /\ pc = [p \in Publishers |-> "idle"]
    /\ uri = [p \in Publishers |-> NoURI]
    /\ list = [p \in Publishers |-> Clean]
    /\ scans = 0
    /\ overlapped = {}

(***************************************************************************)
(* The ghost: URIs a scan touched while another publisher was not done     *)
(* with them.  The mark goes when a scan touches them with nobody else at  *)
(* it, provided the record is right: diagnosticsChanged trusts published,  *)
(* so while that differs from what the editor shows even a scan that has   *)
(* the file to itself may be suppressed.                                   *)
(***************************************************************************)
Overlap(touched) ==
    {u \in overlapped : u \notin touched \/ client[u] # published[u]}
        \union {u \in touched : ~Settled(u)}

(***************************************************************************)
(* SetFile or RemoveFile installs new lists and returns what it touched.   *)
(* It reports every URI whose list it changed (SvIndex's ChangesReported). *)
(***************************************************************************)
\* Mutant: a scan that reports one file only, not the headers it reached.
Scan_OwnOnly(p) ==
    /\ pc[p] = "idle" /\ scans < MaxScans
    /\ scans' = scans + 1
    /\ \E touched \in (SUBSET URIs) \ {{}} : \E lists \in [touched -> Lists] :
          /\ diags' = [u \in URIs |-> IF u \in touched THEN lists[u] ELSE diags[u]]
          /\ todo' = [todo EXCEPT ![p] = {CHOOSE u \in touched : TRUE}]
          /\ overlapped' = Overlap(touched)
    /\ pc' = [pc EXCEPT ![p] = "next"]
    /\ UNCHANGED <<published, client, uri, list>>

Scan(p) ==
    /\ pc[p] = "idle" /\ scans < MaxScans
    /\ scans' = scans + 1
    /\ \E touched \in (SUBSET URIs) \ {{}} : \E lists \in [touched -> Lists] :
          /\ diags' = [u \in URIs |-> IF u \in touched THEN lists[u] ELSE diags[u]]
          /\ todo' = [todo EXCEPT ![p] = touched]
          /\ overlapped' = Overlap(touched)
    /\ pc' = [pc EXCEPT ![p] = "next"]
    /\ UNCHANGED <<published, client, uri, list>>

(***************************************************************************)
(* The loop: a URI that is no file is skipped, any other one's list is     *)
(* read from the index as it is now.                                       *)
(***************************************************************************)
Read(p, u) ==
    /\ pc[p] = "next" /\ u \in todo[p]
    /\ todo' = [todo EXCEPT ![p] = @ \ {u}]
    /\ IF u \in FileURIs
       THEN /\ uri' = [uri EXCEPT ![p] = u]
            /\ list' = [list EXCEPT ![p] = diags[u]]
            /\ pc' = [pc EXCEPT ![p] = "compare"]
       ELSE UNCHANGED <<pc, uri, list>>
    /\ UNCHANGED <<diags, published, client, scans, overlapped>>

(***************************************************************************)
(* diagnosticsChanged records a list that is not the recorded one and has  *)
(* it sent; notify writes to the connection.                               *)
(***************************************************************************)
EndBody(p) == /\ pc' = [pc EXCEPT ![p] = "next"]
              /\ uri' = [uri EXCEPT ![p] = NoURI]
              /\ list' = [list EXCEPT ![p] = Clean]

Record(p, send) ==
    /\ pc[p] = "compare"
    /\ published' = [published EXCEPT ![uri[p]] = list[p]]
    /\ IF send THEN /\ pc' = [pc EXCEPT ![p] = "notify"]
                    /\ UNCHANGED <<uri, list>>
               ELSE EndBody(p)
    /\ UNCHANGED <<diags, client, todo, scans, overlapped>>

\* Mutants: repeats are sent, or an empty list is taken for nothing to say.
Compare_Repeats(p) == Record(p, TRUE)
Compare_CleanIsNothing(p) == Record(p, list[p] \notin {Clean, published[uri[p]]})

Compare(p) == Record(p, list[p] # published[uri[p]])

Notify(p) ==
    /\ pc[p] = "notify"
    /\ client' = [client EXCEPT ![uri[p]] = list[p]]
    /\ EndBody(p)
    /\ UNCHANGED <<diags, published, todo, scans, overlapped>>

Return(p) ==
    /\ pc[p] = "next" /\ todo[p] = {}
    /\ pc' = [pc EXCEPT ![p] = "idle"]
    /\ UNCHANGED <<diags, published, client, todo, uri, list, scans, overlapped>>

Publish(p) == (\E u \in URIs : Read(p, u)) \/ Compare(p) \/ Notify(p) \/ Return(p)

Next == \E p \in Publishers : Scan(p) \/ Publish(p)

\* A goroutine that has scanned goes on to publish; nothing forces a scan.
Spec == Init /\ [][Next]_vars /\ \A p \in Publishers : WF_vars(Publish(p))

------------------------------------------------------------------------------
\* Types, and at most the URIs of the last scan are left to publish.
TypeOK ==
    /\ diags \in [URIs -> Lists]
    /\ published \in [URIs -> Lists]
    /\ client \in [URIs -> Lists]
    /\ todo \in [Publishers -> SUBSET URIs]
    /\ pc \in [Publishers -> {"idle", "next", "compare", "notify"}]
    /\ uri \in [Publishers -> FileURIs \union {NoURI}]
    /\ list \in [Publishers -> Lists]
    /\ scans \in 0 .. MaxScans
    /\ overlapped \subseteq URIs
    /\ \A p \in Publishers : pc[p] = "idle" => todo[p] = {}
    /\ \A p \in Publishers : uri[p] = NoURI <=> pc[p] \in {"idle", "next"}

\* When everyone is done with a file that no two publishers worked on at
\* once, the editor shows what the index holds for it: suppressing repeats
\* never suppresses a change, and clearing squiggles is a change.
EditorShowsIndex ==
    \A u \in FileURIs \ overlapped : Settled(u) => client[u] = diags[u]

\* diagnosticsChanged keeps repeats off the pipe: but for races, every
\* notification changes what the editor shows.
NoRepeats ==
    \A p \in Publishers : pc[p] = "notify" /\ uri[p] \notin overlapped
                              => client[uri[p]] # list[p]

\* Every change is taken to the editor: whenever the index and the editor
\* disagree about a file nobody raced for, somebody is on the way.
EventuallyShown ==
    \A u \in FileURIs : client[u] # diags[u] ~> (client[u] = diags[u] \/ u \in overlapped)

------------------------------------------------------------------------------
\* "published records, per URI, the diagnostics last sent to the client"
\* (server.go): two publishers may record in one order and send in the other.
PublishedIsShown == \A u \in FileURIs : Settled(u) => client[u] = published[u]
==============================================================================
