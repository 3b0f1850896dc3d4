---------------------------- MODULE FilelistProofs ----------------------------
(***************************************************************************)
(* What a call of Files returns and captures, for any filelists, links and *)
(* configuration: one real file is one source, nothing is listed that the  *)
(* filelists do not lead to, and nothing is missed.  The last is by a      *)
(* closure argument.  Reached is the least closed set of references, so    *)
(* whatever is reached is in the set of those the walk has visited, once   *)
(* that set is closed; and it is when the stack is empty, because a line   *)
(* of a visited filelist is recorded or still waits in a frame.            *)
(***************************************************************************)
EXTENDS Filelist, TLAPS, SequenceTheorems

Once(files) == \A i, j \in 1 .. Len(files) : files[i].resolved = files[j].resolved => i = j

\* discoveryState: the sources are the files' real paths, each once.
Listed(s) ==
    /\ DOMAIN s = {"filelists", "sources", "files", "includeDirs", "defines"}
    /\ s.files \in Seq(ToSet(s.files))
    /\ s.sources = Resolved(s.files)
    /\ Once(s.files)

\* Everything in s is something the filelists of d lead to.
Led(d, s) ==
    /\ s.filelists \subseteq {Link[p] : p \in Reached(d)}
    /\ \A i \in 1 .. Len(s.files) : /\ s.files[i].logical \in Sources(d)
                                    /\ s.files[i].resolved = Link[s.files[i].logical]
    /\ s.includeDirs \subseteq All(d, "incdir")
    /\ DOMAIN s.defines \subseteq {a.name : a \in Definitions(d)}

\* Nothing is missing.
Complete(d, s) ==
    OneDirectory(d) =>
        /\ s.filelists = {Link[p] : p \in Reached(d)}
        /\ s.sources = {Link[p] : p \in Sources(d)}
        /\ s.includeDirs = All(d, "incdir")
        /\ DOMAIN s.defines = {a.name : a \in Definitions(d)}

\* s has what line l of the filelist p asks for.
Handled(d, s, p, l) ==
    /\ l.kind = "source" =>
          \A a \in ToSet(l.args) : Exists(d, Join(p.dir, a)) => Link[Join(p.dir, a)] \in s.sources
    /\ l.kind = "filelist" =>
          \A a \in ToSet(l.args) : Exists(d, Join(p.dir, a)) => Link[Join(p.dir, a)] \in s.filelists
    /\ l.kind = "incdir" => {Join(p.dir, a) : a \in ToSet(l.args)} \subseteq s.includeDirs
    /\ l.kind = "define" => {a.name : a \in ToSet(l.args)} \subseteq DOMAIN s.defines

Waits(frames, p, l) ==
    \E i \in 1 .. Len(frames) : frames[i].path = p /\ l \in Readable(frames[i].rest)

\* Each filelist that was visited was read as one the filelists lead to, and its
\* lines are handled or wait.
Read(d, s, frames) ==
    \A r \in s.filelists : \E p \in Reached(d) :
        /\ Link[p] = r
        /\ \A l \in LinesOf(d, p) : Handled(d, s, p, l) \/ Waits(frames, p, l)

RootsRead(d, s, left) ==
    \A p \in ToSet(Configured) \intersect Existing(d) : Link[p] \in s.filelists \/ p \in ToSet(left)

Lines(d) == UNION {ToSet(d[r]) : r \in {q \in Paths : d[q] # Gone}}
Frames(d) == [path : Paths, rest : Seq(Lines(d))]

FramesLed(d, frames) ==
    /\ frames \in Seq(Frames(d))
    /\ \A i \in 1 .. Len(frames) : /\ frames[i].path \in Reached(d)
                                   /\ Readable(frames[i].rest) \subseteq LinesOf(d, frames[i].path)

IInv ==
    /\ disk \in Editions
    /\ pc \in {"idle", "walk"} /\ (pc = "idle" => stack = <<>>)
    /\ roots \in Seq(ToSet(Configured))
    /\ FramesLed(disk, stack)
    /\ Listed(st) /\ Led(disk, st)
    /\ pc = "walk" /\ ~cancelled => Read(disk, st, stack) /\ RootsRead(disk, st, roots)
    /\ pc = "idle" => \A files \in result : files = st.files /\ Complete(disk, st)
    /\ captured # Capture(Nothing) =>
          \E d \in Editions : \E s : captured = Capture(s) /\ Led(d, s) /\ Complete(d, s)

-------------------------------------------------------------------------------
\* Sequences.

\* A queue is its head and its tail.
LEMMA HeadAndRest ==
  ASSUME NEW S, NEW s \in Seq(S), s # <<>>
  PROVE  /\ Head(s) \in S /\ Tail(s) \in Seq(S)
         /\ ToSet(s) = {Head(s)} \union ToSet(Tail(s))
<1>1. /\ Len(s) \in Nat \ {0} /\ DOMAIN s = 1 .. Len(s) /\ Head(s) = s[1]
      /\ Tail(s) \in Seq(S) /\ Len(Tail(s)) = Len(s) - 1 /\ DOMAIN Tail(s) = 1 .. Len(s) - 1
      /\ \A i \in 1 .. Len(s) - 1 : Tail(s)[i] = s[i + 1]
  BY EmptySeq, LenProperties, HeadTailProperties
<1>2. ASSUME NEW x \in ToSet(s) PROVE x \in {Head(s)} \union ToSet(Tail(s))
  <2>1. PICK i \in 1 .. Len(s) : x = s[i]
    BY <1>1 DEF ToSet
  <2>2. i = 1 \/ (i - 1 \in 1 .. Len(s) - 1 /\ Tail(s)[i - 1] = s[i])
    BY <1>1
  <2> QED BY <1>1, <2>1, <2>2 DEF ToSet
<1>3. ToSet(Tail(s)) \subseteq ToSet(s) /\ Head(s) \in ToSet(s)
  BY <1>1 DEF ToSet
<1> QED BY <1>1, <1>2, <1>3, HeadTailProperties

\* The lines of a text that can be read are the next one and those behind it.
LEMMA ReadableRest ==
  ASSUME NEW S, NEW t \in Seq(S)
  PROVE  /\ (t = <<>> \/ Head(t).kind = "long") => Readable(t) = {}
         /\ t # <<>> /\ Head(t).kind # "long"
               => Readable(t) = {Head(t)} \union Readable(Tail(t))
         /\ Readable(t) \subseteq ToSet(t)
<1>1. Len(t) \in Nat /\ DOMAIN t = 1 .. Len(t) /\ (t = <<>> => Len(t) = 0)
  BY EmptySeq, LenProperties
<1>2. ASSUME t # <<>>
      PROVE  /\ Len(t) \in Nat \ {0} /\ Head(t) = t[1]
             /\ Len(Tail(t)) = Len(t) - 1
             /\ \A i \in 1 .. Len(t) - 1 : Tail(t)[i] = t[i + 1]
  BY <1>2, EmptySeq, LenProperties, HeadTailProperties
<1>3. (t = <<>> \/ Head(t).kind = "long") => Readable(t) = {}
  <2>1. CASE t = <<>>
    BY <1>1, <2>1 DEF Readable
  <2>2. CASE t # <<>> /\ Head(t).kind = "long"
    BY <1>2, <2>2 DEF Readable
  <2> QED BY <2>1, <2>2
<1>4. ASSUME t # <<>>, Head(t).kind # "long"
      PROVE  Readable(t) = {Head(t)} \union Readable(Tail(t))
  <2> DEFINE Fine(s, j) == \A k \in 1 .. j : s[k].kind # "long"
  <2>1. ASSUME NEW j \in 1 .. Len(t) - 1 PROVE Fine(Tail(t), j) <=> Fine(t, j + 1)
    <3>1. ASSUME Fine(t, j + 1), NEW k \in 1 .. j PROVE Tail(t)[k].kind # "long"
      BY <1>2, <1>4, <3>1
    <3>2. ASSUME Fine(Tail(t), j), NEW k \in 1 .. j + 1 PROVE t[k].kind # "long"
      <4>1. CASE k = 1
        BY <1>2, <1>4, <4>1
      <4>2. CASE k # 1
        <5>1. k - 1 \in 1 .. j /\ t[k] = Tail(t)[k - 1]
          BY <1>2, <1>4, <4>2
        <5> QED BY <3>2, <5>1
      <4> QED BY <4>1, <4>2
    <3> QED BY <3>1, <3>2
  <2>2. ASSUME NEW x \in Readable(t) PROVE x \in {Head(t)} \union Readable(Tail(t))
    <3>1. PICK j \in 1 .. Len(t) : x = t[j] /\ Fine(t, j)
      BY DEF Readable
    <3>2. CASE j = 1
      BY <1>2, <1>4, <3>1, <3>2
    <3>3. CASE j # 1
      <4>1. j - 1 \in 1 .. Len(t) - 1 /\ (j - 1) + 1 = j /\ Tail(t)[j - 1] = x
        BY <1>2, <1>4, <3>1, <3>3
      <4>2. Fine(Tail(t), j - 1)
        BY <2>1, <3>1, <4>1
      <4> QED BY <1>2, <1>4, <4>1, <4>2 DEF Readable
    <3> QED BY <3>2, <3>3
  <2>3. ASSUME NEW x \in Readable(Tail(t)) PROVE x \in Readable(t)
    <3>1. PICK j \in 1 .. Len(t) - 1 : x = Tail(t)[j] /\ Fine(Tail(t), j)
      BY <1>2, <1>4 DEF Readable
    <3>2. j + 1 \in 1 .. Len(t) /\ x = t[j + 1] /\ Fine(t, j + 1)
      BY <1>2, <1>4, <2>1, <3>1
    <3> QED BY <3>2 DEF Readable
  <2>4. Head(t) \in Readable(t)
    <3>1. 1 \in 1 .. Len(t) /\ Fine(t, 1)
      BY <1>2, <1>4
    <3> QED BY <1>2, <1>4, <3>1 DEF Readable
  <2> QED BY <2>2, <2>3, <2>4
<1>5. Readable(t) \subseteq ToSet(t)
  BY <1>1 DEF Readable, ToSet
<1> QED BY <1>3, <1>4, <1>5

\* A stack with its top gone, and one with its top replaced.
LEMMA TopGone ==
  ASSUME NEW S, NEW s \in Seq(S), s # <<>>
  PROVE  /\ Front(s) \in Seq(S) /\ Len(Front(s)) = Len(s) - 1 /\ Len(s) \in Nat \ {0}
         /\ \A i \in 1 .. Len(s) - 1 : Front(s)[i] = s[i]
<1>1. Len(s) \in Nat \ {0}
  BY EmptySeq
<1>2. /\ Front(s) \in Seq(S) /\ Len(Front(s)) = Len(s) - 1
      /\ \A i \in 1 .. Len(s) - 1 : Front(s)[i] = s[i]
  <2>1. Front(s) = SubSeq(s, 1, Len(s) - 1)
    BY DEF Front
  <2>2. Len(s) - 1 \in Int /\ \A i \in 1 .. Len(s) - 1 : s[i] \in S
    BY <1>1, ElementOfSeq
  <2> DEFINE n == Len(s) - 1
  <2>3. n \in Nat /\ (~(1 <= n) => n = 0)
    <3> HIDE DEF n
    <3>1. PICK m \in Nat \ {0} : m = Len(s)
      BY <1>1
    <3>2. n = m - 1
      BY <3>1 DEF n
    <3> QED BY <3>2
  <2>4. /\ SubSeq(s, 1, n) \in Seq(S)
        /\ Len(SubSeq(s, 1, n)) = IF 1 <= n THEN n - 1 + 1 ELSE 0
        /\ \A i \in 1 .. n - 1 + 1 : SubSeq(s, 1, n)[i] = s[1 + i - 1]
    BY <2>2, SubSeqProperties
  <2>5. Len(SubSeq(s, 1, n)) = n /\ \A i \in 1 .. n : SubSeq(s, 1, n)[i] = s[i]
    BY <2>3, <2>4
  <2> QED BY <2>1, <2>4, <2>5
<1> QED BY <1>1, <1>2

LEMMA TopReplaced ==
  ASSUME NEW S, NEW s \in Seq(S), s # <<>>, NEW x \in S
  PROVE  LET t == Append(Front(s), x)
         IN /\ t \in Seq(S) /\ Len(t) = Len(s) /\ Len(s) \in 1 .. Len(s) /\ t[Len(s)] = x
            /\ \A i \in 1 .. Len(s) : i # Len(s) => t[i] = s[i]
BY TopGone

-------------------------------------------------------------------------------
\* What the filelists lead to is closed.

\* An edition's texts are texts, and a path leads to a path.
LEMMA EditionTexts ==
  ASSUME NEW d \in Editions, NEW p \in Paths
  PROVE  /\ Link[p] \in Paths
         /\ Exists(d, p) => IsText(d[Link[p]]) /\ d[Link[p]] \in Seq(Lines(d))
<1>1. Link[p] \in Paths /\ (Exists(d, p) => IsText(d[Link[p]]))
  BY FilelistAssumption DEF Exists
<1>2. ASSUME Exists(d, p) PROVE d[Link[p]] \in Seq(Lines(d))
  <2>1. ToSet(d[Link[p]]) \subseteq Lines(d)
    BY <1>1, <1>2 DEF Lines, Exists
  <2> QED BY <1>1, <1>2, <2>1, SeqMonotonic DEF IsText
<1> QED BY <1>1, <1>2

LEMMA JoinPath ==
  ASSUME NEW p \in Paths, NEW a \in Entries
  PROVE  Join(p.dir, a) \in Paths
BY DEF Join, Entries, Paths

LEMMA ReachedClosed ==
  ASSUME NEW d \in Editions
  PROVE  /\ Reached(d) \subseteq Existing(d) /\ Existing(d) \subseteq Paths
         /\ ToSet(Configured) \intersect Existing(d) \subseteq Reached(d)
         /\ \A p \in Reached(d) : Refers(d, p, "filelist") \intersect Existing(d) \subseteq Reached(d)
         /\ \A S \in SUBSET Existing(d) : Closed(d, S) => Reached(d) \subseteq S
BY DEF Reached, Existing, Closed

\* The line a frame reads next names what the filelists lead to.
LEMMA LineLed ==
  ASSUME NEW d \in Editions, NEW p \in Reached(d), NEW l \in LinesOf(d, p)
  PROVE  /\ l.kind \in {"source", "filelist"} =>
               /\ l.args[1] \in ToSet(l.args) /\ ToSet(l.args) = {l.args[1]}
               /\ Join(p.dir, l.args[1]) \in Paths
         /\ l.kind = "source" /\ Exists(d, Join(p.dir, l.args[1]))
               => Join(p.dir, l.args[1]) \in Sources(d)
         /\ l.kind = "filelist" /\ Exists(d, Join(p.dir, l.args[1]))
               => Join(p.dir, l.args[1]) \in Reached(d)
         /\ l.kind = "incdir" => {Join(p.dir, a) : a \in ToSet(l.args)} \subseteq All(d, "incdir")
         /\ l.kind = "define" => {a.name : a \in ToSet(l.args)} \subseteq {a.name : a \in Definitions(d)}
<1>1. p \in Paths /\ Exists(d, p)
  BY ReachedClosed DEF Existing
<1>2. l \in ToSet(d[Link[p]])
  BY <1>1, EditionTexts, ReadableRest DEF LinesOf
<1>3. ASSUME l.kind \in {"source", "filelist"}
      PROVE  /\ l.args[1] \in ToSet(l.args) /\ ToSet(l.args) = {l.args[1]}
             /\ Join(p.dir, l.args[1]) \in Paths
  <2>1. l.args \in [{1} -> Entries]
    BY <1>1, <1>2, <1>3, EditionTexts DEF IsText
  <2> QED BY <1>1, <2>1, JoinPath DEF ToSet
<1>4. \A kind : l.kind = kind => {Join(p.dir, a) : a \in ToSet(l.args)} \subseteq Refers(d, p, kind)
  BY DEF Refers
<1>5. \A kind : Refers(d, p, kind) \subseteq All(d, kind)
  BY DEF All
<1>6. l.kind = "source" /\ Exists(d, Join(p.dir, l.args[1])) => Join(p.dir, l.args[1]) \in Sources(d)
  BY <1>3, <1>4, <1>5 DEF Sources
<1>7. l.kind = "filelist" /\ Exists(d, Join(p.dir, l.args[1])) => Join(p.dir, l.args[1]) \in Reached(d)
  BY <1>3, <1>4, ReachedClosed DEF Existing
<1>8. l.kind = "define" => {a.name : a \in ToSet(l.args)} \subseteq {a.name : a \in Definitions(d)}
  BY DEF Definitions
<1> QED BY <1>3, <1>4, <1>5, <1>6, <1>7, <1>8

\* Once no root and no frame is left, what was visited is closed.
LEMMA WalkedWhole ==
  ASSUME NEW d \in Editions, NEW s, Listed(s), Led(d, s), Read(d, s, <<>>), RootsRead(d, s, <<>>)
  PROVE  Complete(d, s)
<1> SUFFICES ASSUME OneDirectory(d)
             PROVE  /\ s.filelists = {Link[p] : p \in Reached(d)}
                    /\ s.sources = {Link[p] : p \in Sources(d)}
                    /\ s.includeDirs = All(d, "incdir")
                    /\ DOMAIN s.defines = {a.name : a \in Definitions(d)}
  BY DEF Complete
<1> DEFINE V == {p \in Reached(d) : Link[p] \in s.filelists}
<1>1. ASSUME NEW p \in V, NEW l \in LinesOf(d, p) PROVE Handled(d, s, p, l)
  <2>1. PICK q \in Reached(d) :
           /\ Link[q] = Link[p]
           /\ \A m \in LinesOf(d, q) : Handled(d, s, q, m) \/ Waits(<<>>, q, m)
    BY DEF Read
  <2>2. LinesOf(d, q) = LinesOf(d, p) /\ q.dir = p.dir
    BY <2>1 DEF LinesOf, OneDirectory
  <2>3. ~Waits(<<>>, q, l)
    BY DEF Waits
  <2> QED BY <2>1, <2>2, <2>3 DEF Handled
<1>2. Closed(d, V)
  <2>1. ToSet(Configured) \intersect Existing(d) \subseteq V
    BY ReachedClosed DEF RootsRead, ToSet
  <2>2. ASSUME NEW p \in V, NEW q \in Refers(d, p, "filelist") \intersect Existing(d)
        PROVE  q \in V
    <3>1. q \in Reached(d) /\ Exists(d, q)
      BY ReachedClosed DEF Existing
    <3>2. PICK l \in LinesOf(d, p) : l.kind = "filelist" /\ \E a \in ToSet(l.args) : q = Join(p.dir, a)
      BY DEF Refers
    <3> QED BY <1>1, <3>1, <3>2 DEF Handled
  <2> QED BY <2>1, <2>2 DEF Closed
<1>3. Reached(d) \subseteq V
  BY <1>2, ReachedClosed
<1>4. s.filelists = {Link[p] : p \in Reached(d)}
  BY <1>3 DEF Led
<1>5. \A p \in Reached(d) : \A l \in LinesOf(d, p) : Handled(d, s, p, l)
  BY <1>1, <1>3
<1>6. s.sources = {Link[p] : p \in Sources(d)}
  <2>1. s.sources \subseteq {Link[p] : p \in Sources(d)}
    BY DEF Listed, Resolved, Led
  <2>2. ASSUME NEW x \in All(d, "source"), Exists(d, x) PROVE Link[x] \in s.sources
    <3>1. PICK q \in Reached(d) : \E l \in LinesOf(d, q) :
             l.kind = "source" /\ x \in {Join(q.dir, a) : a \in ToSet(l.args)}
      BY DEF All, Refers
    <3>2. PICK l \in LinesOf(d, q) :
             l.kind = "source" /\ x \in {Join(q.dir, a) : a \in ToSet(l.args)}
      BY <3>1
    <3> QED BY <1>5, <2>2, <3>2 DEF Handled
  <2> QED BY <2>1, <2>2 DEF Sources
<1>7. All(d, "incdir") \subseteq s.includeDirs
  <2>1. ASSUME NEW x \in All(d, "incdir") PROVE x \in s.includeDirs
    <3>1. PICK q \in Reached(d) : \E l \in LinesOf(d, q) :
             l.kind = "incdir" /\ x \in {Join(q.dir, a) : a \in ToSet(l.args)}
      BY DEF All, Refers
    <3>2. PICK l \in LinesOf(d, q) :
             l.kind = "incdir" /\ x \in {Join(q.dir, a) : a \in ToSet(l.args)}
      BY <3>1
    <3> QED BY <1>5, <3>2 DEF Handled
  <2> QED BY <2>1
<1>8. {a.name : a \in Definitions(d)} \subseteq DOMAIN s.defines
  <2>1. ASSUME NEW x \in Definitions(d) PROVE x.name \in DOMAIN s.defines
    <3>1. PICK q \in Reached(d) : \E l \in LinesOf(d, q) :
             l.kind = "define" /\ x \in ToSet(l.args)
      BY DEF Definitions
    <3>2. PICK l \in LinesOf(d, q) :
             l.kind = "define" /\ x \in ToSet(l.args)
      BY <3>1
    <3> QED BY <1>5, <3>2 DEF Handled
  <2> QED BY <2>1
<1> QED BY <1>4, <1>6, <1>7, <1>8 DEF Led
-------------------------------------------------------------------------------
\* Nothing that s has is lost.
Grows(s, t) == /\ s.filelists \subseteq t.filelists /\ s.sources \subseteq t.sources
               /\ s.includeDirs \subseteq t.includeDirs
               /\ DOMAIN s.defines \subseteq DOMAIN t.defines

\* A line once handled stays so.
LEMMA HandledKeeps ==
  ASSUME NEW d, NEW s, NEW t, Grows(s, t), NEW p, NEW l, Handled(d, s, p, l)
  PROVE  Handled(d, t, p, l)
BY DEF Grows, Handled

\* When no line stops waiting unhandled, and what is newly visited waits whole,
\* each visited filelist is still read.
LEMMA ReadKeeps ==
  ASSUME NEW d, NEW s, NEW t, NEW F, NEW G, Grows(s, t), Read(d, s, F),
         \A p \in Reached(d) : \A l : Waits(F, p, l) => Waits(G, p, l) \/ Handled(d, t, p, l),
         \A r \in t.filelists \ s.filelists : \E p \in Reached(d) :
             Link[p] = r /\ \A l \in LinesOf(d, p) : Waits(G, p, l)
  PROVE  Read(d, t, G)
<1> SUFFICES ASSUME NEW r \in t.filelists
             PROVE  \E p \in Reached(d) :
                       /\ Link[p] = r
                       /\ \A l \in LinesOf(d, p) : Handled(d, t, p, l) \/ Waits(G, p, l)
  BY DEF Read
<1>1. CASE r \in s.filelists
  <2>1. PICK p \in Reached(d) :
           Link[p] = r /\ \A l \in LinesOf(d, p) : Handled(d, s, p, l) \/ Waits(F, p, l)
    BY <1>1 DEF Read
  <2>2. \A l \in LinesOf(d, p) : Handled(d, t, p, l) \/ Waits(G, p, l)
    BY <2>1, HandledKeeps
  <2> QED BY <2>1, <2>2
<1>2. CASE r \notin s.filelists
  BY <1>2
<1> QED BY <1>1, <1>2

\* A source is listed once, with its real path.
LEMMA RecordSourceSound ==
  ASSUME disk \in Editions, NEW path \in Paths, Listed(st), Led(disk, st),
         Exists(disk, path) => path \in Sources(disk)
  PROVE  LET t == RecordSource(st, path)
         IN /\ Listed(t) /\ Led(disk, t) /\ Grows(st, t) /\ t.filelists = st.filelists
            /\ Exists(disk, path) => Link[path] \in t.sources
<1>1. CASE disk[Link[path]] = Gone \/ Link[path] \in st.sources
  BY <1>1 DEF RecordSource, Grows, Exists
<1>2. CASE ~(disk[Link[path]] = Gone \/ Link[path] \in st.sources)
  <2> DEFINE f == [logical |-> path, resolved |-> Link[path]]
             S == ToSet(st.files)
             n == Len(st.files)
             more == Append(st.files, f)
             t == [st EXCEPT !.sources = @ \union {Link[path]}, !.files = more]
  <2>1. RecordSource(st, path) = t
    BY <1>2 DEF RecordSource
  <2>2. /\ DOMAIN t = DOMAIN st
        /\ t.filelists = st.filelists /\ t.includeDirs = st.includeDirs /\ t.defines = st.defines
        /\ t.sources = st.sources \union {Link[path]} /\ t.files = more
    <3>1. DOMAIN st = {"filelists", "sources", "files", "includeDirs", "defines"}
      BY DEF Listed
    <3> HIDE DEF more
    <3> QED BY <3>1
  <2>3. st.files \in Seq(S) /\ n \in Nat
    BY LenProperties DEF Listed
  <2>4. PICK T : T = S \union {f}
    OBVIOUS
  <2>5. st.files \in Seq(T) /\ f \in T
    BY <2>3, <2>4, SeqMonotonic
  <2>6. /\ more \in Seq(T) /\ Len(more) = n + 1 /\ more[n + 1] = f
        /\ \A i \in 1 .. n : more[i] = st.files[i]
    BY <2>3, <2>5, AppendProperties
  <2>7. f.resolved = Link[path] /\ f.logical = path
    OBVIOUS
  <2> HIDE DEF f, more, S, n, t
  <2>8. ToSet(more) = T
    <3>1. DOMAIN more = 1 .. n + 1 /\ DOMAIN st.files = 1 .. n
      BY <2>3, <2>6, LenProperties DEF n
    <3>2. S = {st.files[i] : i \in 1 .. n}
      BY <3>1 DEF S, ToSet
    <3>3. ToSet(more) = {more[i] : i \in 1 .. n + 1}
      BY <3>1 DEF ToSet
    <3> QED BY <2>3, <2>4, <2>6, <3>2, <3>3
  <2>9. Resolved(more) = st.sources \union {Link[path]}
    <3>1. st.sources = {st.files[i].resolved : i \in 1 .. n}
      BY DEF Listed, Resolved, n
    <3>2. Resolved(more) = {more[i].resolved : i \in 1 .. n + 1}
      BY <2>6 DEF Resolved
    <3>3. {more[i].resolved : i \in 1 .. n + 1}
             = {more[i].resolved : i \in 1 .. n} \union {more[n + 1].resolved}
      BY <2>3
    <3>4. {more[i].resolved : i \in 1 .. n} = {st.files[i].resolved : i \in 1 .. n}
      BY <2>6
    <3> QED BY <2>6, <2>7, <3>1, <3>2, <3>3, <3>4
  <2>10. Once(more)
    <3>1. \A i \in 1 .. n : st.files[i].resolved \in st.sources
      BY DEF Listed, Resolved, n
    <3>2. \A i, j \in 1 .. n : st.files[i].resolved = st.files[j].resolved => i = j
      BY DEF Listed, Once, n
    <3>3. \A i \in 1 .. n : more[i].resolved # Link[path]
      BY <1>2, <2>6, <3>1
    <3> QED BY <2>3, <2>6, <2>7, <3>2, <3>3 DEF Once
  <2>11. Listed(t)
    BY <2>2, <2>6, <2>8, <2>9, <2>10 DEF Listed
  <2>12. Led(disk, t)
    <3>1. path \in Sources(disk)
      BY <1>2 DEF Exists
    <3>2. \A i \in 1 .. n : /\ st.files[i].logical \in Sources(disk)
                            /\ st.files[i].resolved = Link[st.files[i].logical]
      BY DEF Led, n
    <3>3. \A i \in 1 .. n + 1 : /\ more[i].logical \in Sources(disk)
                                /\ more[i].resolved = Link[more[i].logical]
      BY <2>3, <2>6, <2>7, <3>1, <3>2
    <3> QED BY <2>2, <2>6, <3>3 DEF Led
  <2> QED BY <2>1, <2>2, <2>11, <2>12 DEF Grows
<1> QED BY <1>1, <1>2

LEMMA RecordDirsSound ==
  ASSUME NEW d, NEW s, Listed(s), Led(d, s), NEW dir, NEW args,
         {Join(dir, a) : a \in ToSet(args)} \subseteq All(d, "incdir")
  PROVE  LET t == RecordIncludeDirs(s, dir, args)
         IN /\ Listed(t) /\ Led(d, t) /\ Grows(s, t) /\ t.filelists = s.filelists
            /\ {Join(dir, a) : a \in ToSet(args)} \subseteq t.includeDirs
<1> DEFINE more == {Join(dir, a) : a \in ToSet(args)}
           t == [s EXCEPT !.includeDirs = @ \union more]
<1> HIDE DEF more
<1>1. /\ DOMAIN t = DOMAIN s
      /\ t.filelists = s.filelists /\ t.sources = s.sources /\ t.files = s.files
      /\ t.includeDirs = s.includeDirs \union more /\ t.defines = s.defines
  BY DEF Listed
<1>2. RecordIncludeDirs(s, dir, args) = t
  BY DEF RecordIncludeDirs, more
<1> HIDE DEF t
<1>3. Listed(t)
  BY <1>1 DEF Listed
<1>4. Led(d, t)
  BY <1>1 DEF Led, more
<1> QED BY <1>1, <1>2, <1>3, <1>4 DEF Grows, more

LEMMA RecordDefinesSound ==
  ASSUME NEW d, NEW s, Listed(s), Led(d, s), NEW args,
         {a.name : a \in ToSet(args)} \subseteq {a.name : a \in Definitions(d)}
  PROVE  LET t == RecordDefines(s, args)
         IN /\ Listed(t) /\ Led(d, t) /\ Grows(s, t) /\ t.filelists = s.filelists
            /\ {a.name : a \in ToSet(args)} \subseteq DOMAIN t.defines
<1> DEFINE more == Define(s.defines, args)
           t == [s EXCEPT !.defines = more]
<1>1. DOMAIN more = DOMAIN s.defines \union {a.name : a \in ToSet(args)}
  BY DEF Define
<1> HIDE DEF more
<1>2. /\ DOMAIN t = DOMAIN s
      /\ t.filelists = s.filelists /\ t.sources = s.sources /\ t.files = s.files
      /\ t.includeDirs = s.includeDirs /\ t.defines = more
  BY DEF Listed
<1>3. RecordDefines(s, args) = t
  BY DEF RecordDefines, more
<1> HIDE DEF t
<1>4. Listed(t)
  BY <1>2 DEF Listed
<1>5. Led(d, t)
  BY <1>1, <1>2 DEF Led
<1> QED BY <1>1, <1>2, <1>3, <1>4, <1>5 DEF Grows

\* A filelist that is entered waits whole, under the path it was referred to as.
LEMMA VisitSound ==
  ASSUME disk \in Editions, Listed(st), Led(disk, st),
         NEW path \in Paths, Exists(disk, path) => path \in Reached(disk),
         NEW below, FramesLed(disk, below), Visit(path, below)
  PROVE  /\ FramesLed(disk, stack') /\ Listed(st') /\ Led(disk, st') /\ Grows(st, st')
         /\ \A p, l : Waits(below, p, l) => Waits(stack', p, l)
         /\ \A r \in st'.filelists \ st.filelists : \E p \in Reached(disk) :
                Link[p] = r /\ \A l \in LinesOf(disk, p) : Waits(stack', p, l)
         /\ ~cancelled /\ Exists(disk, path) => Link[path] \in st'.filelists
<1>1. CASE stack' = below /\ UNCHANGED st /\ (cancelled \/ disk[Link[path]] = Gone \/ Link[path] \in st.filelists)
  BY <1>1 DEF Grows, Exists
<1>2. CASE /\ ~(cancelled \/ disk[Link[path]] = Gone \/ Link[path] \in st.filelists)
           /\ stack' = Append(below, [path |-> path, rest |-> disk[Link[path]]])
           /\ st' = [st EXCEPT !.filelists = @ \union {Link[path]}]
  <2> DEFINE f == [path |-> path, rest |-> disk[Link[path]]]
             n == Len(below)
  <2>1. /\ DOMAIN st' = DOMAIN st
        /\ st'.filelists = st.filelists \union {Link[path]}
        /\ st'.sources = st.sources /\ st'.files = st.files
        /\ st'.includeDirs = st.includeDirs /\ st'.defines = st.defines
    BY <1>2 DEF Listed
  <2>2. path \in Reached(disk)
    BY <1>2 DEF Exists
  <2>3. f \in Frames(disk) /\ Readable(f.rest) = LinesOf(disk, path) /\ f.path = path
    BY <1>2, EditionTexts DEF Frames, LinesOf, Exists
  <2> HIDE DEF f
  <2>4. /\ stack' \in Seq(Frames(disk)) /\ n \in Nat /\ Len(stack') = n + 1 /\ stack'[n + 1] = f
        /\ \A i \in 1 .. n : stack'[i] = below[i]
    BY <1>2, <2>3, AppendProperties, LenProperties DEF FramesLed, f
  <2> HIDE DEF n
  <2>5. FramesLed(disk, stack')
    <3>1. \A i \in 1 .. n : below[i].path \in Reached(disk)
                          /\ Readable(below[i].rest) \subseteq LinesOf(disk, below[i].path)
      BY DEF FramesLed, n
    <3>2. ASSUME NEW i \in 1 .. n + 1
          PROVE  /\ stack'[i].path \in Reached(disk)
                 /\ Readable(stack'[i].rest) \subseteq LinesOf(disk, stack'[i].path)
      <4>1. CASE i = n + 1
        BY <2>2, <2>3, <2>4, <4>1
      <4>2. CASE i # n + 1
        <5>1. i \in 1 .. n
          BY <2>4, <4>2
        <5> QED BY <2>4, <3>1, <5>1
      <4> QED BY <4>1, <4>2
    <3> QED BY <2>4, <3>2 DEF FramesLed
  <2>6. Listed(st') /\ Led(disk, st') /\ Grows(st, st')
    BY <2>1, <2>2 DEF Listed, Led, Grows
  <2>7. ASSUME NEW p, NEW l, Waits(below, p, l) PROVE Waits(stack', p, l)
    <3>1. PICK i \in 1 .. n : below[i].path = p /\ l \in Readable(below[i].rest)
      BY <2>7 DEF Waits, n
    <3> QED BY <2>4, <3>1 DEF Waits
  <2>8. \A l \in LinesOf(disk, path) : Waits(stack', path, l)
    <3>1. n + 1 \in 1 .. Len(stack')
      BY <2>4
    <3> QED BY <2>3, <2>4, <3>1 DEF Waits
  <2> QED BY <2>1, <2>2, <2>5, <2>6, <2>7, <2>8
<1> QED BY <1>1, <1>2 DEF Visit

-------------------------------------------------------------------------------
\* A step of the walk keeps IInv when what it leaves is still sound and read.
LEMMA WalkStep ==
  ASSUME IInv, pc = "walk", UNCHANGED <<disk, pc, captured, cancelled>>,
         roots' \in Seq(ToSet(Configured)), FramesLed(disk, stack'),
         Listed(st'), Led(disk, st'),
         ~cancelled => Read(disk, st', stack') /\ RootsRead(disk, st', roots')
  PROVE  IInv'
BY DEF IInv

LEMMA CallKeeps == IInv /\ Call => IInv'
<1> SUFFICES ASSUME IInv, Call PROVE IInv'
  OBVIOUS
<1>1. stack' = <<>> /\ st' = Nothing /\ roots' = Configured /\ disk' \in Editions
  BY DEF IInv, Call
<1>2. FramesLed(disk', stack')
  BY <1>1 DEF FramesLed
<1>3. Listed(st')
  BY <1>1 DEF Listed, Nothing, NoDefines, Once, Resolved, ToSet
<1>4. Led(disk', st')
  BY <1>1 DEF Led, Nothing, NoDefines
<1>5. Read(disk', st', stack')
  BY <1>1 DEF Read, Nothing
<1>6. RootsRead(disk', st', roots')
  BY <1>1 DEF RootsRead
<1>7. roots' \in Seq(ToSet(Configured))
  BY <1>1, FilelistAssumption DEF ToSet
<1> QED BY <1>1, <1>2, <1>3, <1>4, <1>5, <1>6, <1>7 DEF IInv, Call

LEMMA NextRootKeeps == IInv /\ NextRoot => IInv'
<1> SUFFICES ASSUME IInv, NextRoot PROVE IInv'
  OBVIOUS
<1> DEFINE path == Head(roots)
<1>1. /\ roots \in Seq(ToSet(Configured)) /\ roots # <<>> /\ stack = <<>> /\ roots' = Tail(roots)
      /\ disk \in Editions /\ Listed(st) /\ Led(disk, st) /\ FramesLed(disk, <<>>)
      /\ Visit(path, <<>>) /\ pc = "walk" /\ UNCHANGED <<disk, pc, captured, cancelled>>
      /\ ~cancelled => Read(disk, st, <<>>) /\ RootsRead(disk, st, roots)
  BY DEF IInv, NextRoot
<1>2. /\ path \in ToSet(Configured) /\ roots' \in Seq(ToSet(Configured))
      /\ ToSet(roots) = {path} \union ToSet(roots')
  BY <1>1, HeadAndRest
<1>3. path \in Paths
  <2>1. Configured \in Seq(Paths)
    BY FilelistAssumption
  <2> QED BY <1>2, <2>1 DEF ToSet
<1>4. Exists(disk, path) => path \in Reached(disk)
  BY <1>1, <1>2, <1>3, ReachedClosed DEF Existing
<1> HIDE DEF path
<1>5. /\ FramesLed(disk, stack') /\ Listed(st') /\ Led(disk, st') /\ Grows(st, st')
      /\ \A p, l : Waits(<<>>, p, l) => Waits(stack', p, l)
      /\ \A r \in st'.filelists \ st.filelists : \E p \in Reached(disk) :
             Link[p] = r /\ \A l \in LinesOf(disk, p) : Waits(stack', p, l)
      /\ ~cancelled /\ Exists(disk, path) => Link[path] \in st'.filelists
  BY <1>1, <1>3, <1>4, VisitSound
<1>6. ASSUME ~cancelled PROVE Read(disk, st', stack')
  BY <1>1, <1>5, <1>6, ReadKeeps
<1>7. ASSUME ~cancelled PROVE RootsRead(disk, st', roots')
  BY <1>1, <1>2, <1>5, <1>7 DEF RootsRead, Existing, Grows
<1> QED BY <1>1, <1>2, <1>5, <1>6, <1>7, WalkStep

\* The frame on top names a filelist that is reached, and the line it reads next
\* is one of it.
LEMMA TopLed ==
  ASSUME IInv, stack # <<>>
  PROVE  /\ disk \in Editions /\ stack \in Seq(Frames(disk)) /\ Len(stack) \in Nat \ {0}
         /\ Top = stack[Len(stack)] /\ Top \in Frames(disk) /\ Top.path \in Reached(disk)
         /\ Readable(Top.rest) \subseteq LinesOf(disk, Top.path)
<1>1. disk \in Editions /\ stack \in Seq(Frames(disk)) /\ Len(stack) \in Nat \ {0}
  BY TopGone DEF IInv, FramesLed
<1>2. Top = stack[Len(stack)] /\ Len(stack) \in 1 .. Len(stack)
  BY <1>1 DEF Top, Last
<1>3. Top \in Frames(disk)
  BY <1>1, <1>2, ElementOfSeq
<1>4. Top.path \in Reached(disk) /\ Readable(Top.rest) \subseteq LinesOf(disk, Top.path)
  BY <1>2 DEF IInv, FramesLed
<1> QED BY <1>1, <1>2, <1>3, <1>4

LEMMA ReadLineKeeps == IInv /\ ReadLine => IInv'
<1> SUFFICES ASSUME IInv, ReadLine PROVE IInv'
  OBVIOUS
<1> DEFINE line == Head(Top.rest)
           dir == Top.path.dir
           x == [Top EXCEPT !.rest = Tail(@)]
           below == Append(Front(stack), x)
           n == Len(stack)
           there == Join(dir, line.args[1])
<1>1. /\ pc = "walk" /\ stack # <<>> /\ ~cancelled /\ Top.rest # <<>> /\ line.kind # "long"
      /\ UNCHANGED <<disk, pc, roots, captured, cancelled>>
  BY DEF ReadLine, AtEnd
<1>2. /\ disk \in Editions /\ stack \in Seq(Frames(disk)) /\ n \in Nat \ {0}
      /\ Top = stack[n] /\ Top \in Frames(disk) /\ Top.path \in Reached(disk)
      /\ Readable(Top.rest) \subseteq LinesOf(disk, Top.path)
  BY <1>1, TopLed
<1>3. /\ Listed(st) /\ Led(disk, st) /\ Read(disk, st, stack) /\ RootsRead(disk, st, roots)
      /\ FramesLed(disk, stack) /\ roots \in Seq(ToSet(Configured))
  BY <1>1 DEF IInv
<1>4. Top.rest \in Seq(Lines(disk)) /\ Tail(Top.rest) \in Seq(Lines(disk))
  BY <1>1, <1>2, HeadAndRest DEF Frames
<1>5. Readable(Top.rest) = {line} \union Readable(Tail(Top.rest))
  BY <1>1, <1>4, ReadableRest
<1>6. line \in LinesOf(disk, Top.path)
  BY <1>2, <1>5
<1>7. x \in Frames(disk) /\ x.path = Top.path /\ x.rest = Tail(Top.rest)
  BY <1>2, <1>4 DEF Frames
<1>8. \/ line.kind = "filelist" /\ Visit(there, below)
      \/ /\ line.kind # "filelist" /\ stack' = below
         /\ st' = CASE line.kind = "source" -> RecordSource(st, there)
                    [] line.kind = "incdir" -> RecordIncludeDirs(st, dir, line.args)
                    [] line.kind = "define" -> RecordDefines(st, line.args)
                    [] OTHER                -> st
  BY DEF ReadLine
<1> HIDE DEF x
<1>9. /\ below \in Seq(Frames(disk)) /\ Len(below) = n /\ n \in 1 .. n /\ below[n] = x
      /\ \A i \in 1 .. n : i # n => below[i] = stack[i]
  BY <1>1, <1>2, <1>7, TopReplaced
<1> HIDE DEF below, line, dir, n
<1>10. FramesLed(disk, below)
  <2>1. ASSUME NEW i \in 1 .. n
        PROVE  /\ below[i].path \in Reached(disk)
               /\ Readable(below[i].rest) \subseteq LinesOf(disk, below[i].path)
    <3>1. CASE i = n
      BY <1>2, <1>5, <1>7, <1>9, <3>1
    <3>2. CASE i # n
      BY <1>3, <1>9, <3>2 DEF FramesLed, n
    <3> QED BY <3>1, <3>2
  <2> QED BY <1>9, <2>1 DEF FramesLed
<1>11. ASSUME NEW p, NEW l, Waits(stack, p, l)
       PROVE  Waits(below, p, l) \/ (p = Top.path /\ l = line)
  <2>1. PICK i \in 1 .. n : stack[i].path = p /\ l \in Readable(stack[i].rest)
    BY <1>11 DEF Waits, n
  <2>2. CASE i = n
    BY <1>2, <1>5, <1>7, <1>9, <2>1, <2>2 DEF Waits
  <2>3. CASE i # n
    BY <1>9, <2>1, <2>3 DEF Waits
  <2> QED BY <2>2, <2>3
<1>12. /\ line.kind \in {"source", "filelist"} =>
             ToSet(line.args) = {line.args[1]} /\ there \in Paths
       /\ line.kind = "source" /\ Exists(disk, there) => there \in Sources(disk)
       /\ line.kind = "filelist" /\ Exists(disk, there) => there \in Reached(disk)
       /\ line.kind = "incdir" => {Join(dir, a) : a \in ToSet(line.args)} \subseteq All(disk, "incdir")
       /\ line.kind = "define" =>
             {a.name : a \in ToSet(line.args)} \subseteq {a.name : a \in Definitions(disk)}
  BY <1>2, <1>6, LineLed DEF dir
<1> HIDE DEF there
<1>13. /\ FramesLed(disk, stack') /\ Listed(st') /\ Led(disk, st') /\ Grows(st, st')
       /\ \A p, l : Waits(below, p, l) => Waits(stack', p, l)
       /\ \A r \in st'.filelists \ st.filelists : \E p \in Reached(disk) :
              Link[p] = r /\ \A l \in LinesOf(disk, p) : Waits(stack', p, l)
       /\ Handled(disk, st', Top.path, line)
  <2>1. CASE line.kind = "filelist" /\ Visit(there, below)
    <3>1. /\ FramesLed(disk, stack') /\ Listed(st') /\ Led(disk, st') /\ Grows(st, st')
          /\ \A p, l : Waits(below, p, l) => Waits(stack', p, l)
          /\ \A r \in st'.filelists \ st.filelists : \E p \in Reached(disk) :
                 Link[p] = r /\ \A l \in LinesOf(disk, p) : Waits(stack', p, l)
          /\ ~cancelled /\ Exists(disk, there) => Link[there] \in st'.filelists
      BY <1>2, <1>3, <1>10, <1>12, <2>1, VisitSound
    <3>2. Handled(disk, st', Top.path, line)
      BY <1>1, <1>12, <2>1, <3>1 DEF Handled, there, dir
    <3> QED BY <3>1, <3>2
  <2>2. CASE line.kind # "filelist" /\ stack' = below
    <3>1. /\ st'.filelists = st.filelists /\ Listed(st') /\ Led(disk, st') /\ Grows(st, st')
          /\ Handled(disk, st', Top.path, line)
      <4>1. CASE line.kind = "source"
        <5>1. st' = RecordSource(st, there)
          BY <1>8, <4>1
        <5>2. /\ Listed(st') /\ Led(disk, st') /\ Grows(st, st') /\ st'.filelists = st.filelists
              /\ Exists(disk, there) => Link[there] \in st'.sources
          BY <1>2, <1>3, <1>12, <4>1, <5>1, RecordSourceSound
        <5> QED BY <1>12, <4>1, <5>2 DEF Handled, there, dir
      <4>2. CASE line.kind = "incdir"
        <5>1. st' = RecordIncludeDirs(st, dir, line.args)
          BY <1>8, <4>2
        <5> QED BY <1>3, <1>12, <4>2, <5>1, RecordDirsSound DEF Handled, dir
      <4>3. CASE line.kind = "define"
        <5>1. st' = RecordDefines(st, line.args)
          BY <1>8, <4>3
        <5> QED BY <1>3, <1>12, <4>3, <5>1, RecordDefinesSound DEF Handled
      <4>4. CASE line.kind \notin {"source", "filelist", "incdir", "define"}
        BY <1>3, <1>8, <4>4 DEF Grows, Handled
      <4> QED BY <2>2, <4>1, <4>2, <4>3, <4>4
    <3> QED BY <1>10, <2>2, <3>1
  <2> QED BY <1>8, <2>1, <2>2
<1>14. Read(disk, st', stack')
  <2>1. \A p \in Reached(disk) : \A l :
           Waits(stack, p, l) => Waits(stack', p, l) \/ Handled(disk, st', p, l)
    BY <1>11, <1>13
  <2> QED BY <1>3, <1>13, <2>1, ReadKeeps
<1>15. RootsRead(disk, st', roots')
  BY <1>1, <1>3, <1>13 DEF RootsRead, Grows
<1> QED BY <1>1, <1>3, <1>13, <1>14, <1>15, WalkStep

LEMMA EndKeeps == IInv /\ EndOfFilelist => IInv'
<1> SUFFICES ASSUME IInv, EndOfFilelist PROVE IInv'
  OBVIOUS
<1> DEFINE n == Len(stack)
<1>1. /\ pc = "walk" /\ stack # <<>> /\ AtEnd /\ stack' = Front(stack)
      /\ UNCHANGED <<disk, pc, roots, st, captured, cancelled>>
  BY DEF EndOfFilelist
<1>2. /\ Listed(st) /\ Led(disk, st) /\ FramesLed(disk, stack) /\ roots \in Seq(ToSet(Configured))
      /\ ~cancelled => Read(disk, st, stack) /\ RootsRead(disk, st, roots)
  BY <1>1 DEF IInv
<1>3. stack \in Seq(Frames(disk)) /\ n \in Nat \ {0} /\ Top = stack[n] /\ Top \in Frames(disk)
  BY <1>1, TopLed
<1>4. /\ stack' \in Seq(Frames(disk)) /\ Len(stack') = n - 1
      /\ \A i \in 1 .. n - 1 : stack'[i] = stack[i]
  BY <1>1, <1>3, TopGone
<1> HIDE DEF n
<1>5. FramesLed(disk, stack')
  <2>1. \A i \in 1 .. n : /\ stack[i].path \in Reached(disk)
                          /\ Readable(stack[i].rest) \subseteq LinesOf(disk, stack[i].path)
    BY <1>2 DEF FramesLed, n
  <2>2. \A i \in 1 .. n - 1 : i \in 1 .. n
    BY <1>3
  <2> QED BY <1>4, <2>1, <2>2 DEF FramesLed
<1>6. ASSUME ~cancelled, NEW p, NEW l, Waits(stack, p, l) PROVE Waits(stack', p, l)
  <2>1. PICK i \in 1 .. n : stack[i].path = p /\ l \in Readable(stack[i].rest)
    BY <1>6 DEF Waits, n
  <2>2. i # n
    <3>1. Top.rest \in Seq(Lines(disk)) /\ (Top.rest = <<>> \/ Head(Top.rest).kind = "long")
      BY <1>1, <1>3, <1>6 DEF AtEnd, Frames
    <3>2. Readable(Top.rest) = {}
      BY <3>1, ReadableRest
    <3> QED BY <1>3, <2>1, <3>2
  <2>3. i \in 1 .. n - 1
    BY <1>3, <2>2
  <2> QED BY <1>4, <2>1, <2>3 DEF Waits
<1>7. ASSUME ~cancelled PROVE Read(disk, st', stack') /\ RootsRead(disk, st', roots')
  <2>1. st' = st /\ Grows(st, st')
    BY <1>1 DEF Grows
  <2>2. Read(disk, st', stack')
    BY <1>2, <1>6, <1>7, <2>1, ReadKeeps
  <2> QED BY <1>1, <1>2, <1>7, <2>2
<1> QED BY <1>1, <1>2, <1>5, <1>7, WalkStep

LEMMA ReturnKeeps == IInv /\ Return => IInv'
<1> SUFFICES ASSUME IInv, Return PROVE IInv'
  OBVIOUS
<1>1. /\ pc = "walk" /\ stack = <<>> /\ roots = <<>> /\ pc' = "idle"
      /\ UNCHANGED <<disk, roots, stack, st, cancelled>>
  BY DEF Return
<1>2. disk \in Editions /\ Listed(st) /\ Led(disk, st)
  BY DEF IInv
<1>3. CASE cancelled
  <2>1. result' = {} /\ captured' = captured
    BY <1>3 DEF Return
  <2> QED BY <1>1, <2>1 DEF IInv
<1>4. CASE ~cancelled
  <2>1. result' = {st.files} /\ captured' = Capture(st)
    BY <1>4 DEF Return
  <2>2. Complete(disk, st)
    BY <1>1, <1>2, <1>4, WalkedWhole DEF IInv
  <2> QED BY <1>1, <1>2, <2>1, <2>2 DEF IInv
<1> QED BY <1>3, <1>4

LEMMA CancelKeeps == IInv /\ Cancel => IInv'
BY DEF IInv, Cancel

LEMMA IInvStep == IInv /\ [Next]_vars => IInv'
<1>1. IInv /\ UNCHANGED vars => IInv'
  BY DEF IInv, vars
<1> QED BY <1>1, CallKeeps, NextRootKeeps, ReadLineKeeps, EndKeeps, ReturnKeeps, CancelKeeps DEF Next, Walk

LEMMA IInvInit == Init => IInv
<1> SUFFICES ASSUME Init PROVE IInv
  OBVIOUS
<1>1. disk \in Editions /\ pc = "idle" /\ roots = <<>> /\ stack = <<>> /\ st = Nothing
      /\ captured = Capture(Nothing) /\ result = {}
  BY DEF Init
<1>2. FramesLed(disk, stack)
  BY <1>1 DEF FramesLed
<1>3. Listed(st)
  BY <1>1 DEF Listed, Nothing, NoDefines, Once, Resolved, ToSet
<1>4. Led(disk, st)
  BY <1>1 DEF Led, Nothing, NoDefines
<1> QED BY <1>1, <1>2, <1>3, <1>4 DEF IInv

\* Whatever has been read so far, the files, the include directories and the
\* macros recorded are what the lines read so far lead to (filelist.go).
THEOREM Walked == Spec => []IInv
BY IInvInit, IInvStep, PTL DEF Spec

-------------------------------------------------------------------------------
\* One real file is one source (recordSource).
THEOREM EachFileOnce == Spec => []NoFileTwice
<1>1. IInv => NoFileTwice
  BY DEF IInv, Listed, Once, NoFileTwice
<1> QED BY <1>1, Walked, PTL

\* A call that returns files returns exactly the sources the filelists lead to.
THEOREM FilesExact == Spec => []ResultExact
<1>1. IInv => ResultExact
  <2> SUFFICES ASSUME IInv, NEW files \in result, pc = "idle"
               PROVE  /\ \A i \in 1 .. Len(files) : files[i].logical \in Sources(disk)
                      /\ OneDirectory(disk) => Resolved(files) = {Link[p] : p \in Sources(disk)}
    BY DEF ResultExact
  <2>1. files = st.files /\ Complete(disk, st) /\ Listed(st) /\ Led(disk, st)
    BY DEF IInv
  <2> QED BY <2>1 DEF Complete, Listed, Led
<1> QED BY <1>1, Walked, PTL

\* What the discoverer answers with comes from one whole walk.
THEOREM CapturesWhole == Spec => []CapturedWhole
<1>1. IInv => CapturedWhole
  <2> SUFFICES ASSUME IInv, captured # Capture(Nothing) PROVE CapturedWhole
    BY DEF CapturedWhole
  <2>1. PICK d \in Editions : \E s : captured = Capture(s) /\ Led(d, s) /\ Complete(d, s)
    BY DEF IInv
  <2>2. PICK s : captured = Capture(s) /\ Led(d, s) /\ Complete(d, s)
    BY <2>1
  <2>3. /\ captured.visited = s.filelists /\ captured.includeDirs = s.includeDirs
        /\ captured.defines = s.defines
    BY <2>2 DEF Capture
  <2> QED BY <2>2, <2>3 DEF CapturedWhole, Led, Complete
<1> QED BY <1>1, Walked, PTL
===============================================================================
