------------------------------ MODULE MCFilelist ------------------------------
(* A top filelist and a sub-filelist that refer to each other, the second of *)
(* them and a source also reachable through links in another directory.     *)
EXTENDS Filelist

MCDirs == {"d", "e"}
MCNames == {"top", "sub", "s", "t"}

In(dir, name) == [dir |-> dir, name |-> name]
Rel(name) == In("here", name)
MCLink == [p \in Paths |-> IF p \in {In("e", "sub"), In("e", "s")} THEN [p EXCEPT !.dir = "d"] ELSE p]
MCConfigured == <<In("d", "top"), In("d", "sub")>>

Entry(kind, args) == [kind |-> kind, args |-> args]
Value(name, value) == [name |-> name, value |-> value]

\* What top and sub hold; d/s and e/t are sources, d/t and e/top do not exist.
Disk(top, sub) ==
    [p \in Paths |-> CASE p = In("d", "top") -> top
                       [] p = In("d", "sub") -> sub
                       [] p \in {In("d", "s"), In("e", "t")} -> <<>>
                       [] OTHER -> Gone]

Cyclic == Disk(<<Entry("source", <<Rel("s")>>), Entry("filelist", <<Rel("sub")>>),
                 Entry("define", <<Value("X", 1), Value("Y", 1)>>),
                 Entry("incdir", <<Rel("s"), In("e", "t")>>)>>,
               <<Entry("define", <<Value("X", 2)>>), Entry("other", <<>>),
                 Entry("filelist", <<Rel("top")>>), Entry("source", <<In("e", "s")>>),
                 Entry("source", <<In("e", "t")>>), Entry("incdir", <<Rel("s")>>)>>)

\* The sub-filelist is cut short by a line nobody can read.
Cut == Disk(<<Entry("source", <<Rel("t")>>), Entry("filelist", <<Rel("sub")>>)>>,
            <<Entry("source", <<Rel("s")>>), Entry("long", <<>>), Entry("source", <<In("e", "t")>>)>>)

Missing == Disk(<<Entry("filelist", <<Rel("sub")>>), Entry("source", <<Rel("s")>>)>>, Gone)

\* The sub-filelist is read in its own directory and through a link, where it
\* refers to a file that only the other directory has.
Twice == Disk(<<Entry("filelist", <<In("e", "sub")>>), Entry("filelist", <<Rel("sub")>>)>>,
              <<Entry("source", <<Rel("s")>>), Entry("source", <<Rel("t")>>),
                Entry("filelist", <<In("e", "sub")>>)>>)
Nested == Disk(<<Entry("filelist", <<Rel("sub")>>)>>,
               <<Entry("source", <<Rel("t")>>), Entry("filelist", <<Rel("t")>>),
                 Entry("filelist", <<In("e", "sub")>>)>>)

MCEditions == {Cyclic, Cut, Missing, Twice, Nested}
===============================================================================
