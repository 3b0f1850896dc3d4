------------------------------- MODULE SvScan -------------------------------
(***************************************************************************)
(* Scan of internal/sv/scan.go as an operator: what one call of it makes   *)
(* of a text.  A text is a sequence of items; only the items that decide   *)
(* where an entry goes are told apart:                                     *)
(*   "decl"  a leaf declaration            "open"/"close"  a container     *)
(*   "imp"   an import of package n        "conn"  a named connection n    *)
(*   "err"   text the parser complains of  "def"   `define n               *)
(*   "inc"   `include of file n            "if"/"endif"   `ifdef n ...     *)
(* Spans, types, details and the kinds of leaves are left out.             *)
(***************************************************************************)
EXTENDS Naturals, Sequences, FiniteSets, SequencesExt

Item(t, n)       == [t |-> t, n |-> n]
From(file, text) == [i \in 1 .. Len(text) |-> text[i] @@ [file |-> file]]

-----------------------------------------------------------------------------
(* The preprocessor and parser (svparse, outside this repository), as Scan  *)
(* uses them: includes are inlined through the resolver, every item keeps   *)
(* the file it came from, inactive conditionals vanish, `defines carry over *)
(* from an included file to the rest of the includer, and an include the    *)
(* resolver cannot satisfy is an error in the file that wrote it.           *)

\* What an item of active text does to the preprocessor's output.
Emit(pp, it, disk) ==
  CASE it.t = "def" -> [pp EXCEPT !.macros = @ \cup {it.n}]
    [] it.t = "if"  -> [pp EXCEPT !.skip = IF it.n \in pp.macros THEN 0 ELSE 1]
    [] it.t = "endif" -> pp
    [] it.t = "inc" /\ it.n \in DOMAIN disk -> [pp EXCEPT !.deps = @ \cup {it.n}]
    [] it.t \in {"inc", "err"} -> [pp EXCEPT !.errs = Append(@, [file |-> it.file, n |-> it.n])]
    [] OTHER -> [pp EXCEPT !.out = Append(@, it)]

\* An inactive `ifdef nests; everything else in inactive text is dropped.
Skip(pp, it) == [pp EXCEPT !.skip = CASE it.t = "if"    -> @ + 1
                                      [] it.t = "endif" -> @ - 1
                                      [] OTHER          -> @]

RECURSIVE Expand(_, _, _)
Expand(work, pp, disk) ==
  IF work = <<>> THEN pp
  ELSE LET it == Head(work)
       IN IF pp.skip > 0
            THEN Expand(Tail(work), Skip(pp, it), disk)
            ELSE Expand(IF it.t = "inc" /\ it.n \in DOMAIN disk
                          THEN From(it.n, disk[it.n]) \o Tail(work)
                          ELSE Tail(work),
                        Emit(pp, it, disk), disk)

\* disk holds the files the resolver can read; a nil resolver reads none.
Preprocess(uri, text, disk, macros) ==
  Expand(From(uri, text),
         [out |-> <<>>, errs |-> <<>>, deps |-> {}, macros |-> macros, skip |-> 0],
         disk)

-----------------------------------------------------------------------------
(* declarationsFromAST.  The walk keeps, per enclosing container, the file  *)
(* it stands in and its index in that file's bucket; index 0 is file scope. *)

FileScope(uri) == [file |-> uri, idx |-> 0]

Bucket(m, f)      == IF f \in DOMAIN m THEN m[f] ELSE <<>>
Extend(m, f, e)   == [g \in DOMAIN m \cup {f} |-> IF g = f THEN Append(Bucket(m, f), e) ELSE m[g]]

\* walkDecls: a declaration whose file is not its container's starts at file
\* scope in its own bucket, and the crossing leaves a memberLink behind
\* unless the container is itself file scope.
ParentOf(w, it) == IF it.file = Last(w.stack).file THEN Last(w.stack).idx ELSE 0

Links(w, it) ==
  LET in == Last(w.stack)
  IN IF it.file = in.file \/ in.idx = 0
       THEN {}
       ELSE {[containerURI  |-> in.file,
              containerIdx  |-> in.idx,
              containerName |-> w.decls[in.file][in.idx].name,
              includedURI   |-> it.file]}

\* addDecl
WalkItem(w, it) ==
  LET parent == ParentOf(w, it)
      decls  == Extend(w.decls, it.file, [name |-> it.n, parent |-> parent])
      step   == [w EXCEPT !.links = @ \cup Links(w, it)]
  IN CASE it.t = "close" -> [w EXCEPT !.stack = Front(@)]
       [] it.t = "open"  -> [step EXCEPT !.decls = decls,
                                         !.stack = Append(@, [file |-> it.file,
                                                              idx  |-> Len(decls[it.file])])]
       [] it.t = "decl"  -> [step EXCEPT !.decls = decls]
       [] it.t = "imp"   -> [step EXCEPT !.imports = Extend(@, it.file, it.n)]
       [] it.t = "conn"  -> [step EXCEPT !.conns = Extend(@, it.file, it.n)]

\* Each bucket map is seeded with an empty bucket for the scanned file.
DeclarationsFromAST(uri, stream) ==
  LET seeded == [f \in {uri} |-> <<>>]
  IN FoldLeft(WalkItem,
              [decls |-> seeded, imports |-> seeded, conns |-> seeded,
               links |-> {}, stack |-> <<FileScope(uri)>>],
              stream)

DiagnosticsByFile(uri, errs) ==
  FoldLeft(LAMBDA m, e : Extend(m, e.file, e.n), [f \in {uri} |-> <<>>], errs)

\* Every identifier of the raw text, inactive or not, included text excluded.
RawOccurrences(text) ==
  {text[i].n : i \in {j \in 1 .. Len(text) : text[j].t \in {"decl", "open", "imp", "conn"}}}

Scan(uri, text, disk, macros) ==
  LET pp == Preprocess(uri, text, disk, macros)
      w  == DeclarationsFromAST(uri, pp.out)
  IN [decls   |-> w.decls,
      imports |-> w.imports,
      conns   |-> w.conns,
      links   |-> w.links,
      diags   |-> DiagnosticsByFile(uri, pp.errs),
      occs    |-> RawOccurrences(text),
      deps    |-> pp.deps]
=============================================================================
