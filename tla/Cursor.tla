--------------------------------- MODULE Cursor ---------------------------------
(***************************************************************************)
(* What the tokens around a position say, before anything is looked up:    *)
(* internal/sv/instantiation.go, call.go and word.go, which work on the    *)
(* tokens of a text that need not parse, and the marks that                *)
(* occurrencesFromSVParseTokens puts on a token.                           *)
(*                                                                         *)
(* A text is a sequence of items, one token each.  An item of type         *)
(* "punct" is a punctuation mark or a keyword (named "kw", localparam by   *)
(* its name); the types in IdentTypes are identifiers.  A cursor in or     *)
(* right after a word sees the text up to that word, a prefix of n tokens. *)
(* Tokens and positions are numbered from 1; 0 stands for none.            *)
(***************************************************************************)
EXTENDS Integers, Sequences, FiniteSets, FiniteSetsExt

IdentTypes == {"open", "leaf", "field", "use", "conn", "import"}

IsIdent(t, i) == i \in DOMAIN t /\ t[i].t \in IdentTypes
IsPunct(t, i, mark) == i \in DOMAIN t /\ t[i].t = "punct" /\ t[i].name = mark

\* The marks in i .. j that are among `marks'.
Marks(t, i, j, marks) == {k \in i .. j : \E mark \in marks : IsPunct(t, k, mark)}

\* How many more of `opens' than of `closes' stand in i .. j.
Balance(t, i, j, opens, closes) ==
    Cardinality(Marks(t, i, j, opens)) - Cardinality(Marks(t, i, j, closes))

Last(S) == IF S = {} THEN 0 ELSE Max(S)

-------------------------------------------------------------------------------
(* What an identifier is written after.                                      *)

\* occurrence.receiver, DotReceiverAt: "r.name".
ReceiverOf(t, i) == IF IsPunct(t, i - 1, ".") /\ IsIdent(t, i - 2) THEN i - 2 ELSE 0

\* occurrence.qualifier, QualifierAt: "q::name".
QualifierOf(t, i) == IF IsPunct(t, i - 1, "::") /\ IsIdent(t, i - 2) THEN i - 2 ELSE 0

\* occurrence.namedArg: "(.name(" or ", .name(".
IsNamedArg(t, i) == /\ IsPunct(t, i - 1, ".")
                    /\ IsPunct(t, i - 2, "(") \/ IsPunct(t, i - 2, ",")
                    /\ IsPunct(t, i + 1, "(")

-------------------------------------------------------------------------------
(* Instantiations.                                                           *)

\* The innermost "(" that is still open after n tokens.
InnermostOpenParen(t, n) ==
    Last({i \in Marks(t, 1, n, {"("}) : Balance(t, i + 1, n, {"("}, {")"}) = 0})

\* The opening mark that the closing one at idx belongs to.
SkipBalancedBack(t, idx, open, close) ==
    Last({i \in Marks(t, 1, idx - 1, {open}) : Balance(t, i, idx, {open}, {close}) = 0})

\* "type name (", "type #(...) name (", "type name[...] (": the type, for the
\* "(" at open.
ModuleTokenBefore(t, open) ==
    LET name == IF IsPunct(t, open - 1, "]") THEN SkipBalancedBack(t, open - 1, "[", "]") - 1
                ELSE open - 1
        type == IF IsPunct(t, name - 1, ")") THEN SkipBalancedBack(t, name - 1, "(", ")") - 2
                ELSE name - 1
        overridden == IsPunct(t, name - 1, ")")
    IN IF IsIdent(t, name) /\ IsIdent(t, type) /\ (overridden => IsPunct(t, type + 1, "#"))
       THEN type ELSE 0

\* "type #(".
ModuleTokenBeforeParamList(t, open) ==
    IF IsPunct(t, open - 1, "#") /\ IsIdent(t, open - 2) THEN open - 2 ELSE 0

\* The names given a connection, ".name", in the list that opens at open.
Connected(t, open, n) ==
    {t[i].name : i \in {j \in open + 2 .. n :
        /\ IsIdent(t, j) /\ IsPunct(t, j - 1, ".")
        /\ Balance(t, open + 1, j - 1, {"(", "{"}, {")", "}"}) = 0}}

NoModule == ""

\* Mutant: the list of overrides is taken for a part of the instance's name.
ConnectionModule_NoOverrides(t, i) ==
    LET open == InnermostOpenParen(t, i)
        type == ModuleTokenBefore(t, open)
    IN IF open > 0 /\ type > 0 /\ t[i].name \in Connected(t, open, i) THEN t[type].name ELSE NoModule

\* InstantiationPortNameIn, then InstantiationParamNameIn: the module whose port
\* or parameter the word at i names.
ConnectionModule(t, i) ==
    LET open == InnermostOpenParen(t, i)
        types == {ModuleTokenBefore(t, open), ModuleTokenBeforeParamList(t, open)} \ {0}
    IN IF open > 0 /\ types # {} /\ t[i].name \in Connected(t, open, i)
       THEN t[Max(types)].name ELSE NoModule

-------------------------------------------------------------------------------
(* Calls.                                                                    *)

\* Mutant: the parens of a named argument are taken for a call's own.
CallParen_Inner(t, n) == InnermostOpenParen(t, n)

\* The "(" of the call around the cursor: not that of a named argument.
CallParen(t, n) ==
    LET out[o \in 0 .. n] ==
            IF o >= 4 /\ IsIdent(t, o - 1) /\ IsPunct(t, o - 2, ".")
                      /\ (IsPunct(t, o - 3, "(") \/ IsPunct(t, o - 3, ","))
            THEN out[InnermostOpenParen(t, o - 1)] ELSE o
    IN out[InnermostOpenParen(t, n)]

\* CallContextIn: the callee and the argument the cursor is in, by place and,
\* when it is a named one, by name (name: its token).
CallContext(t, n) ==
    LET open == CallParen(t, n)
        commas == {i \in Marks(t, open + 1, n, {","}) :
                      Balance(t, open + 1, i, {"(", "{", "["}, {")", "}", "]"}) = 0}
        start == IF commas = {} THEN open + 1 ELSE Max(commas) + 1
    IN IF open > 1 /\ IsIdent(t, open - 1) /\ ~IsPunct(t, open - 2, ".")
       THEN [callee |-> open - 1, index |-> Cardinality(commas),
             name |-> IF start < n /\ IsPunct(t, start, ".") /\ IsIdent(t, start + 1)
                      THEN start + 1 ELSE 0]
       ELSE [callee |-> 0, index |-> 0, name |-> 0]
===============================================================================
