------------------------------ MODULE MCSvIndex ------------------------------
(* Two files that include one header, which includes another.  Both pull it *)
(* into a package or include it at file scope, with and without the macro   *)
(* that turns on a second declaration and an error in the header; one       *)
(* version of each does not include it at all.  The header exists in two    *)
(* versions on disk, and a scan may find either, or no resolver at all.     *)
(* The results are what Scan makes of these.                                *)
EXTENDS SymbolQueries

S == INSTANCE SvScan

MCURIs     == {"w1", "w2", "h", "g"}
MCNames    == {"a", "b", "p"}
MCProblems == {"e", "h", "g"}

Header == <<S!Item("inc", "g"), S!Item("decl", "b"), S!Item("if", "X"), S!Item("decl", "a"),
            S!Item("err", "e"), S!Item("endif", "X")>>
Inner  == <<S!Item("decl", "b"), S!Item("conn", "a")>>
Pkg    == <<S!Item("open", "p"), S!Item("inc", "h"), S!Item("close", "p")>>
DefPkg == <<S!Item("def", "X")>> \o Pkg
Flat   == <<S!Item("decl", "a"), S!Item("inc", "h"), S!Item("conn", "b")>>
Plain  == <<S!Item("decl", "a"), S!Item("imp", "p"), S!Item("decl", "a")>>

Texts == [w1 |-> {Pkg, DefPkg, Plain}, w2 |-> {DefPkg, Flat}, h |-> {Header}, g |-> {Inner}]
Disks == {[h |-> Header, g |-> Inner], [h |-> <<S!Item("decl", "a")>>], <<>>}

MCNameOrder == <<"a", "b", "p">>
MCURIOrder  == <<"g", "h", "w1", "w2">>
MCPrefixes  == {<<1, 3>>, <<2, 2>>}
MCQueries   == {{"a", "b"}, MCNames}

MCScanResults == [u \in MCURIs |-> {S!Scan(u, t, d, {}) : t \in Texts[u], d \in Disks}]
=============================================================================
