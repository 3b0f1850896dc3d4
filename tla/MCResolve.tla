------------------------------ MODULE MCResolve ------------------------------
(* A header (1), a package (2), a module (3) and a module that instantiates  *)
(* it (4).  The name of interest is "x".                                     *)
EXTENDS Queries

Item(t, kind, name, of) == <<[t |-> t, kind |-> kind, name |-> name, of |-> of]>>
P(mark) == Item("punct", "", mark, "")
Paren(items) == P("(") \o items \o P(")")
Semi == P(";")
Kw == P("kw")

Use(name) == Item("use", "", name, "")
X == Use("x") \o Semi
Leaf(kind, name) == Kw \o Item("leaf", kind, name, "") \o Semi
Typed(type, name) == Use(type) \o Item("leaf", "variable", name, type) \o Semi
Struct(name) == Kw \o Item("field", "", "y", "") \o Item("field", "", "x", "") \o Item("leaf", "typedef", name, "") \o Semi
Access(r) == Use(r) \o P(".") \o X
Scoped(q, items) == Use(q) \o P("::") \o items
Import(pkg, member) == Kw \o Item("import", "", pkg, "") \o P("::") \o member \o Semi
Include(u) == Item("include", "", "", u)
In(kind, name, body) == Kw \o Item("open", kind, name, "") \o Semi \o body \o Item("close", "", "", "")
Module_(name, list, body) ==
    Kw \o Item("open", "module", name, "") \o list \o Semi \o body \o Item("close", "", "", "")
Ports_(name) == Paren(Kw \o Item("leaf", "port", name, ""))
Params_(kw, name) == P("#") \o Paren(kw \o Item("leaf", "parameter", name, ""))
Function(name, arg, body) ==
    Kw \o Item("open", "function", name, "") \o Paren(Kw \o Item("leaf", "argument", arg, "")) \o Semi
       \o body \o Item("close", "", "", "")
Prototype_(name) == Kw \o Item("leaf", "function", name, "") \o Paren(<<>>) \o Semi

Conn(m, value) == P(".") \o Item("conn", "port", "x", m) \o Paren(value)
Param(m, value) == P(".") \o Item("conn", "parameter", "x", m) \o Paren(value)
Instance(m, conns) == Use(m) \o Item("leaf", "variable", "u", m) \o Paren(conns) \o Semi
Array(m, conns) == Use(m) \o Item("leaf", "variable", "u", m) \o P("[") \o P("num") \o P("]") \o Paren(conns) \o Semi
Override(m, params, conns) ==
    Use(m) \o P("#") \o Paren(params) \o Item("leaf", "variable", "u", m) \o Paren(conns) \o Semi

Named_(f, value) == P(".") \o Item("use", "", "x", f) \o Paren(value)
Call(f, args) == Use(f) \o Paren(args)

MCURIs == 1 .. 4

Products(sets) == {<<a, b, c, d>> : a \in sets[1], b \in sets[2], c \in sets[3], d \in sets[4]}

\* The places a name is looked up in, and its shadows.
Scopes == Products(<<
    {Leaf("typedef", "x") \o X,
     Leaf("variable", "y") \o X,
     Import("p", P("*")),
     X},
    {In("package", "p", Leaf("typedef", "x") \o X \o Function("f", "x", X)),
     In("package", "p", Include(1) \o X),
     In("package", "p", Leaf("typedef", "x") \o Leaf("enumMember", "e")) \o In("class", "x", X),
     In("package", "p", Function("x", "a", X))},
    {Module_("m", Ports_("x"), X \o Function("f", "x", X)),
     In("module", "m", Import("p", Use("x")) \o X \o In("class", "c", Leaf("variable", "x") \o X)),
     Module_("m", Params_(Kw, "x"), X \o Include(1)),
     Module_("m", Params_(P("localparam"), "x"), X),
     In("module", "m", Leaf("parameter", "x") \o X),
     In("interface", "m", Include(1) \o Scoped("p", X)),
     Include(1) \o In("module", "m", X),
     In("module", "m", Function("f", "x", X) \o Call("f", Named_("f", Use("x"))) \o Semi)},
    {In("module", "top", Leaf("variable", "x") \o Instance("m", Conn("m", Use("x"))) \o X),
     Import("p", P("*")) \o In("module", "top", Override("m", Param("m", Use("y")), <<>>) \o X),
     In("module", "top", Scoped("p", X) \o Array("n", Conn("n", Use("y"))) \o Call("f", Named_("f", <<>>)) \o Semi),
     Leaf("typedef", "x") \o Module_("n", Ports_("x"), X)
        \o In("module", "top", Override("n", <<>>, Conn("n", Use("x"))) \o Access("a"))}>>)

\* Fields and members, prototypes and bodies, calls in calls.
Members == Products(<<
    {Struct("T") \o X,
     X},
    {In("package", "p", Leaf("parameter", "x") \o Function("f", "x", X)),
     In("package", "p", Function("x", "a", X)) \o In("class", "p", Prototype_("x")),
     In("package", "p", Prototype_("x") \o Struct("T") \o Typed("T", "s") \o Access("s"))},
    {In("interface", "m", Leaf("variable", "x") \o X),
     In("interface", "m", Leaf("modport", "x")),
     In("interface", "m", Prototype_("x")),
     Struct("U") \o In("module", "m", Typed("T", "s") \o Access("s")
                          \o Function("g", "x", Typed("U", "s") \o Access("s"))),
     In("class", "c", Prototype_("x")) \o In("class", "d", Function("x", "a", <<>>))},
    {In("module", "top", Typed("m", "b") \o Access("b") \o Access("m") \o Typed("T", "s") \o Access("s")
        \o Instance("m", Use("s") \o P(".") \o Use("x"))),
     Import("p", P("*")) \o In("module", "top", Include(1) \o Scoped("p", Access("s")) \o Access("s")
        \o Call("f", Named_("f", Call("g", Named_("g", Use("x")) \o P(",") \o Use("y"))) \o P(",") \o Use("x")) \o Semi),
     In("module", "top", Function("x", "a", <<>>)
        \o Function("g", "x", Call("x", X) \o Call("f", Use("y") \o P(",") \o Named_("f", Call("g", Named_("g", <<>>)))) \o Semi)),
     In("class", "c", Prototype_("x") \o X) \o Function("g", "x", X)}>>)

MCWorkspaces == Scopes \union Members
==============================================================================
