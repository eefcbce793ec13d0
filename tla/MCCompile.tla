------------------------------- MODULE MCCompile -------------------------------
(* The programs: a short beginning, one or two statements, and the values of *)
(* the locals as the result.  Statements are chosen so that every kind of    *)
(* operand meets every kind of place, and every loop ends.                   *)
EXTENDS Compile

MCUTypes == <<>>

Int0(d) == Sig(d, <<IntType>>)
MCDeclOf ==
    [v \in {"x", "y", "k"} |-> Int0("variable")] @@
    [v \in {"n", "m", "n1", "n2", "n3", "n4"} |-> Int0("argument")] @@
    [v \in {"g", "g1"} |-> Int0("variable")] @@
    [v \in {"a", "b", "w"} |-> Sig("variable", <<Array(2), IntType>>)] @@
    [v \in {"p", "gp"} |-> Sig("variable", <<Pointer, IntType>>)] @@
    [v \in {"q"} |-> Sig("argument", <<Pointer, IntType>>)] @@
    [v \in {"h", "d"} |-> Sig("variable", <<History(2), IntType>>)] @@
    [v \in {"ha"} |-> Sig("variable", <<History(2), Array(2), IntType>>)] @@
    [f \in {"main", "plus", "early", "count", "bump", "local", "outer",
            "three", "four", "falls"} |-> Int0("function")] @@
    [f \in {"set", "loop", "idle"} |-> Sig("function", <<VoidType>>)]

MCGlobals == {"g", "b", "gp"}
MCAddressOf == [g |-> 100, b |-> 108, gp |-> 116]
Locals == <<"x", "y", "p", "a", "k", "w", "n", "m", "n1", "n2", "n3", "n4",
            "q">>
MCOffsetOf == [v \in ToSet(Locals) |->
                  8 * (CHOOSE i \in DOMAIN Locals : Locals[i] = v)]

Bin(op, l, r) == Node(op, <<l, r>>)
Deref(e) == Node("pointer", <<e>>)
Addr(x) == Node("address", <<Id(x)>>)
At_(x, e) == Node("array", <<Id(x), e>>)
Set(l, e) == Node("becomes", <<l, e>>)
CallOf(f, args) == Node("call", <<Id(f)>> \o args)
Block(ss) == Node("block", ss)
If(e, ss) == Node("if", <<e, Block(ss)>>)
While(e, ss) == Node("while", <<e, Block(ss)>>)
Do(e, ss) == Node("do", <<e, Block(ss)>>)
For(i, e, s, ss) == Node("for", <<i, e, s, Block(ss)>>)
Return(e) == Node("return", <<e>>)

x == Id("x")  y == Id("y")  g == Id("g")  n == Id("n")  k == Id("k")
Inc(v) == Set(v, Bin("add", v, Num(1)))
Past(h, i) == Node("history", <<Id(h), i>>)

MCArgsOf ==
    [f \in {"main", "idle"} |-> <<>>] @@
    [f \in {"plus", "early", "count", "local", "set", "loop", "falls"}
        |-> <<"n">>] @@
    [f \in {"outer"} |-> <<"m">>] @@
    [f \in {"bump"} |-> <<"q">>] @@
    [f \in {"three"} |-> <<"n1", "n2", "n3">>] @@
    [f \in {"four"} |-> <<"n1", "n2", "n3", "n4">>]

MCBodyOf ==
    [main |-> Block(<<>>),
     plus |-> Block(<< Return(Bin("add", n, g)) >>),
     set |-> Block(<< Set(g, Bin("mul", n, Num(2))) >>),
     idle |-> Block(<< Bin("add", g, g) >>),
     early |-> Block(<< If(Bin("lss", n, Num(2)), << Return(Num(7)) >>),
                        Return(n) >>),
     falls |-> Block(<< If(Bin("lss", n, Num(2)), << Return(Num(7)) >>) >>),
     loop |-> Block(<< Set(g, Num(0)), While(Bin("lss", g, n), << Inc(g) >>) >>),
     count |-> Block(<< Set(g, Num(0)), Do(Bin("lss", g, n), << Inc(g) >>),
                        Return(Bin("sub", g, n)) >>),
     bump |-> Block(<< Set(Deref(Id("q")), Bin("add", Deref(Id("q")), Num(1))),
                       Return(Deref(Id("q"))) >>),
     local |-> Block(<< Set(k, Bin("mul", n, Num(2))), Set(At_("w", Num(1)), k),
                        Return(At_("w", Num(1))) >>),
     outer |-> Block(<< Set(k, CallOf("plus", <<Id("m")>>)), Set(g, k), Return(k) >>),
     three |-> Block(<< Return(Bin("sub", Id("n1"),
                                   Bin("mul", Id("n2"), Id("n3")))) >>),
     four |-> Block(<< Return(Bin("sub", Id("n3"), Id("n4"))) >>)]

Beginning == << Set(x, Num(1)), Set(y, Num(0)), Set(At_("a", Num(0)), Num(6)),
                Set(At_("a", Num(1)), Bin("add", x, Num(1))) >>
End == << Return(Bin("add", Bin("mul", x, Num(10)), y)) >>
MCMainBody(ss) == Block(Beginning \o ss \o End)
PointToX == Set(Id("p"), Addr("x"))

Writes == {
    Set(x, Num(3)), Set(y, Bin("sub", x, Num(2))), Set(g, x),
    Set(At_("b", y), x), Set(At_("a", x), Bin("add", g, Num(5))),
    Set(Deref(Id("p")), Num(5)), Inc(Deref(Id("p"))),
    Set(Deref(Addr("y")), Num(4)), Set(Id("gp"), Addr("x")),
    If(y, << Set(x, Num(8)) >>), While(Bin("lss", g, Num(2)), << Inc(g) >>) }

Reads == {
    Set(x, y), Inc(x), Set(x, Bin("sub", Num(2), y)), Set(y, Bin("mul", x, Num(2))),
    Set(y, Bin("mul", Num(2), x)), Set(x, Bin("add", Num(2), Num(3))),
    Set(x, g), Inc(g), Set(x, At_("b", Num(0))), Set(At_("b", Num(1)), Inc(g).c[2]),
    Set(y, Bin("add", At_("a", x), At_("a", Num(0)))),
    Set(y, Deref(Id("p"))), Set(y, Deref(Id("gp"))), Set(x, Deref(Addr("y"))),
    Set(y, Bin("add", Num(3), Deref(Id("p")))),
    Set(y, Bin("div", x, Num(2))), Set(y, Bin("lss", y, x)),
    Set(At_("a", Num(0)), Bin("lss", y, x)),
    Set(y, Bin("add", Id("p"), Num(1))), Set(x, Id("a")),
    Set(y, Deref(x)), Set(x, Deref(Bin("sub", Id("p"), Num(0)))) }

Controls == {
    If(Bin("lss", y, x), << Set(x, y) >>), If(Bin("neq", g, Num(0)), << Inc(y) >>),
    If(Bin("lss", Num(0), x), << Inc(y) >>),
    If(Bin("or", Bin("eql", x, Num(0)), Bin("geq", y, Num(0))), << Inc(g) >>),
    If(Bin("and", Bin("eql", x, Num(1)), Bin("gtr", y, Num(0))), << Inc(g) >>),
    If(Bin("leq", x, g), << Return(Num(7)) >>),
    Do(Bin("lss", x, Num(3)), << Inc(x), Set(y, x) >>),
    For(Set(y, Num(0)), Bin("lss", y, Num(2)), Inc(y),
        << Set(At_("b", y), Deref(Id("p"))) >>) }

Alone == [callees |-> <<>>, inline |-> FALSE]
Program(callees, inline, ss) ==
    [callees |-> callees, inline |-> inline, main |-> ss]

Sequential ==
    {Program(<<>>, FALSE, <<s>>) : s \in Writes \cup Reads \cup Controls} \cup
    {Program(<<>>, FALSE, <<PointToX, s, r>>) :
        s \in Writes, r \in Reads \cup Controls}

Calls(f) ==
    IF f = "bump" THEN { CallOf(f, <<Addr("x")>>), CallOf(f, <<Id("p")>>), CallOf(f, <<Id("gp")>>),
                         CallOf(f, <<x>>), CallOf(f, <<Id("a")>>) }
    ELSE IF f = "three" THEN { CallOf(f, <<x, Deref(Id("p")), Num(4)>>),
                          CallOf(f, <<x, y, Num(4)>>) }
    ELSE IF f = "idle" THEN { CallOf(f, <<>>) }
    ELSE IF f = "four" THEN { CallOf(f, <<x, y, Num(4), g>>) }
    ELSE { CallOf(f, <<x>>), CallOf(f, <<Num(3)>>), CallOf(f, <<g>>),
           CallOf(f, << Bin("add", At_("a", Num(1)), Num(1)) >>),
           CallOf(f, <<Id("p")>>) }

Uses_(c) ==
    LET set == Set(y, c)
    IN  IF MCDeclOf[c.c[1].name].s = <<VoidType>>
          THEN {c, If(x, <<c>>), While(Bin("lss", y, Num(2)), <<c, Inc(y)>>)}
          ELSE {c, set, Set(g, c), Set(x, c), Set(At_("b", Num(0)), c),
                If(x, <<set>>), While(Bin("lss", y, Num(2)), <<c, Inc(y)>>)}

Callees == { <<"plus">>, <<"set">>, <<"early">>, <<"loop">>, <<"count">>,
             <<"bump">>, <<"local">>, <<"falls">>, <<"plus", "outer">>,
             <<"three">>, <<"four">>, <<"idle">> }

Calling ==
    UNION { UNION { {Program(fs, inl, <<Inc(g), s>>),
                     Program(fs, inl, <<If(y, <<Inc(g)>>), s>>),
                     Program(fs, inl, <<PointToX, s, s>>)} :
                 s \in UNION {Uses_(c) : c \in Calls(Last(fs))} } :
            fs \in Callees, inl \in BOOLEAN }

h == Id("h")
Historic ==
    {Program(<<"plus", "bump">>, FALSE, <<s>>) : s \in {
        Set(h, x), Set(x, h), Set(h, h), Set(x, Past("h", Num(1))),
        Set(h, Bin("add", h, Past("h", Num(1)))), Set(x, CallOf("plus", <<h>>)),
        CallOf("plus", << Bin("add", h, Num(1)) >>),
        Set(At_("ha", Num(0)), h), Set(x, At_("ha", Num(1))),
        Set(x, Past("h", Id("d"))), Set(x, Addr("h")),
        CallOf("bump", <<Addr("h")>>), CallOf("bump", <<h>>), Set(x, Deref(h)),
        CallOf("plus", <<Past("h", y)>>),
        If(Bin("lss", h, Num(2)), << Set(h, Bin("mul", Num(2), h)) >>),
        Set(At_("a", h), Num(1)), Set(x, At_("a", h)) }}

MCPrograms == Sequential \cup Calling \cup Historic
=============================================================================
