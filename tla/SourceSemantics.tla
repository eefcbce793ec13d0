---------------------------- MODULE SourceSemantics ----------------------------
(* What a program means: an evaluator for the trees the parser makes, with   *)
(* the meaning C gives them.  All variables are in memory, at the addresses  *)
(* that compiled code gives them; Undef is a value nobody may rely on.       *)
EXTENDS Programs

CONSTANTS
    FrameStride,    \* the distance of two frames, more than any frame has
    Undef           \* no value: a model value

Get(f, x) == IF x \in DOMAIN f THEN f[x] ELSE Undef
Put(f, x, v) == [y \in DOMAIN f \cup {x} |-> IF y = x THEN v ELSE f[y]]

StackAddress(depth, offset) == FrameStride * depth + offset
VarAddress(x, depth) == IF x \in Globals THEN AddressOf[x]
                        ELSE StackAddress(depth, OffsetOf[x])

Truth(b) == IF b THEN 1 ELSE 0
Calculate(op, m, n) ==
    IF Undef \in {m, n} THEN Undef
    ELSE CASE op = "add" -> m + n [] op = "sub" -> m - n
           [] op = "mul" -> m * n
           [] op = "div" -> IF n = 0 THEN Undef ELSE m \div n
           [] op = "eql" -> Truth(m = n) [] op = "neq" -> Truth(m # n)
           [] op = "lss" -> Truth(m < n) [] op = "geq" -> Truth(m >= n)
           [] op = "leq" -> Truth(m <= n) [] op = "gtr" -> Truth(m > n)

IsArray(x) == is_array_type(DeclOf[x])

(* Expressions that stand for addresses.                                     *)
RECURSIVE IsPointer(_)
IsPointer(t) ==
    CASE t.k = "id" -> IsArray(t.name) \/ is_address_type(DeclOf[t.name])
      [] t.k = "address" -> TRUE
      [] t.k = "add" -> IsPointer(t.c[1]) \/ IsPointer(t.c[2])
      [] t.k = "sub" -> IsPointer(t.c[1])
      [] OTHER -> FALSE

-----------------------------------------------------------------------------
(* A program in a smaller language: a variable is the load of an address,    *)
(* what is done to an address is scaled, and all control is a condition or   *)
(* a loop.                                                                   *)

AddressNode(x) == [Node("addr", <<>>) EXCEPT !.name = x]
Cond(e, yes, no) == Node("cond", <<e, yes, no>>)
Skip == Node("block", <<>>)

(* Integers and elements take a word.                                        *)
Scaled(t, e) == IF IsPointer(t) THEN e
                ELSE Node("mul", <<e, Num(IC_SIZEOF_INT)>>)
Computation(k, t, c) ==
    IF IsPointer(Node(k, t.c))
      THEN Node(k, <<Scaled(t.c[1], c[1]), Scaled(t.c[2], c[2])>>)
      ELSE Node(k, c)

(* The address that an expression on the left of an assignment loads from.   *)
Place(e) == IF e.k = "load" THEN e.c[1] ELSE e

RECURSIVE Plain(_)
Plain(t) ==
    LET c == [i \in DOMAIN t.c |-> Plain(t.c[i])]
    IN  CASE t.k = "id" -> IF IsArray(t.name) THEN AddressNode(t.name)
                           ELSE Node("load", <<AddressNode(t.name)>>)
          [] t.k = "pointer" -> Node("load", c)
          [] t.k = "array" -> Node("load", <<Computation("add", t, c)>>)
          [] t.k = "address" -> Place(c[1])
          [] t.k = "becomes" -> Node("store", <<Place(c[1]), c[2]>>)
          [] t.k \in {"add", "sub"} -> Computation(t.k, t, c)
          [] t.k = "call" -> [Node("call", Tail(c)) EXCEPT !.name = t.c[1].name]
          [] t.k = "and" -> Cond(c[1], Node("neq", <<c[2], Num(0)>>), Num(0))
          [] t.k = "or" -> Cond(c[1], Num(1), Node("neq", <<c[2], Num(0)>>))
          [] t.k = "if" -> Cond(c[1], c[2], Skip)
          [] t.k = "do" -> Node("block", <<c[2], Node("while", c)>>)
          [] t.k = "for" ->
               Node("block", << c[1], Node("while",
                                  <<c[2], Node("block", <<c[4], c[3]>>)>>) >>)
          [] OTHER -> [t EXCEPT !.c = c]

-----------------------------------------------------------------------------
(* The memory, the depth of calls, the last value computed, whether a return *)
(* was reached and with what value.                                          *)
GlobalWords == {AddressOf[x] + IC_SIZEOF_INT * i : x \in Globals, i \in 0 .. 1}
InitialMemory == [a \in GlobalWords |-> 0]
Start == [mem |-> InitialMemory, depth |-> 1, v |-> Undef, done |-> FALSE,
          ret |-> Undef]

Gives(s, v) == [s EXCEPT !.v = v]
Stopped(s) == [s EXCEPT !.done = TRUE]

(* A call has a frame of its own, without what was in that memory before.    *)
Called(f, args, s) ==
    LET kept == {a \in DOMAIN s.mem : a < StackAddress(s.depth + 1, 0)
                                        \/ a >= StackAddress(s.depth + 2, 0)}
        given == FoldLeft(LAMBDA mem, i :
                     Put(mem, VarAddress(ArgsOf[f][i], s.depth + 1), args[i]),
                     [a \in kept |-> s.mem[a]], [i \in DOMAIN args |-> i])
    IN  [s EXCEPT !.mem = given, !.depth = @ + 1, !.ret = Undef]

Back(s) == [Gives(s, s.ret) EXCEPT !.depth = @ - 1, !.done = FALSE, !.ret = Undef]

(* What a node does, given the values of its operands.  An assignment to     *)
(* nowhere ends the program, without a value.                                *)
Apply(t, v, s) ==
    CASE t.k = "num" -> Gives(s, t.num)
      [] t.k = "addr" -> Gives(s, VarAddress(t.name, s.depth))
      [] t.k = "load" -> Gives(s, Get(s.mem, v[1]))
      [] t.k = "store" -> IF v[1] = Undef THEN Stopped(s)
                          ELSE [s EXCEPT !.mem = Put(@, v[1], v[2])]
      [] t.k = "return" -> [Stopped(s) EXCEPT !.ret = v[1]]
      [] t.k = "block" -> s
      [] OTHER -> Gives(s, Calculate(t.k, v[1], v[2]))

(* Operands are evaluated in turn, and the statements of a block are.  A     *)
(* condition without a value ends the program too.                           *)
RECURSIVE Execute(_, _)
Execute(t, s) ==
    IF s.done THEN s
    ELSE CASE t.k = "cond" ->
                LET e == Execute(t.c[1], s)
                IN  IF e.v = Undef THEN Stopped(e)
                    ELSE Execute(t.c[IF e.v # 0 THEN 2 ELSE 3], e)
           [] t.k = "while" ->
                Execute(Cond(t.c[1], Node("block", <<t.c[2], t>>), Skip), s)
           [] OTHER ->
                LET states == FoldLeft(LAMBDA acc, c :
                                  Append(acc, Execute(c, Last(acc))), <<s>>, t.c)
                    values == [i \in DOMAIN t.c |-> states[i + 1].v]
                    e == Last(states)
                IN  IF e.done THEN e
                    ELSE IF t.k = "call"
                      THEN Back(Execute(Plain(BodyOf[t.name]),
                                        Called(t.name, values, e)))
                    ELSE Apply(t, values, e)

(* What can be seen of a run: the value of the entry point and the globals.  *)
Outcome(ret, mem) ==
    [ret |-> ret, globals |-> [a \in GlobalWords |-> Get(mem, a)]]

Meaning(body) == LET s == Execute(Plain(body), Start)
                 IN  Outcome(s.ret, s.mem)
=============================================================================
