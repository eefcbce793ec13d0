-------------------------------- MODULE MirGen --------------------------------
(* The compile pass: MIR code from the tree (astparse.c).  What an           *)
(* expression leaves is an operand, so parse_expression returns the list and *)
(* an operand.  The fields of an expression that the code leaves without a   *)
(* value are taken to be zero.                                               *)
EXTENDS TypeCheck, MirList

Parsed(l, e) == [l |-> l, e |-> e]

mir_var(x) == Opr("var", x, is_address_type(DeclOf[x]))
parse_var(t) == Opr("var", t.name, FALSE)

Opposite(op) ==
    CASE op = "eql" -> "neq" [] op = "neq" -> "eql"
      [] op = "lss" -> "geq" [] op = "geq" -> "lss"
      [] op = "leq" -> "gtr" [] op = "gtr" -> "leq"

(* An IF that is at the tail goes to whatever is emitted next.               *)
JumpPast(l, id) == mir_set_jump(l, id, l.spare)

(* Pointers and arrays, which have to be on the left, are counted in         *)
(* elements of the type of the node.                                         *)
parse_addition(l, t, e1, e2) ==
    LET res == Temp(l)
        l1 == tr_alloc(l)
    IN  Parsed(IF is_address_type(t.t)
                 THEN Emit(Emit(l1, "mul", e2, mir_const(sizeof_type(t.t)), res),
                           t.k, e1, res, res)
                 ELSE Emit(l1, t.k, e1, e2, res),
               res)

parse_product(l, t, e1, e2) ==
    Parsed(Emit(tr_alloc(l), t.k, e1, e2, Temp(l)), Temp(l))

(* The result is 0, and is set to 1 unless the inverse holds.                *)
parse_comparison(l, t, e1, e2) ==
    LET res == Temp(l)
        l1 == Emit(tr_alloc(l), "move", mir_const(0), None, res)
        l2 == Emit(l1, "if", e1, e2, Relation(Opposite(t.k)))
        l3 == Emit(l2, "move", mir_const(1), None, res)
    IN  Parsed(JumpPast(l3, mir_list_tail(l2)), res)

(* || tests its two operands, && the first one twice; one that decides jumps *)
(* past the instruction that sets the other value.                           *)
parse_logical(l, t, e1, e2) ==
    LET res == Temp(l)
        reg == Temp(tr_alloc(l))
        decided == IF t.k = "or" THEN 1 ELSE 0
        test == IF t.k = "or" THEN "neq" ELSE "eql"
        second == IF t.k = "or" THEN e2 ELSE e1
        l1 == Emit(tr_alloc(tr_alloc(l)), "move", mir_const(decided), None, res)
        l2 == Emit(Emit(l1, test, e1, mir_const(0), reg), "if", reg, None, None)
        l3 == Emit(Emit(l2, test, second, mir_const(0), reg), "if", reg, None, None)
        l4 == Emit(l3, "move", mir_const(1 - decided), None, res)
    IN  Parsed(JumpPast(JumpPast(l4, mir_list_tail(l2)), mir_list_tail(l3)), res)

(* A value that is already dereferenced is moved to a register first.        *)
parse_dereference(l, e) ==
    IF ~e.ind THEN Parsed(l, [e EXCEPT !.ind = TRUE])
    ELSE LET reg == Temp(l)
         IN  Parsed(Emit(tr_alloc(l), "move", e, None, reg),
                    [reg EXCEPT !.ind = TRUE])

parse_address(l, t) ==
    LET reg == Temp(l)
        l1 == Emit(tr_alloc(l), "addr", parse_var(t.c[1]), None, reg)
    IN  Parsed([l1 EXCEPT !.aliased = @ \cup {t.c[1].name}], reg)

(* The result is a new register, which nothing sets.                         *)
parse_call(l, t, args) ==
    LET l1 == Emit(l, "call", mir_var(t.c[1].name), None, None)
        l2 == [l1 EXCEPT !.node[mir_list_tail(l1)].args = args]
    IN  Parsed(tr_alloc(l2), Temp(l2))

(* Arguments come from the last to the first.                                *)
RECURSIVE parse_expression(_, _), parse_args(_, _, _)
parse_expression(l, t) ==
    CASE t.k = "num" -> Parsed(l, mir_const(t.num))
      [] t.k = "id" -> Parsed(l, parse_var(t))
      [] t.k = "address" -> parse_address(l, t)
      [] t.k = "pointer" ->
           LET p == parse_expression(l, t.c[1]) IN parse_dereference(p.l, p.e)
      [] t.k = "call" ->
           LET p == parse_args(tr_alloc(l), t, Len(t.c))
           IN  parse_call(p.l, t, p.e)
      [] OTHER ->
           LET p == parse_expression(l, t.c[1])
               q == parse_expression(p.l, t.c[2])
           IN  CASE t.k \in {"add", "sub"} -> parse_addition(q.l, t, p.e, q.e)
                 [] t.k \in {"mul", "div"} -> parse_product(q.l, t, p.e, q.e)
                 [] t.k \in {"and", "or"} -> parse_logical(q.l, t, p.e, q.e)
                 [] t.k \in Relations -> parse_comparison(q.l, t, p.e, q.e)

parse_args(l, t, i) ==
    IF i = 1 THEN Parsed(l, <<>>)
    ELSE LET p == parse_expression(l, t.c[i])
             q == parse_args(p.l, t, i - 1)
         IN  Parsed(q.l, Append(q.e, p.e))

(* The value first, then its place.  The result of an operation goes to a    *)
(* variable by giving the last instruction the variable as its result.       *)
parse_assignment(l, t) ==
    LET value == parse_expression(l, t.c[2])
        place == parse_expression(value.l, t.c[1])
        l1 == place.l
    IN  IF value.e.k \in {"var", "const"} \/ value.e.ind \/ place.e.k = "reg"
          THEN Emit(l1, "move", value.e, None, place.e)
          ELSE [l1 EXCEPT !.node[mir_list_tail(l1)].o[3] = place.e]

(* The exit of a loop or an if: the condition is zero.                       *)
EmitExit(p) == Emit(p.l, "if", p.e, mir_const(0), Relation("eql"))

(* Back to the start, and the exit goes behind that.                         *)
CloseLoop(l, start, exit) ==
    LET l1 == Emit(l, "jump", None, None, None)
    IN  JumpPast(mir_set_jump(l1, mir_list_tail(l1), start), exit)

(* An operation that stands as a statement is passed over, with a warning.   *)
RECURSIVE parse_statement(_, _)
parse_block(l, t) == FoldLeft(parse_statement, l, t.c)

parse_statement(l, t) ==
    CASE t.k = "becomes" -> parse_assignment(l, t)
      [] t.k = "call" -> parse_expression(l, t).l
      [] t.k = "return" ->
           LET p == parse_expression(l, t.c[1])
           IN  Emit(p.l, "return", p.e, None, None)
      [] t.k = "if" ->
           LET l1 == EmitExit(parse_expression(l, t.c[1]))
               l2 == parse_block(l1, t.c[2])
           IN  JumpPast(l2, mir_list_tail(l1))
      [] t.k = "while" ->
           LET l1 == EmitExit(parse_expression(l, t.c[1]))
               l2 == parse_block(l1, t.c[2])
           IN  CloseLoop(l2, l.spare, mir_list_tail(l1))
      [] t.k = "do" ->
           LET l1 == parse_block(l, t.c[2])
               l2 == EmitExit(parse_expression(l1, t.c[1]))
           IN  CloseLoop(l2, l.spare, mir_list_tail(l2))
      [] t.k = "for" ->
           LET l1 == parse_statement(l, t.c[1])
               l2 == EmitExit(parse_expression(l1, t.c[2]))
               l3 == parse_statement(parse_block(l2, t.c[4]), t.c[3])
           IN  CloseLoop(l3, l1.spare, mir_list_tail(l2))
      [] OTHER -> l

(* A function is a label, BEGIN, its arguments, its body and END; entry is   *)
(* the place of mir_first.                                                   *)
Label(f) == [Instr("label", None, None, None) EXCEPT !.label = f]

parse_func(l, f, body) ==
    LET l1 == IF l.order = <<>> THEN mir_add_to_tail(l, Label(f))
                                ELSE mir_emit(l, Label(f))
        l2 == FoldLeft(LAMBDA acc, x : Emit(acc, "receive", None, None, mir_var(x)),
                       Emit(l1, "begin", None, None, None), ArgsOf[f])
    IN  Emit(parse_block(l2, body), "end", None, None, None)
=============================================================================
