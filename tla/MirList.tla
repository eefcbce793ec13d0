------------------------------- MODULE MirList -------------------------------
(* The list of MIR instructions (mir.c).  Nodes are numbers, given in the    *)
(* order of the allocations; order is the list from head to tail, and spare  *)
(* the node that always follows the tail and that the next instruction will  *)
(* be put in.  Jumps to it are made before it has one.                       *)
EXTENDS Integers, Sequences, FiniteSets, SequencesExt

(* Operands: a variable, a constant, a temporary register or, as the third   *)
(* of an IF, a relation; ind says that it is dereferenced.                   *)
Opr(k, v, ind) == [k |-> k, v |-> v, ind |-> ind]
None == Opr("none", 0, FALSE)
mir_const(n) == Opr("const", n, FALSE)
mir_reg(r) == Opr("reg", r, FALSE)
Relation(op) == Opr("relation", op, FALSE)
IsVar(o) == o.k = "var"
IsConst(o) == o.k = "const"

Relations == {"eql", "neq", "lss", "leq", "gtr", "geq"}

Instr(op, o1, o2, o3) ==
    [op |-> op, o |-> <<o1, o2, o3>>, args |-> <<>>,
     jump |-> 0, links |-> 0, label |-> ""]

(* reg is the number of temporary registers in use, aliased the variables    *)
(* marked may_alias.                                                         *)
EmptyList ==
    [order |-> <<>>, node |-> << Instr("none", None, None, None) >>,
     spare |-> 1, reg |-> 0, aliased |-> {}]

Position(l, id) == CHOOSE i \in DOMAIN l.order : l.order[i] = id
mir_list_tail(l) == Last(l.order)
prev(l, id) == l.order[Position(l, id) - 1]
next(l, id) == IF id = mir_list_tail(l) THEN l.spare
               ELSE l.order[Position(l, id) + 1]
InList(l, id) == \E i \in DOMAIN l.order : l.order[i] = id

(* tr_alloc: the register that is free next, and the list without it.        *)
Temp(l) == mir_reg(l.reg)
tr_alloc(l) == [l EXCEPT !.reg = @ + 1]

(* The spare node gets the instruction; links to it stay.                    *)
mir_add_to_tail(l, ins) ==
    [l EXCEPT !.order = Append(@, l.spare),
              !.node = Append([@ EXCEPT ![l.spare] =
                                  [ins EXCEPT !.links = @ + l.node[l.spare].links]],
                              Instr("none", None, None, None)),
              !.spare = Len(l.node) + 1]

(* Mutant of InsertAfter: the spare node is used, and stays the spare one.   *)
InsertSpare(l, id, ins) ==
    IF id = mir_list_tail(l) THEN mir_add_to_tail(l, ins)
    ELSE [l EXCEPT !.order = InsertAt(@, Position(l, id) + 1, l.spare),
                   !.node[l.spare] = ins]

InsertAfter(l, id, ins) ==
    IF id = mir_list_tail(l) THEN mir_add_to_tail(l, ins)
    ELSE [l EXCEPT !.order = InsertAt(@, Position(l, id) + 1, Len(l.node) + 1),
                   !.node = Append(@, ins)]

(* An IF behind a comparison makes the comparison one.  The code looks for   *)
(* the comparison at the tail and changes the node it was given: these are   *)
(* the same for every IF it makes.                                           *)
mir_emit(l, ins) ==
    LET tail == mir_list_tail(l)
    IN  IF ins.op = "if" /\ l.node[tail].op \in Relations
          THEN [l EXCEPT !.node[tail].o[3] = Relation(l.node[tail].op),
                         !.node[tail].op = "if"]
          ELSE InsertAfter(l, tail, ins)

Emit(l, op, o1, o2, o3) == mir_emit(l, Instr(op, o1, o2, o3))

(* Mutant of mir_set_jump: the link is not counted.                          *)
JumpUncounted(l, src, dest) == [l EXCEPT !.node[src].jump = dest]

mir_set_jump(l, src, dest) ==
    [l EXCEPT !.node[src].jump = dest, !.node[dest].links = @ + 1]

(* Mutant of mir_move_label: jumps stay where they are.                      *)
LabelStays(l, src, dest) == l

mir_move_label(l, src, dest) ==
    IF l.node[src].links = 0 THEN l
    ELSE LET jumpers == SelectSeq(l.order, LAMBDA i : l.node[i].jump = src)
         IN  [FoldLeft(LAMBDA acc, i : mir_set_jump(acc, i, dest), l, jumpers)
                EXCEPT !.node[src].links = 0]

(* An instruction in front of another, which jumps to that then reach first. *)
Before(l, id, ins) ==
    LET l1 == InsertAfter(l, prev(l, id), ins)
    IN  mir_move_label(l1, id, prev(l1, id))

After(l, id, ins) == InsertAfter(l, id, ins)

mir_remove_node(l, id) == [l EXCEPT !.order = SelectSeq(@, LAMBDA i : i # id)]

(* A pass over the list.  What it adds behind the current instruction it     *)
(* does come to, but leaves alone: its instructions are those it began with. *)
Sweep(l, Op(_, _)) == FoldLeft(Op, l, l.order)

(* Labels for everything that is jumped to.                                  *)
mir_label_nodes(l) ==
    FoldLeft(LAMBDA acc, i : [acc EXCEPT !.node[i].label = "L"], l,
             SelectSeq(l.order, LAMBDA i : l.node[i].links > 0))
=============================================================================
