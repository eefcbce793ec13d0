------------------------------- MODULE MirPasses -------------------------------
(* Inlining (inline.c) and the passes that lower MIR code to what a SPARC    *)
(* instruction can do (mir.c).                                               *)
EXTENDS MirGen

IsGlobal(o) == IsVar(o) /\ o.v \in Globals
IsArrayVar(o) == IsVar(o) /\ is_array_type(DeclOf[o.v])
IsPointerVar(o) == IsVar(o) /\ is_address_type(DeclOf[o.v])

Op(l, id) == l.node[id].op
O(l, id, i) == l.node[id].o[i]

SetOperand(l, id, i, o) == [l EXCEPT !.node[id].o[i] = o]

(* A value is fetched into a new register in front of the instruction, which *)
(* uses the register instead.  Uses are operands 1 and 2, or the arguments   *)
(* of a call.                                                                *)
UseLoaded(l, id, i, op, o) ==
    SetOperand(Before(tr_alloc(l), id, Instr(op, o, None, Temp(l))),
               id, i, Temp(l))
ArgLoaded(l, id, i, op, o) ==
    [Before(tr_alloc(l), id, Instr(op, o, None, Temp(l)))
        EXCEPT !.node[id].args[i] = Temp(l)]

Uses(l, id, Op2(_, _), n) == FoldLeft(Op2, l, [i \in 1 .. n |-> i])
NumArgs(l, id) == Len(l.node[id].args)

-----------------------------------------------------------------------------
(* Inlining.                                                                 *)

CodeOf(l, f) ==
    LET first == CHOOSE i \in DOMAIN l.order : l.node[l.order[i]].label = f
        last == CHOOSE i \in DOMAIN l.order :
                   /\ i > first /\ Op(l, l.order[i]) = "end"
                   /\ \A j \in first .. i - 1 : Op(l, l.order[j]) # "end"
    IN  SubSeq(l.order, first, last)

(* An instruction of the function for a call whose result goes to res.  A    *)
(* return becomes a move; nothing jumps to the end for it.                   *)
Copied(ins, res) ==
    LET new == [ins EXCEPT !.links = 0]
    IN  IF ins.op = "return" THEN [new EXCEPT !.op = "move", !.o[3] = res]
        ELSE new

(* The jumps of the copies.  The last copy is not looked at.                 *)
FixJumps(l, body, copies, exit) ==
    LET copyOf(id) == IF id \in {body[i] : i \in DOMAIN body}
                        THEN copies[CHOOSE i \in DOMAIN body : body[i] = id]
                        ELSE exit
    IN  FoldLeft(LAMBDA acc, id :
                    IF acc.node[id].jump = 0 THEN acc
                    ELSE mir_set_jump(acc, id, copyOf(acc.node[id].jump)),
                 l, SubSeq(copies, 1, Len(copies) - 1))

FixArgs(l, call, copies) ==
    FoldLeft(LAMBDA acc, i :
                [acc EXCEPT !.node[copies[i]].op = "move",
                            !.node[copies[i]].o[1] = l.node[call].args[i],
                            !.node[copies[i]].o[3].ind = FALSE],
             l, [i \in 1 .. NumArgs(l, call) |-> i])

(* The code of f between BEGIN and END comes behind the call, which becomes  *)
(* a NOP.  fl is the list, the functions that are still to be inlined: a     *)
(* call in the code that is copied ends that for its function, and whether   *)
(* the walk over the copies got lost: without any, it starts behind its end  *)
(* and follows the null pointer at the end of the list.                      *)
InlineCall(fl, call) ==
    LET l == fl.l
        whole == CodeOf(l, O(l, call, 1).v)
        body == SubSeq(whole, 3, Len(whole) - 1)
        n == Len(l.node)
        copies == [i \in DOMAIN body |-> n + i]
        at == Position(l, call)
        l1 == [l EXCEPT
                 !.order = SubSeq(@, 1, at) \o copies \o SubSeq(@, at + 1, Len(@)),
                 !.node = @ \o [i \in DOMAIN body |->
                                   Copied(l.node[body[i]], O(l, call, 3))]]
        exit == l.order[at + 1]
        l2 == FixArgs(FixJumps(l1, body, copies, exit), call, copies)
    IN  [l |-> [l2 EXCEPT !.node[call] =
                   [Instr("nop", None, None, None) EXCEPT !.links = @ + l.node[call].links]],
         inline |-> fl.inline \ {O(l, body[i], 1).v :
                       i \in {j \in DOMAIN body : Op(l, body[j]) = "call"}},
         lost |-> fl.lost \/ body = <<>>]

inline_funcs(l, inline) ==
    FoldLeft(LAMBDA fl, id :
                IF Op(fl.l, id) = "call" /\ O(fl.l, id, 1).v \in fl.inline
                  THEN InlineCall(fl, id) ELSE fl,
             [l |-> l, inline |-> inline, lost |-> FALSE], l.order)

(* What was inlined to the end goes, label, body and END.                    *)
remove_inlined_funcs(fl) ==
    LET gone == UNION {Range(CodeOf(fl.l, f)) : f \in fl.inline}
    IN  FoldLeft(LAMBDA l, id : IF id \in gone THEN mir_remove_node(l, id) ELSE l,
                 fl.l, fl.l.order)

-----------------------------------------------------------------------------
(* Global variables live in memory: they are loaded before a use and stored  *)
(* behind a definition.  Arrays and pointers are used by address.            *)

StoreGlobal(l, id) ==
    LET o == O(l, id, 3)
        l1 == tr_alloc(tr_alloc(l))
    IN  SetOperand(After(l1, id, Instr("heap_store", Temp(l), Temp(tr_alloc(l)), o)),
                   id, 3, Temp(l))

GlobalArgs(l, id) ==
    Uses(l, id, LAMBDA acc, i :
            LET o == acc.node[id].args[i]
            IN  IF IsGlobal(o) /\ ~IsPointerVar(o)
                  THEN ArgLoaded(acc, id, i, "heap_load", o) ELSE acc,
         NumArgs(l, id))

GlobalUses(l, id) ==
    Uses(l, id, LAMBDA acc, i :
            LET o == O(acc, id, i)
            IN  IF ~IsGlobal(o) THEN acc
                ELSE UseLoaded(acc, id, i,
                        IF IsArrayVar(o) \/ IsPointerVar(o) THEN "heap_addr"
                                                            ELSE "heap_load", o),
         2)

mir_munge_globals(l) ==
    Sweep(l, LAMBDA acc, id :
        CASE Op(acc, id) = "call" ->
               LET l1 == GlobalArgs(acc, id)
               IN  IF IsGlobal(O(l1, id, 3)) /\ ~IsPointerVar(O(l1, id, 3))
                     THEN StoreGlobal(l1, id) ELSE l1
          [] Op(acc, id) = "addr" ->
               IF IsGlobal(O(acc, id, 1))
                 THEN [acc EXCEPT !.node[id].op = "heap_addr"] ELSE acc
          [] Op(acc, id) \notin {"call", "addr", "heap_load", "heap_store"} ->
               LET l1 == GlobalUses(acc, id)
               IN  IF IsGlobal(O(l1, id, 3)) THEN StoreGlobal(l1, id) ELSE l1
          [] OTHER -> acc)

-----------------------------------------------------------------------------
(* Moves between two places in memory, or of a constant to one, go through a *)
(* register; the address that arithmetic starts from gets into one.          *)
mir_munge(l) ==
    Sweep(l, LAMBDA acc, id :
        LET o1 == O(acc, id, 1)
            o3 == O(acc, id, 3)
        IN  CASE Op(acc, id) = "receive" ->
                   [acc EXCEPT !.node[id].o[3].ind = FALSE]
              [] Op(acc, id) = "move" /\ o3.ind /\ (o1.ind \/ IsConst(o1)) ->
                   UseLoaded(acc, id, 1, "move", o1)
              [] /\ Op(acc, id) \in {"add", "sub"}
                 /\ (IsPointerVar(o1) /\ o1.ind) \/ IsArrayVar(o1) ->
                   UseLoaded(acc, id, 1, "addr", o1)
              [] OTHER -> acc)

(* Dereferenced operands become loads and stores through a register.         *)
Direct(o) == [o EXCEPT !.ind = FALSE]

PointerArgs(l, id) ==
    Uses(l, id, LAMBDA acc, i :
            LET o == acc.node[id].args[i]
            IN  IF o.ind THEN ArgLoaded(acc, id, i, "reg_load", Direct(o)) ELSE acc,
         NumArgs(l, id))

PointerUses(l, id) ==
    Uses(l, id, LAMBDA acc, i :
            LET o == O(acc, id, i)
            IN  IF o.ind THEN UseLoaded(acc, id, i, "reg_load", Direct(o)) ELSE acc,
         2)

Memory == {"stack_load", "heap_load", "reg_load", "stack_store", "heap_store",
           "reg_store", "stack_addr", "heap_addr"}

mir_munge_pointers(l) ==
    Sweep(l, LAMBDA acc, id :
        LET o1 == O(acc, id, 1)
            o3 == O(acc, id, 3)
        IN  CASE Op(acc, id) \in Memory -> acc
              [] Op(acc, id) = "call" ->
                   PointerArgs(SetOperand(acc, id, 1, Direct(o1)), id)
              [] Op(acc, id) = "addr" ->
                   IF o1.ind
                     THEN [acc EXCEPT !.node[id].op = "reg_load",
                                      !.node[id].o[1].ind = FALSE]
                     ELSE [acc EXCEPT !.node[id].op = "stack_addr",
                                      !.node[id].o[1] = mir_const(OffsetOf[o1.v])]
              [] Op(acc, id) = "move" ->
                   IF o1.ind THEN UseLoaded(acc, id, 1, "reg_load", Direct(o1))
                   ELSE IF o3.ind
                     THEN [acc EXCEPT !.node[id].op = "reg_store",
                                      !.node[id].o[3].ind = FALSE]
                   ELSE acc
              [] OTHER ->
                   LET l1 == PointerUses(acc, id)
                       reg == Temp(l1)
                   IN  IF ~o3.ind THEN l1
                       ELSE SetOperand(After(tr_alloc(l1), id,
                               Instr("reg_store", reg, None, Direct(o3))), id, 3, reg))

-----------------------------------------------------------------------------
(* A variable whose address was taken is kept on the stack: loaded before a  *)
(* use, stored behind a definition.  What defines it by an address or a load *)
(* is stored only; a call's result is not.  Globals are gone from operands   *)
(* by then, so what the code does for them does not come up.                 *)
Aliased(l, o) == IsVar(o) /\ o.v \in l.aliased

Addresses == {"addr", "stack_addr", "heap_addr"}
Loads == {"load", "stack_load", "heap_load"}
Stores == {"store", "stack_store", "heap_store"}

StackLoad(l, id, i, o) ==
    UseLoaded(l, id, i, "stack_load", mir_const(OffsetOf[o.v]))

SpillUses(l, id) ==
    Uses(l, id, LAMBDA acc, i :
            IF Aliased(acc, O(acc, id, i)) THEN StackLoad(acc, id, i, O(acc, id, i))
            ELSE acc, 2)

SpillArgs(l, id) ==
    Uses(l, id, LAMBDA acc, i :
            LET o == acc.node[id].args[i]
            IN  IF Aliased(acc, o)
                  THEN ArgLoaded(acc, id, i, "stack_load", mir_const(OffsetOf[o.v]))
                  ELSE acc,
         NumArgs(l, id))

SpillDef(l, id) ==
    LET o == O(l, id, 3)
    IN  IF Aliased(l, o)
          THEN After(l, id, Instr("stack_store", o, None, mir_const(OffsetOf[o.v])))
          ELSE l

mir_spill_may_aliases(l) ==
    Sweep(l, LAMBDA acc, id :
        CASE Op(acc, id) \in Addresses \cup Loads -> SpillDef(acc, id)
          [] Op(acc, id) \in Stores -> acc
          [] Op(acc, id) = "call" -> SpillArgs(acc, id)
          [] OTHER -> SpillDef(SpillUses(acc, id), id))

-----------------------------------------------------------------------------
(* Constants.                                                                *)

Folded(op, m, n) == IF op = "add" THEN m + n ELSE m * n

mir_fold_constants(l) ==
    Sweep(l, LAMBDA acc, id :
        IF Op(acc, id) \in {"add", "mul"} /\ IsConst(O(acc, id, 1))
             /\ IsConst(O(acc, id, 2))
          THEN [acc EXCEPT !.node[id].o =
                  << mir_const(Folded(Op(acc, id), @[1].v, @[2].v)), None, @[3] >>,
                           !.node[id].op = "move"]
          ELSE acc)

(* Mutant of mir_rhs_constants: ADD is left alone.                           *)
ConstantsOfSub(l) ==
    Sweep(l, LAMBDA acc, id :
        IF Op(acc, id) = "sub" /\ IsConst(O(acc, id, 1))
          THEN UseLoaded(acc, id, 1, "move", O(acc, id, 1)) ELSE acc)

(* A constant first operand of ADD and SUB; of MUL and IF it stays.          *)
mir_rhs_constants(l) ==
    Sweep(l, LAMBDA acc, id :
        CASE Op(acc, id) = "add" /\ IsConst(O(acc, id, 1)) ->
               [acc EXCEPT !.node[id].o = << @[2], @[1], @[3] >>]
          [] Op(acc, id) = "sub" /\ IsConst(O(acc, id, 1)) ->
               UseLoaded(acc, id, 1, "move", O(acc, id, 1))
          [] OTHER -> acc)

(* Constants among the arguments on the stack.  A jump to the call is not    *)
(* moved to the instruction that loads its argument.                         *)
mir_args_to_regs(l, first) ==
    Sweep(l, LAMBDA acc, id :
        IF Op(acc, id) # "call" THEN acc
        ELSE FoldLeft(LAMBDA a, i :
                LET o == a.node[id].args[i]
                IN  IF i <= first \/ ~IsConst(o) THEN a
                    ELSE [InsertAfter(tr_alloc(a), prev(a, id),
                                      Instr("move", o, None, Temp(a)))
                             EXCEPT !.node[id].args[i] = Temp(a)],
             acc, [i \in 1 .. NumArgs(acc, id) |-> i]))
=============================================================================
