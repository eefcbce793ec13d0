------------------------------ MODULE TypeCheck ------------------------------
(* The type checker (typechk.c): every node of the tree gets a signature, an *)
(* error makes the signature of the node RejectedSig, and a history variable *)
(* that is read gets a history node above it.  Nodes of the program may      *)
(* share one signature object, so that a change of the parent's is one of    *)
(* the child's as well.  Names are unique in the programs: Frames has what   *)
(* happens when they are not.                                                *)
EXTENDS Programs

Rejected(t) == \E s \in Subtrees(t) : s.t.decl = "error"

(* The way down to a node: the function, the kind of the parent, whether     *)
(* there is a call above it, and which child of the closest assignment above *)
(* it is, counted from 0 (child_number), -1 without one.                     *)
Way(f) == [func |-> f, parent |-> "func", call |-> FALSE, side |-> -1]

(* Mutant of Down: the children of an assignment are counted from 1.         *)
DownCountedFrom1(w, t, i) ==
    [w EXCEPT !.parent = t.k,
              !.call = @ \/ t.k = "call",
              !.side = IF t.k = "becomes" THEN i ELSE @]

Down(w, t, i) ==
    [w EXCEPT !.parent = t.k,
              !.call = @ \/ t.k = "call",
              !.side = IF t.k = "becomes" THEN i - 1 ELSE @]

Typed(t, sig) == [t EXCEPT !.t = sig]
(* The node and its first child share the signature.                         *)
Shared(t, sig) == [t EXCEPT !.t = sig, !.c[1].t = sig]

(* The array's address, for an array; a pointer stays what it is.            *)
PointerTo(t) ==
    LET u == IF is_array_type(t)
               THEN add_to_type_sig(remove_type_from_sig(t, "array"), Address)
               ELSE t
    IN  [u EXCEPT !.decl = "lvalue"]

IsPointing(t) == is_array_type(t) \/ is_address_type(t)
IsInteger(t) == ~IsPointing(t) /\ t.s = <<IntType>>

result_type(t, u, op) ==
    IF Len(t.s) = 1 /\ Len(u.s) = 1 THEN Sig("rvalue", t.s)
    ELSE IF op = "becomes" THEN t
    ELSE [t EXCEPT !.decl = "rvalue"]

type_check_add(t) ==
    LET a == t.c[1].t
        b == t.c[2].t
    IN  IF IsPointing(a)
          THEN Typed(t, IF IsInteger(b) THEN PointerTo(a) ELSE RejectedSig)
        ELSE IF IsPointing(b)
          THEN Typed(t, IF IsInteger(a) THEN PointerTo(b) ELSE RejectedSig)
        ELSE Typed(t, result_type(a, b, "add"))

type_check_dereference(t) ==
    LET a == t.c[1].t
    IN  Typed(t, IF IsPointing(a) THEN remove_type_from_sig(a, "address")
                                  ELSE RejectedSig)

type_check_address_of(t) ==
    LET a == t.c[1].t
    IN  IF a.decl \in {"constant", "rvalue"} \/ t.c[1].k = "address"
          THEN Typed(t, RejectedSig)
          ELSE Shared(t, [add_to_type_sig(a, Address) EXCEPT !.decl = "lvalue"])

(* By-reference arguments lose the history type; then the types have to be   *)
(* those of the declaration.  The call has the type of its function.         *)
(* Nothing counts the arguments; here there are as many as declared.         *)
ArgumentType(a, expected) ==
    IF is_history_type(a) /\ is_address_type(expected)
      THEN remove_type_from_sig(a, "history") ELSE a

type_check_call(t) ==
    LET f == t.c[1].name
        given(i) == ArgumentType(t.c[i + 1].t, DeclOf[ArgsOf[f][i]])
        fits == \A i \in DOMAIN ArgsOf[f] :
                   compare_type_sigs(given(i), DeclOf[ArgsOf[f][i]])
    IN  IF ~fits THEN Typed(t, RejectedSig)
        ELSE [t EXCEPT !.t = t.c[1].t,
                       !.c = [i \in DOMAIN @ |->
                                 IF i = 1 THEN @[i] ELSE Typed(@[i], given(i - 1))]]

type_check_return(t, w) ==
    IF DeclOf[w.func].s = <<VoidType>> THEN Typed(t, RejectedSig)
    ELSE Shared(t, t.c[1].t)

(* A leaf under a history node: both have the type without the history.      *)
type_check_history(t) ==
    Shared(t, remove_type_from_sig(t.c[1].t, "history"))

munge_history(leaf) ==
    Node("history", << leaf, Typed(Num(0), Sig("constant", <<IntType>>)) >>)

NeedsHistory(sig, w) ==
    /\ is_history_type(sig)
    /\ w.parent \notin {"history", "address"}
    /\ w.call \/ w.side = 1

type_check_leaf(t, w) ==
    LET leaf == Typed(t, IF t.k = "num" THEN Sig("constant", <<IntType>>)
                                        ELSE type_sign_var(DeclOf[t.name]))
    IN  IF NeedsHistory(leaf.t, w)
          THEN type_check_history(munge_history(leaf)) ELSE leaf

(* The children first; the second child of a history node is left alone.     *)
RECURSIVE type_check_node(_, _)
type_check_node(t, w) ==
    IF IsLeaf(t) THEN type_check_leaf(t, w)
    ELSE LET u == [t EXCEPT !.c = [i \in DOMAIN t.c |->
                      IF t.k = "history" /\ i = 2 THEN t.c[i]
                      ELSE type_check_node(t.c[i], Down(w, t, i))]]
         IN  CASE u.k = "add" -> type_check_add(u)
               [] u.k = "becomes" ->
                    Typed(u, result_type(u.c[1].t, u.c[2].t, "becomes"))
               [] u.k = "pointer" -> type_check_dereference(u)
               [] u.k = "address" -> type_check_address_of(u)
               [] u.k = "history" -> type_check_history(u)
               [] u.k = "call" -> type_check_call(u)
               [] u.k = "return" -> type_check_return(u, w)
               [] u.k = "block" -> u
               [] OTHER -> Shared(u, u.c[1].t)
=============================================================================
