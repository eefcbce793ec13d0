-------------------------------- MODULE Trees --------------------------------
(* The abstract syntax tree (ast.c) and the two passes over it that come     *)
(* before type checking.  A node is a record: its kind, a name for the leaf  *)
(* of an identifier, a number for the leaf of a constant, the children and   *)
(* the type signature that type checking gives it.                           *)
EXTENDS Integers, Sequences, FiniteSets, TypeSigs

Node(k, c) == [k |-> k, name |-> "", num |-> 0, c |-> c, t |-> NoSig]
Id(x) == [Node("id", <<>>) EXCEPT !.name = x]
Num(n) == [Node("num", <<>>) EXCEPT !.num = n]

IsLeaf(t) == t.k \in {"id", "num"}

RECURSIVE Subtrees(_)
Subtrees(t) == {t} \cup UNION {Subtrees(t.c[i]) : i \in DOMAIN t.c}

Kinds(t) == {s.k : s \in Subtrees(t)}

(* mk_node(NODE_POINTER) over mk_node(NODE_ADD), for one index after the     *)
(* other.                                                                    *)
Indexed(array) ==
    FoldLeft(LAMBDA base, i : Node("pointer", <<Node("add", <<base, i>>)>>),
             array.c[1], Tail(array.c))

(* a[i] becomes *(a + i), everywhere but in declarations.                    *)
RECURSIVE munge_array_indicies(_)
munge_array_indicies(t) ==
    IF IsLeaf(t) \/ t.k = "decl" THEN t
    ELSE [t EXCEPT !.c = [i \in DOMAIN t.c |->
             munge_array_indicies(IF t.c[i].k = "array" THEN Indexed(t.c[i])
                                                        ELSE t.c[i])]]

(* & over * and * over &.  The operand of the second has to be looked at     *)
(* again: it may be one of a pair as well.                                   *)
Cancels(t) ==
    /\ ~IsLeaf(t) /\ t.c # <<>> /\ ~IsLeaf(t.c[1])
    /\ \/ t.k = "address" /\ t.c[1].k = "pointer"
       \/ t.k = "pointer" /\ t.c[1].k = "address"

RECURSIVE Cancelled(_)
Cancelled(t) == IF Cancels(t) THEN Cancelled(t.c[1].c[1]) ELSE t

RECURSIVE munge_duplicate_unaries(_)
munge_duplicate_unaries(t) ==
    IF IsLeaf(t) THEN t
    ELSE [t EXCEPT !.c = [i \in DOMAIN t.c |->
             munge_duplicate_unaries(Cancelled(t.c[i]))]]
=============================================================================
