------------------------------ MODULE TypeSigs ------------------------------
(* Type signatures, as typechk.c and symtable.c keep them.  A signature is a *)
(* kind of declaration and a list of elements from the outermost inwards,    *)
(* the base type last: int *p is <<pointer, int>>, int a<:2:>[3] is          *)
(* <<history 2, array 3, int>>.  A use of a variable has address where its   *)
(* declaration has pointer.  An element is a record: its kind and a number   *)
(* (the size of a dimension, the depth of a history, the index of a struct). *)
EXTENDS Integers, Sequences, FiniteSets, SequencesExt

CONSTANTS
    IC_SIZEOF_INT, IC_SIZEOF_CHAR, IC_SIZEOF_POINTER,  \* sizes in bytes
    UTypes                 \* the struct definitions: a sequence of sequences
                           \* of signatures, one for each member

ASSUME SizesAssumption ==
    /\ IC_SIZEOF_INT \in Nat \ {0}
    /\ IC_SIZEOF_CHAR \in 1 .. IC_SIZEOF_INT
    /\ IC_SIZEOF_POINTER \in 1 .. IC_SIZEOF_INT

Elem(k, n) == [k |-> k, n |-> n]
BaseKinds == {"void", "char", "string", "int", "utype"}
Elems == [k : BaseKinds \cup {"pointer", "address", "array", "history"}, n : Nat]
IntType == Elem("int", 0)
CharType == Elem("char", 0)
VoidType == Elem("void", 0)
Pointer == Elem("pointer", 0)
Address == Elem("address", 0)
Array(n) == Elem("array", n)
History(d) == Elem("history", d)
Struct(i) == Elem("utype", i)

Sig(decl, s) == [decl |-> decl, s |-> s]
RejectedSig == Sig("error", <<>>)
NoSig == Sig("none", <<>>)

Has(t, kinds) == \E i \in DOMAIN t.s : t.s[i].k \in kinds
Base(t) == Last(t.s)

is_array_type(t) == Has(t, {"array"})
is_address_type(t) == Has(t, {"address", "pointer"})
is_history_type(t) == Has(t, {"history"})
is_struct_type(t) == t.s # <<>> /\ Base(t).k = "utype"
is_primitive(t) ==
    /\ t.decl # "user"
    /\ \/ Len(t.s) = 1
       \/ Len(t.s) = 2 /\ t.s[1].k = "address"

(* The position of the leftmost element of one of the kinds, 0 for none.     *)
Leftmost(s, kinds) ==
    LET found == {i \in DOMAIN s : s[i].k \in kinds}
    IN  IF found = {} THEN 0
        ELSE CHOOSE i \in found : \A j \in found : i <= j

history_array_type(t) ==
    LET i == Leftmost(t.s, {"history"})
    IN  IF i = 0 THEN "none"
        ELSE IF i > 1 /\ t.s[i - 1].k = "array" THEN "index_wise"
        ELSE "array_wise"

get_history_depth(t) ==
    LET i == Leftmost(t.s, {"history"}) IN IF i = 0 THEN 0 ELSE t.s[i].n

(* The sum and the product of a list of numbers.                             *)
Total(ns) ==
    LET sum[i \in {0} \cup DOMAIN ns] == IF i = 0 THEN 0 ELSE sum[i - 1] + ns[i]
    IN  sum[Len(ns)]
Product(ns) ==
    LET prod[i \in 0 .. Len(ns)] == IF i = 0 THEN 1 ELSE prod[i - 1] * ns[i]
    IN  prod[Len(ns)]

(* The sizes of the dimensions, with neutral where there is no dimension.    *)
Extents(t, neutral) ==
    [i \in DOMAIN t.s |-> IF t.s[i].k = "array" THEN t.s[i].n ELSE neutral]
get_num_dimensions(t) == Cardinality({i \in DOMAIN t.s : t.s[i].k = "array"})

(* The sum of the dimensions, not their product.                             *)
get_num_elements(t) == Total(Extents(t, 0))

(* Mutant of compare_type_sigs: the base types are compared only.            *)
BaseTypesAgree(t, u) == Base(t) = Base(u)

(* POINTER stands for ADDRESS and the other way round.                       *)
compare_type_sigs(t, u) ==
    /\ Len(t.s) = Len(u.s)
    /\ \A i \in DOMAIN t.s :
          \/ t.s[i] = u.s[i]
          \/ {t.s[i].k, u.s[i].k} = {"address", "pointer"}

(* ADDRESS removes a POINTER as well; there is an error if none is found.    *)
remove_type_from_sig(t, kind) ==
    LET i == Leftmost(t.s, IF kind = "address" THEN {"address", "pointer"}
                                               ELSE {kind})
    IN  IF i = 0 THEN RejectedSig ELSE [t EXCEPT !.s = RemoveAt(t.s, i)]

add_to_type_sig(t, e) == [t EXCEPT !.s = <<e>> \o t.s]

(* The type of a use of a variable: POINTER becomes ADDRESS, and a type with *)
(* an address in it is an lvalue at once.                                    *)
type_sign_var(t) ==
    LET u == [t EXCEPT !.s = [i \in DOMAIN t.s |->
                   IF t.s[i].k = "pointer" THEN Address ELSE t.s[i]]]
    IN  IF is_address_type(u) THEN [u EXCEPT !.decl = "lvalue"] ELSE u

(* A declarator as the parser builds it: the operators from the name's       *)
(* outermost inwards; an array has all its dimensions in one operator.  The  *)
(* signature has an element for each dimension.                              *)
create_type_signature(decl, base, declarator) ==
    Sig(decl, FlattenSeq([i \in DOMAIN declarator |->
                 IF declarator[i].op = "array"
                   THEN [j \in DOMAIN declarator[i].dims |->
                            Array(declarator[i].dims[j])]
                 ELSE IF declarator[i].op = "history"
                   THEN <<History(declarator[i].depth)>>
                 ELSE <<Pointer>>]) \o <<base>>)

(* The types of what is added for a history variable.                        *)
create_ptr_to_type(decl, base, levels) ==
    Sig(decl, [i \in 1 .. levels |-> Pointer] \o <<base>>)
create_array_type(decl, base, size) == Sig(decl, <<Array(size), base>>)

-----------------------------------------------------------------------------
(* Sizes (symtable.c).                                                       *)

sizeof_primitive(e) ==
    CASE e.k = "void" -> -1
      [] e.k = "char" -> IC_SIZEOF_CHAR
      [] e.k = "string" -> IC_SIZEOF_POINTER
      [] OTHER -> IC_SIZEOF_INT

(* The size of the base type times all dimensions, whatever is in between.   *)
sizeof_array(t) == sizeof_primitive(Base(t)) * Product(Extents(t, 1))

(* The size of a type that is not a struct.                                  *)
PlainSize(t) ==
    IF is_primitive(t) /\ ~is_struct_type(t) THEN sizeof_primitive(Base(t))
    ELSE IF is_array_type(t) THEN sizeof_array(t)
    ELSE IF t.decl = "function" THEN 0
    ELSE IF t.s[1].k = "pointer" THEN IC_SIZEOF_POINTER
    ELSE IC_SIZEOF_INT

IsPlain(t) == \/ ~is_struct_type(t)
              \/ is_array_type(t)
              \/ t.s[1].k = "pointer"

(* A type that storage can be kept for: it ends with a base type.  The size  *)
(* of void is -1: void is pointed to and no more.  A history of arrays       *)
(* counts one array less than its depth.                                     *)
IsSized(t) ==
    /\ t.s \in Seq(Elems) \ {<<>>}
    /\ Base(t).k \in BaseKinds
    /\ Base(t).k = "void" =>
          t.s[1].k = "pointer" /\ ~is_array_type(t) /\ ~is_history_type(t)
    /\ is_history_type(t) => get_history_depth(t) > 0

(* A struct has members of structs that were defined before.                 *)
ASSUME UTypesAssumption ==
    /\ UTypes \in Seq(Seq([decl : STRING, s : Seq(Elems)]))
    /\ \A i \in DOMAIN UTypes : \A j \in DOMAIN UTypes[i] :
          LET m == UTypes[i][j]
          IN  IsSized(m) /\ (~IsPlain(m) => Base(m).n \in 1 .. i - 1)

(* Mutant of HistoryBytes: the elements of an array are counted as bytes.    *)
HistoryElements(t, size) ==
    IF ~is_history_type(t) THEN 0
    ELSE IF is_array_type(t) THEN get_num_elements(t) * (get_history_depth(t) - 1)
    ELSE get_history_depth(t) * size

(* What history storage adds to a type of the given size.  For an array the  *)
(* current values are one of the depth arrays.                               *)
HistoryBytes(t, size) ==
    IF ~is_history_type(t) THEN 0
    ELSE IF is_array_type(t)
      THEN get_num_elements(t) * sizeof_primitive(Base(t))
             * (get_history_depth(t) - 1)
    ELSE get_history_depth(t) * size

(* A struct has the sizes of its members, one after the other; a member can  *)
(* be a struct defined before.                                               *)
StructSize[i \in DOMAIN UTypes] ==
    Total([j \in DOMAIN UTypes[i] |->
              LET m == UTypes[i][j]
                  size == IF IsPlain(m) THEN PlainSize(m)
                                        ELSE StructSize[Base(m).n]
              IN  size + HistoryBytes(m, size)])

sizeof_utype(t) == StructSize[Base(t).n]
sizeof_type(t) == IF IsPlain(t) THEN PlainSize(t) ELSE sizeof_utype(t)
sizeof_history(t) == HistoryBytes(t, sizeof_type(t))
entry_size(t) == sizeof_type(t) + sizeof_history(t)
=============================================================================
