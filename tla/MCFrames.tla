------------------------------ MODULE MCFrames ------------------------------
(* Two functions besides the entry point, to be inlined or not, in each      *)
(* other or in it; every kind of history storage, a struct in a struct, and  *)
(* pointers.                                                                 *)
EXTENDS Frames

CONSTANTS main, f, g

MCSymmetry == Permutations({f, g})

MCUTypes == << << Sig("member", <<IntType>>),
                  Sig("member", <<Array(2), IntType>>) >>,
               << Sig("member", <<Struct(1)>>),
                  Sig("member", <<Pointer, CharType>>) >> >>

Ptr == [op |-> "pointer"]
Dim(ds) == [op |-> "array", dims |-> ds]
Hist(d) == [op |-> "history", depth |-> d]

MCTypes == {
    create_type_signature("variable", IntType, <<Hist(2)>>),
    create_type_signature("variable", IntType, <<Hist(2), Dim(<<3>>)>>),
    create_type_signature("variable", IntType, <<Dim(<<3>>), Hist(2)>>),
    create_type_signature("user", Struct(2), <<>>) }

MCOptions == { [history_simple_depth |-> 0, order_d |-> FALSE],
               [history_simple_depth |-> 3, order_d |-> TRUE] }

MCArgTypes == {
    create_type_signature("argument", CharType, <<Ptr, Dim(<<2>>)>>) }
=============================================================================
