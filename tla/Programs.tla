------------------------------- MODULE Programs -------------------------------
(* The declarations of the programs that are compiled: what the declaration  *)
(* pass leaves in the name tables and scopes, see Frames.                    *)
EXTENDS Trees

CONSTANTS
    DeclOf,     \* the declared signature of every variable and function
    ArgsOf,     \* for each function, the names of its arguments
    BodyOf,     \* and its body
    Globals,    \* names of the global variables
    AddressOf,  \* their places in the data segment
    OffsetOf    \* the place of a local variable in the frame

ASSUME ProgramsAssumption ==
    /\ DOMAIN ArgsOf = DOMAIN BodyOf
    /\ DOMAIN ArgsOf \subseteq DOMAIN DeclOf
    /\ \A x, y \in DOMAIN OffsetOf : OffsetOf[x] = OffsetOf[y] => x = y
=============================================================================
