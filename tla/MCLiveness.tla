----------------------------- MODULE MCLiveness -----------------------------
(* Small instances of Liveness. *)
EXTENDS Liveness

Ins(op, src, dst, args, jump) ==
  [op |-> op, src |-> src, dst |-> dst, args |-> args, jump |-> jump]

One == CHOOSE v \in Vars : TRUE

\* A constant or another variable is moved to a variable; a call without
\* arguments or with all variables; a store through a variable and a load of a
\* global; jumps to any node: on variables, on a constant and unconditional.
Choice ==
  {Ins("op", src, v, {}, Exit) : src \in {{}, {One}}, v \in Vars}
    \cup {Ins("call", {}, None, args, Exit) : args \in {{}, Vars}}
    \cup {Ins(op, Vars \ {One}, One, {}, Exit) : op \in {"reg_store", "heap_load"}}
    \cup {Ins("if", src, None, {}, t) : src \in {{}, Vars}, t \in 1 .. Exit}
    \cup {Ins("jump", {}, None, {}, t) : t \in 1 .. Exit}
=============================================================================
