------------------------------ MODULE Liveness ------------------------------
(***************************************************************************)
(* The analysis that the register allocator stands on: the control flow    *)
(* graph of one function's MIR code, the variables each node defines and   *)
(* uses, the variables live before and after it (mir_cfg.c), and the       *)
(* interference graph made of them (ig_build_graph of regalloc.c).         *)
(*                                                                         *)
(* mcfg_calculate_liveness walks the graph backwards from the exit node,   *)
(* depth first, again and again until a walk reports no change.  A frame   *)
(* of the recursion of liveness_at_node is a node with the predecessors    *)
(* it has yet to visit.  They are taken in any order: the arrays are in    *)
(* code order at first, and shuffled by mcfg_adjust_edge when spill code   *)
(* is inserted.                                                            *)
(***************************************************************************)
EXTENDS Integers, Sequences

CONSTANTS
  N,      \* the nodes of the function, mir instructions 0 .. N - 1
  Vars,   \* the variables and temporaries that occur as operands
  None,   \* an operand that is absent, a constant or the name of a function
  Instrs  \* the instructions a function body may be made of

Node  == 0 .. N - 1
Entry == 0
Exit  == N - 1

\* The operations are told apart as far as the analysis does: "op" is any
\* instruction that computes operand[2] from the first two operands.
Instr == [op   : {"op", "call", "heap_load", "reg_store", "heap_store", "if", "jump"},
          src  : SUBSET Vars,           \* operand[0] and operand[1]
          dst  : Vars \cup {None},      \* operand[2]
          args : SUBSET Vars,           \* the arguments of a call
          jump : Node]                  \* the target of an if or a jump

ASSUME NAssumption == N \in Nat /\ N >= 2
ASSUME NoneAssumption == None \notin Vars
ASSUME InstrsAssumption == Instrs \subseteq Instr

VARIABLES
  code,     \* the function; no step changes it
  live,     \* (not in the code) the nodes each variable is live before
  pc,       \* "pass" between two walks, "walk", "done", then "built"
  in, out,
  visited,
  stack,    \* the active calls of liveness_at_node, the innermost last
  changed,  \* has this walk reported a change
  again,    \* (not in the code) is this walk not the first
  links     \* the interference graph

sets == <<in, out, visited, stack, changed>>
given == <<code, live>>
vars == <<given, pc, sets, again, links>>

\* MIR_LABEL and MIR_END, the nodes FUNC_ENTRY and FUNC_EXIT
Frame == [op |-> "op", src |-> {}, dst |-> None, args |-> {}, jump |-> Exit]

----------------------------------------------------------------------------
(* The control flow graph *)

\* The edges mcfg_build_func adds.  A return is an ordinary statement.
Succ(n) ==
  IF n = Exit THEN {}
  ELSE {m \in Node : \/ m = n + 1 /\ code[n].op # "jump"
                     \/ m = code[n].jump /\ code[n].op \in {"if", "jump"}}

Pred(n) == {m \in Node : n \in Succ(m)}

\* The parser only makes loops that are left through their test.
ReachesExit ==
  \A S \in SUBSET Node :
    Exit \in S /\ (\A n \in Node : Succ(n) \cap S # {} => n \in S) => S = Node

\* mcfg_build_defuse: a store through a register changes what it points at and
\* not the register.
Def(n) ==
  IF code[n].op \in {"reg_store", "heap_store"} THEN {} ELSE {code[n].dst} \ {None}

\* Mistake: all three operands of an instruction are uses, constants included.
UseAnyOperand(n) ==
  IF code[n].op = "call" THEN code[n].args ELSE code[n].src \cup {code[n].dst}

\* What a heap load names is memory.
Use(n) ==
  LET c == code[n] IN
  IF c.op = "call" THEN c.args
  ELSE {v \in Vars : \/ v \in c.src /\ c.op # "heap_load"
                     \/ v = c.dst /\ c.op = "reg_store"}

\* What it is for a variable to be live, without an algorithm: the nodes with
\* v live before them are the fewest that have v if they use it, or if v is
\* live before a successor and they do not define it.
Closed(v, S) ==
  \A n \in Node :
    v \in Use(n) \/ (v \notin Def(n) /\ Succ(n) \cap S # {}) => n \in S

LiveBefore(v) == {n \in Node : \A S \in SUBSET Node : Closed(v, S) => n \in S}

Init ==
  /\ \E body \in [1 .. N - 2 -> Instrs] :
       code = [n \in Node |-> IF n \in {Entry, Exit} THEN Frame ELSE body[n]]
  /\ ReachesExit
  /\ live = [v \in Vars |-> LiveBefore(v)]
  /\ pc = "pass"
  /\ in = [n \in Node |-> {}] /\ out = [n \in Node |-> {}]
  /\ visited = {} /\ stack = <<>> /\ changed = FALSE /\ again = FALSE
  /\ links = {}

----------------------------------------------------------------------------
(* liveness_at_node *)

\* Mistake: a definition does not end the live range.
VisitNoKill(n, seen, rest, before) ==
  LET in1  == [in EXCEPT ![n] = @ \cup Use(n) \cup out[n]]
      out1 == out[n] \cup UNION {in1[s] : s \in Succ(n)} IN
  /\ in' = in1
  /\ out' = [out EXCEPT ![n] = out1]
  /\ changed' = (before \/ ~(out[n] \subseteq in[n] \cup Use(n)) \/ out1 # out[n])
  /\ visited' = seen \cup {n}
  /\ stack' = Append(rest, [node |-> n, todo |-> Pred(n)])

\* Mistake: the result of the calls for other nodes is lost.
VisitForgets(n, seen, rest, before) ==
  LET kept == out[n] \ Def(n)
      in1  == [in EXCEPT ![n] = @ \cup Use(n) \cup kept]
      out1 == out[n] \cup UNION {in1[s] : s \in Succ(n)} IN
  /\ in' = in1
  /\ out' = [out EXCEPT ![n] = out1]
  /\ changed' = (~(kept \subseteq in[n] \cup Use(n)) \/ out1 # out[n])
  /\ visited' = seen \cup {n}
  /\ stack' = Append(rest, [node |-> n, todo |-> Pred(n)])

\* The body up to the recursive calls, on a node that has not been visited.
\* The uses enter the in set without counting as a change; the variables of
\* the successors enter the out set after the out set was passed on.
Visit(n, seen, rest, before) ==
  LET kept == out[n] \ Def(n)
      in1  == [in EXCEPT ![n] = @ \cup Use(n) \cup kept]
      out1 == out[n] \cup UNION {in1[s] : s \in Succ(n)} IN
  /\ in' = in1
  /\ out' = [out EXCEPT ![n] = out1]
  /\ changed' = (before \/ ~(kept \subseteq in[n] \cup Use(n)) \/ out1 # out[n])
  /\ visited' = seen \cup {n}
  /\ stack' = Append(rest, [node |-> n, todo |-> Pred(n)])

\* The next round of the loop of mcfg_calculate_liveness
StartWalk ==
  /\ pc = "pass"
  /\ Visit(Exit, {}, <<>>, FALSE)
  /\ pc' = "walk"
  /\ UNCHANGED <<given, again, links>>

\* The call for a predecessor; one that has been visited returns at once.
Call(m) ==
  /\ pc = "walk" /\ stack # <<>> /\ m \in stack[Len(stack)].todo
  /\ LET caller == [stack EXCEPT ![Len(stack)].todo = @ \ {m}] IN
       IF m \in visited
         THEN stack' = caller /\ UNCHANGED <<in, out, visited, changed>>
         ELSE Visit(m, visited, caller, changed)
  /\ UNCHANGED <<given, pc, again, links>>

Return ==
  /\ pc = "walk" /\ stack # <<>> /\ stack[Len(stack)].todo = {}
  /\ stack' = SubSeq(stack, 1, Len(stack) - 1)
  /\ UNCHANGED <<given, pc, in, out, visited, changed, again, links>>

\* Mistake: one more walk is made for as long as anything is live.
WalkUntilNothingLive ==
  /\ pc = "walk" /\ stack = <<>>
  /\ pc' = IF changed \/ \E n \in Node : out[n] # {} THEN "pass" ELSE "done"
  /\ again' = (again \/ changed)
  /\ UNCHANGED <<given, sets, links>>

EndWalk ==
  /\ pc = "walk" /\ stack = <<>>
  /\ pc' = IF changed THEN "pass" ELSE "done"
  /\ again' = (again \/ changed)
  /\ UNCHANGED <<given, sets, links>>

----------------------------------------------------------------------------
(* ig_build_graph *)

Pairs(S, T) == {e \in {{a, b} : a \in S, b \in T} : \A v \in e : e # {v}}

\* Mistake: what a node writes is not linked to what is live after it.
BuildWithoutDefs ==
  /\ pc = "done"
  /\ links' = UNION {Pairs(out[n], out[n]) \cup Pairs(in[n], in[n]) : n \in Node}
  /\ pc' = "built"
  /\ UNCHANGED <<given, sets, again>>

ig_build_graph ==
  /\ pc = "done"
  /\ links' = UNION {Pairs(Def(n), out[n]) \cup Pairs(out[n], out[n])
                       \cup Pairs(in[n], in[n]) : n \in Node}
  /\ pc' = "built"
  /\ UNCHANGED <<given, sets, again>>

Next ==
  \/ StartWalk \/ (\E m \in Node : Call(m)) \/ Return \/ EndWalk
  \/ ig_build_graph

Spec == Init /\ [][Next]_vars

\* One thread runs the loops to their end.
FairSpec == Spec /\ WF_vars(Next)

----------------------------------------------------------------------------
(* Properties *)

TypeOK ==
  /\ code \in [Node -> Instrs \cup {Frame}]
  /\ live \in [Vars -> SUBSET Node]
  /\ pc \in {"pass", "walk", "done", "built"}
  /\ in \in [Node -> SUBSET Vars] /\ out \in [Node -> SUBSET Vars]
  /\ visited \in SUBSET Node
  /\ stack \in Seq([node : Node, todo : SUBSET Node])
  /\ changed \in BOOLEAN /\ again \in BOOLEAN
  /\ links \in SUBSET SUBSET Vars

LiveAfter(v) == {n \in Node : Succ(n) \cap live[v] # {}}

\* At no time does a set hold a variable that is not live there.
OnlyLive ==
  \A n \in Node :
    /\ \A v \in in[n] : n \in live[v]
    /\ \A v \in out[n] : n \in LiveAfter(v)

AllLive ==
  \A v \in Vars :
    /\ \A n \in live[v] : v \in in[n]
    /\ \A n \in LiveAfter(v) : v \in out[n]

\* When a second walk was made, the walk that reports no change has found every
\* live variable: nothing depends on the order in which the nodes were visited.
SecondWalkComplete == pc \in {"done", "built"} /\ again => AllLive

\* "Calculates the live in and out sets": whenever the loop ends they are all
\* there.
LivenessCalculated == pc \in {"done", "built"} => AllLive

\* A node that writes a variable never destroys another one that is still
\* needed, if the two were given one register: they are linked.
ClobbersLinked ==
  pc = "built" /\ again =>
    \A n \in Node, v, w \in Vars :
      v # w /\ w \in Def(n) /\ n \in LiveAfter(v) => {v, w} \in links

\* The loop of mcfg_calculate_liveness comes to an end.
Terminates == <>(pc = "built")
=============================================================================
