----------------------------- MODULE RegColour -----------------------------
(***************************************************************************)
(* The colouring of the interference graph (regalloc.c): ig_prune takes    *)
(* the graph apart, pushing nodes on a stack, and assign_regs puts it      *)
(* together again in the opposite order, giving each node the lowest       *)
(* colour (hard register) its neighbours leave, or marking it for          *)
(* spilling.  The nodes are the symbolic registers 0 .. N - 1.             *)
(*                                                                         *)
(* The graph is taken apart in place: every node keeps the neighbours it   *)
(* still has (adj_node, with their number in num_adjs) and the ones that   *)
(* were disconnected (rem_node).                                           *)
(***************************************************************************)
EXTENDS Integers, Sequences, FiniteSets

CONSTANTS
  N,       \* graph->num_sym_regs
  NRegs,   \* the hard registers, nregs
  Costs    \* the spill costs compute_spill_costs may come up with

Node == 0 .. N - 1

ASSUME NAssumption == N \in Nat
\* The option that sets the number of registers is not validated; with none
\* the division by num_adjs and the list of used colours go wrong.
ASSUME NRegsAssumption == NRegs \in Nat \ {0}
ASSUME CostsAssumption == Costs \subseteq Nat

VARIABLES
  links,      \* the interference graph; no step changes it
  spill_cost,
  pc,         \* "scan" and "choose" in ig_prune, "pop" in assign_regs,
              \* "done", or "failed" once compiler_error has ended the run
  i,          \* the loop of the degree < R rule
  finished,   \* has this pass of it pushed nothing
  adj, rem, num_adjs,
  on_stack,   \* the nodes whose on_stack is 1
  stack,      \* stack[0 .. sp - 1], the top last
  colour,     \* 0 for none
  spill,      \* the nodes marked for spilling
  low         \* (not in the code) the nodes the degree < R rule has pushed

given == <<links, spill_cost>>
graph == <<adj, rem, num_adjs>>
vars == <<given, pc, i, finished, graph, on_stack, stack, colour, spill, low>>

\* What ig_add_link can build: symmetric, no node linked to itself.
Graphs == {g \in [Node -> SUBSET Node] :
             \A a, b \in Node : a \notin g[a] /\ (a \in g[b] <=> b \in g[a])}

\* build_adj_lists, and the start of ig_prune
Init ==
  /\ links \in Graphs
  /\ spill_cost \in [Node -> Costs]
  /\ pc = "scan" /\ i = 0 /\ finished = TRUE
  /\ adj = links
  /\ rem = [n \in Node |-> {}]
  /\ num_adjs = [n \in Node |-> Cardinality(links[n])]
  /\ on_stack = {} /\ stack = <<>>
  /\ colour = [n \in Node |-> 0] /\ spill = {} /\ low = {}

----------------------------------------------------------------------------
(* Taking the graph apart *)

\* Mistake: the neighbours' counters are left alone.
AdjustNoCount(node) ==
  /\ adj' = [n \in Node |-> IF n = node THEN {} ELSE adj[n] \ {node}]
  /\ rem' = [n \in Node |-> IF n = node THEN rem[n] \cup adj[n]
                            ELSE rem[n] \cup (adj[n] \cap {node})]
  /\ num_adjs' = [num_adjs EXCEPT ![node] = @ - Cardinality(adj[node])]

\* Mistake: the counters go down twice as fast.
AdjustCountTwice(node) ==
  /\ adj' = [n \in Node |-> IF n = node THEN {} ELSE adj[n] \ {node}]
  /\ rem' = [n \in Node |-> IF n = node THEN rem[n] \cup adj[n]
                            ELSE rem[n] \cup (adj[n] \cap {node})]
  /\ num_adjs' = [n \in Node |->
       IF n = node THEN num_adjs[n] - Cardinality(adj[n])
       ELSE IF node \in adj[n] THEN num_adjs[n] - 2 ELSE num_adjs[n]]

adjust_neighbours(node) ==
  /\ adj' = [n \in Node |-> IF n = node THEN {} ELSE adj[n] \ {node}]
  /\ rem' = [n \in Node |-> IF n = node THEN rem[n] \cup adj[n]
                            ELSE rem[n] \cup (adj[n] \cap {node})]
  /\ num_adjs' = [n \in Node |->
       IF n = node THEN num_adjs[n] - Cardinality(adj[n])
       ELSE IF node \in adj[n] THEN num_adjs[n] - 1 ELSE num_adjs[n]]

PushNode(node) ==
  /\ on_stack' = on_stack \cup {node}
  /\ stack' = Append(stack, node)
  /\ adjust_neighbours(node)

\* One round of the for loop that applies the degree < R rule
LowDegree(n) == n \notin on_stack /\ num_adjs[n] < NRegs

ScanPush ==
  /\ pc = "scan" /\ i < N /\ LowDegree(i)
  /\ PushNode(i)
  /\ finished' = FALSE
  /\ low' = low \cup {i}
  /\ i' = i + 1
  /\ UNCHANGED <<given, pc, colour, spill>>

ScanSkip ==
  /\ pc = "scan" /\ i < N /\ ~LowDegree(i)
  /\ i' = i + 1
  /\ UNCHANGED <<given, pc, finished, graph, on_stack, stack, colour, spill, low>>

\* Mistake: passes are made for as long as a node is left.
PassWhileNodesLeft ==
  /\ pc = "scan" /\ i = N
  /\ pc' = IF ~finished \/ Node \ on_stack # {} THEN "scan" ELSE "pop"
  /\ i' = 0 /\ finished' = TRUE
  /\ UNCHANGED <<given, graph, on_stack, stack, colour, spill, low>>

\* The end of a pass: another one if this one pushed a node, else on to the
\* choice of a spill candidate, or to assign_regs when no node is left
ScanPassEnd ==
  /\ pc = "scan" /\ i = N
  /\ pc' = IF ~finished THEN "scan"
           ELSE IF Node \ on_stack = {} THEN "pop" ELSE "choose"
  /\ i' = 0 /\ finished' = TRUE
  /\ UNCHANGED <<given, graph, on_stack, stack, colour, spill, low>>

\* The node that the code's search ends with: of the nodes that cost something
\* to spill, the first with the least cost per neighbour, if below 100
Ratio(n) == spill_cost[n] \div num_adjs[n]

Spillable == {n \in Node \ on_stack : spill_cost[n] > 0 /\ Ratio(n) < 100}

IsSpillNode(n) ==
  /\ n \in Spillable
  /\ \A o \in Spillable : Ratio(n) < Ratio(o) \/ (Ratio(n) = Ratio(o) /\ n <= o)

ChooseSpill ==
  /\ pc = "choose"
  /\ \E n \in Node : IsSpillNode(n) /\ PushNode(n)
  /\ pc' = "scan"
  /\ UNCHANGED <<given, i, finished, colour, spill, low>>

\* "Failed to find spillable node for regalloc"
ChooseFails ==
  /\ pc = "choose" /\ Spillable = {}
  /\ pc' = "failed"
  /\ UNCHANGED <<given, i, finished, graph, on_stack, stack, colour, spill, low>>

----------------------------------------------------------------------------
(* Putting it together again *)

\* Mistake: the last colour is never given out.
LastColourLost(used) ==
  LET gaps == {c \in 1 .. Cardinality(used) : c \notin used} IN
  IF gaps # {} THEN CHOOSE c \in gaps : \A d \in gaps : c <= d
  ELSE IF Cardinality(used) + 1 < NRegs THEN Cardinality(used) + 1 ELSE 0

\* Mistake: the gaps between the used colours are not looked at.
NoGaps(used) ==
  IF Cardinality(used) < NRegs THEN Cardinality(used) + 1 ELSE 0

\* min_colour: the first gap of the sorted used colours, else the next colour
\* if there is one, else 0
min_colour(used) ==
  LET gaps == {c \in 1 .. Cardinality(used) : c \notin used} IN
  IF gaps # {} THEN CHOOSE c \in gaps : \A d \in gaps : c <= d
  ELSE IF Cardinality(used) < NRegs THEN Cardinality(used) + 1 ELSE 0

UsedColours(nodes) == {colour[m] : m \in nodes} \ {0}

\* The loop of assign_regs reconnects the popped node with the nodes that are
\* not on the stack; on_stack of the node itself is already 0.
Reconnect(node) ==
  LET up == Node \ (on_stack \ {node})
      Back(n) == IF n = node THEN rem[n] \cap up
                 ELSE IF n \in up THEN rem[n] \cap {node} ELSE {} IN
  /\ adj' = [n \in Node |-> adj[n] \cup Back(n)]
  /\ rem' = [n \in Node |-> rem[n] \ Back(n)]
  /\ num_adjs' = [n \in Node |-> num_adjs[n] + Cardinality(Back(n))]

\* The popped node gets its colour, or is marked for spilling.
AssignColour(node, c) ==
  /\ colour' = [colour EXCEPT ![node] = IF c > 0 THEN c ELSE @]
  /\ spill' = IF c > 0 THEN spill \ {node} ELSE spill \cup {node}

Pop ==
  /\ pc = "pop" /\ stack # <<>>
  /\ LET node == stack[Len(stack)] IN
       /\ stack' = SubSeq(stack, 1, Len(stack) - 1)
       /\ on_stack' = on_stack \ {node}
       /\ Reconnect(node)
       /\ AssignColour(node, min_colour(UsedColours(adj'[node])))
  /\ UNCHANGED <<given, pc, i, finished, low>>

PopDone ==
  /\ pc = "pop" /\ stack = <<>>
  /\ pc' = "done"
  /\ UNCHANGED <<given, i, finished, graph, on_stack, stack, colour, spill, low>>

Next ==
  \/ ScanPush \/ ScanSkip \/ ScanPassEnd \/ ChooseSpill \/ ChooseFails
  \/ Pop \/ PopDone

Spec == Init /\ [][Next]_vars

\* One thread runs the loops to their end.
FairSpec == Spec /\ WF_vars(Next)

----------------------------------------------------------------------------
(* Properties *)

TypeOK ==
  /\ links \in Graphs
  /\ spill_cost \in [Node -> Costs]
  /\ pc \in {"scan", "choose", "pop", "done", "failed"}
  /\ i \in 0..N
  /\ finished \in BOOLEAN
  /\ adj \in [Node -> SUBSET Node]
  /\ rem \in [Node -> SUBSET Node]
  /\ num_adjs \in [Node -> Nat]
  /\ on_stack \in SUBSET Node
  /\ stack \in Seq(Node)
  /\ colour \in [Node -> 0..NRegs]
  /\ spill \in SUBSET Node
  /\ low \in SUBSET Node

\* Through all the disconnecting and reconnecting no edge is lost or made up:
\* a node off the stack has as neighbours those of its links that are off the
\* stack, a node on it has none, the rest are in its removed list, and num_adjs
\* counts the neighbours.  The stack holds each node at most once, so it never
\* outgrows the num_sym_regs words allocated for it.
GraphKept ==
  /\ \A n \in Node :
       /\ adj[n] = IF n \in on_stack THEN {} ELSE links[n] \ on_stack
       /\ rem[n] = links[n] \ adj[n]
       /\ num_adjs[n] = Cardinality(adj[n])
  /\ on_stack = {stack[p] : p \in DOMAIN stack}
  /\ Len(stack) = Cardinality(on_stack)

\* Two symbolic registers that interfere never share a hard register.
ProperColouring ==
  \A a, b \in Node :
    b \in links[a] /\ colour[a] # 0 => colour[a] # colour[b]

\* A node pushed by the degree < R rule always finds a colour, whatever was
\* pushed after it and whichever of those had to be spilled.
LowDegreeNeverSpilled == low \cap spill = {}

\* A node is spilled only if its neighbours occupy every hard register, and at
\* the end every node that is not spilled has one.
SpillsNeeded ==
  /\ \A n \in spill : 1..NRegs \subseteq {colour[m] : m \in links[n]}
  /\ pc = "done" => \A n \in Node \ spill : colour[n] # 0

\* ig_prune and assign_regs come to an end.
Terminates == <>(pc \in {"done", "failed"})
============================================================================
