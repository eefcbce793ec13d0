-------------------------- MODULE RegColourProofs --------------------------
(***************************************************************************)
(* Proofs about RegColour, for every graph, every number of symbolic and   *)
(* of hard registers and all spill costs.                                  *)
(***************************************************************************)
EXTENDS RegColour, FiniteSetTheorems, SequenceTheorems, TLAPS

\* No node is on the stack twice.
StackInjective ==
  \A p, q \in DOMAIN stack : stack[p] = stack[q] => p = q

\* The nodes pushed before position p, which are popped after it.
Below(s, p) == {s[q] : q \in 1 .. p - 1}

\* What the degree < R rule knew when it pushed a node is still so: of the
\* neighbours, fewer than NRegs were off the stack then, and those are the ones
\* that will be back when the node is popped.
LowDegreeKept ==
  \A p \in DOMAIN stack :
    stack[p] \in low => Cardinality(links[stack[p]] \ Below(stack, p)) < NRegs

\* Nothing is coloured before ig_prune is done; afterwards the nodes on the
\* stack are those that assign_regs has not decided on.
Progress ==
  /\ pc \notin {"pop", "done"} => \A n \in Node : colour[n] = 0 /\ n \notin spill
  /\ pc \in {"pop", "done"} => \A n \in Node \ on_stack : colour[n] # 0 \/ n \in spill
  /\ pc \notin {"pop", "done"} => low \subseteq on_stack
  /\ pc = "done" => on_stack = {}
  /\ \A n \in on_stack : colour[n] = 0 /\ n \notin spill

IInv ==
  /\ TypeOK /\ GraphKept /\ StackInjective /\ LowDegreeKept /\ Progress
  /\ ProperColouring /\ LowDegreeNeverSpilled /\ SpillsNeeded

----------------------------------------------------------------------------
(* Finite sets of nodes and of colours *)

\* There are finitely many nodes, so every set of nodes can be counted.
LEMMA NodesFinite ==
  ASSUME NEW S \in SUBSET Node
  PROVE  IsFiniteSet(S) /\ Cardinality(S) \in Nat
<1>1. IsFiniteSet(Node)
  BY NAssumption, FS_Interval DEF Node
<1>2. IsFiniteSet(S)
  BY <1>1, FS_Subset
<1> QED BY <1>2, FS_CardinalityType

\* A set of positive numbers that is not empty has a least member: the search
\* for the first gap finds one.
LEMMA LeastExists ==
  ASSUME NEW T \in SUBSET Nat, T # {}
  PROVE  \E c \in T : \A d \in T : c <= d
<1> DEFINE Intervals == {0 .. c : c \in T}
           Order == StrictSubsetOrdering(Nat)
<1>1. Intervals \subseteq FiniteSubsetsOf(Nat)
  <2> SUFFICES ASSUME NEW c \in T PROVE 0 .. c \in FiniteSubsetsOf(Nat)
    OBVIOUS
  <2>1. IsFiniteSet(0 .. c)
    BY FS_Interval
  <2> QED BY <2>1 DEF FiniteSubsetsOf
<1>2. Intervals # {}
  OBVIOUS
<1>3. PICK x \in Intervals : \A y \in Intervals : ~(<<y, x>> \in Order)
  <2>1. IsWellFoundedOn(Order, FiniteSubsetsOf(Nat))
    BY FS_StrictSubsetOrderingWellFounded
  <2> HIDE DEF Intervals, Order
  <2> QED BY <1>1, <1>2, <2>1, WFMin
<1>4. PICK c \in T : x = 0 .. c
  OBVIOUS
<1>5. ASSUME NEW d \in T, d < c PROVE FALSE
  <2>1. <<0 .. d, 0 .. c>> \in Order
    <3>1. 0 .. d \subseteq 0 .. c /\ 0 .. d # 0 .. c
      BY <1>5
    <3>2. 0 .. d \in SUBSET Nat /\ 0 .. c \in SUBSET Nat
      OBVIOUS
    <3> QED BY <3>1, <3>2 DEF StrictSubsetOrdering
  <2> QED BY <1>3, <1>4, <2>1
<1>6. \A d \in T : c <= d
  BY <1>5
<1> QED BY <1>6

\* min_colour returns a colour that is not in use, and 0 only when all are.
LEMMA MinColourFree ==
  ASSUME NEW used \in SUBSET (1..NRegs)
  PROVE  /\ min_colour(used) \in 0..NRegs
         /\ min_colour(used) \notin used
         /\ min_colour(used) = 0 <=> used = 1..NRegs
<1> USE NRegsAssumption
<1> DEFINE n == Cardinality(used)
           gaps == {c \in 1 .. n : c \notin used}
           least == CHOOSE c \in gaps : \A d \in gaps : c <= d
<1>1. IsFiniteSet(1..NRegs) /\ Cardinality(1..NRegs) = NRegs
  BY FS_Interval
<1>2. IsFiniteSet(used) /\ n \in Nat /\ n <= NRegs /\ (n = NRegs => used = 1..NRegs)
  BY <1>1, FS_Subset, FS_CardinalityType
<1>3. CASE gaps # {}
  <2>1. least \in gaps
    <3>1. gaps \in SUBSET Nat
      BY <1>2
    <3> HIDE DEF gaps
    <3> QED BY <1>3, <3>1, LeastExists
  <2>2. min_colour(used) = least
    BY <1>3 DEF min_colour
  <2>3. used # 1..NRegs
    BY <1>2, <2>1
  <2> HIDE DEF least, n
  <2> QED BY <1>2, <2>1, <2>2, <2>3
<1>4. CASE gaps = {}
  <2>1. used = 1 .. n
    <3>1. 1 .. n \in SUBSET used
      BY <1>4
    <3>2. IsFiniteSet(1 .. n) /\ Cardinality(1 .. n) = n
      BY <1>2, FS_Interval
    <3> QED BY <1>2, <3>1, <3>2, FS_Subset
  <2>2. min_colour(used) = IF n < NRegs THEN n + 1 ELSE 0
    BY <1>4 DEF min_colour
  <2> HIDE DEF n, gaps
  <2>3. CASE n < NRegs
    <3>1. n + 1 \notin used /\ used # 1..NRegs
      BY <1>2, <2>1, <2>3
    <3> QED BY <1>2, <2>2, <2>3, <3>1
  <2>4. CASE n = NRegs
    BY <1>2, <2>2, <2>4
  <2> QED BY <1>2, <2>3, <2>4
<1> QED BY <1>3, <1>4

----------------------------------------------------------------------------
(* Pushing a node *)

\* Disconnecting a node loses no edge and keeps the counters exact.
LEMMA PushKeepsGraph ==
  ASSUME TypeOK, GraphKept, NEW node \in Node \ on_stack, PushNode(node),
         UNCHANGED links
  PROVE  \A n \in Node :
           /\ adj'[n] = IF n \in on_stack' THEN {} ELSE links[n] \ on_stack'
           /\ rem'[n] = links[n] \ adj'[n]
           /\ num_adjs'[n] = Cardinality(adj'[n])
           /\ adj'[n] \in SUBSET Node
           /\ rem'[n] \in SUBSET Node
<1> SUFFICES ASSUME NEW n \in Node
             PROVE  /\ adj'[n] = IF n \in on_stack' THEN {} ELSE links[n] \ on_stack'
                    /\ rem'[n] = links[n] \ adj'[n]
                    /\ num_adjs'[n] = Cardinality(adj'[n])
                    /\ adj'[n] \in SUBSET Node
                    /\ rem'[n] \in SUBSET Node
  OBVIOUS
<1>1. /\ on_stack' = on_stack \cup {node}
      /\ adj'[n] = IF n = node THEN {} ELSE adj[n] \ {node}
      /\ rem'[n] = IF n = node THEN rem[n] \cup adj[n]
                   ELSE rem[n] \cup (adj[n] \cap {node})
      /\ num_adjs'[n] = IF n = node THEN num_adjs[n] - Cardinality(adj[n])
                        ELSE IF node \in adj[n] THEN num_adjs[n] - 1 ELSE num_adjs[n]
  BY DEF PushNode, adjust_neighbours
<1>2. /\ adj[n] = IF n \in on_stack THEN {} ELSE links[n] \ on_stack
      /\ rem[n] = links[n] \ adj[n]
      /\ num_adjs[n] = Cardinality(adj[n])
      /\ links[n] \in SUBSET Node
  BY DEF GraphKept, TypeOK, Graphs
<1>3. adj'[n] = IF n \in on_stack' THEN {} ELSE links[n] \ on_stack'
  BY <1>1, <1>2
<1>4. rem'[n] = links[n] \ adj'[n]
  BY <1>1, <1>2
<1>5. num_adjs'[n] = Cardinality(adj'[n])
  <2>1. IsFiniteSet(adj[n]) /\ Cardinality(adj[n]) \in Nat
    BY <1>2, NodesFinite
  <2>2. CASE n = node
    BY <1>1, <1>2, <2>1, <2>2, FS_EmptySet
  <2>3. CASE n # node
    <3>1. Cardinality(adj[n] \ {node}) =
            IF node \in adj[n] THEN Cardinality(adj[n]) - 1 ELSE Cardinality(adj[n])
      BY <2>1, FS_RemoveElement
    <3> QED BY <1>1, <1>2, <2>3, <3>1
  <2> QED BY <2>2, <2>3
<1> QED BY <1>2, <1>3, <1>4, <1>5

\* The stack after a push.
LEMMA PushKeepsStack ==
  ASSUME TypeOK, GraphKept, StackInjective, NEW node \in Node \ on_stack,
         PushNode(node)
  PROVE  /\ stack' \in Seq(Node) /\ Len(stack') = Len(stack) + 1
         /\ DOMAIN stack' = 1 .. Len(stack) + 1 /\ Len(stack) \in Nat
         /\ stack'[Len(stack) + 1] = node
         /\ \A p \in DOMAIN stack : stack'[p] = stack[p]
         /\ on_stack' = {stack'[p] : p \in DOMAIN stack'}
         /\ Len(stack') = Cardinality(on_stack')
         /\ StackInjective'
<1>1. stack \in Seq(Node) /\ stack' = Append(stack, node)
  BY DEF TypeOK, PushNode
<1>2. /\ stack' \in Seq(Node) /\ Len(stack') = Len(stack) + 1
      /\ DOMAIN stack' = 1 .. Len(stack) + 1 /\ Len(stack) \in Nat
      /\ DOMAIN stack = 1 .. Len(stack)
      /\ stack'[Len(stack) + 1] = node
      /\ \A p \in 1 .. Len(stack) : stack'[p] = stack[p]
  BY <1>1
<1>3. on_stack = {stack[p] : p \in DOMAIN stack} /\ on_stack' = on_stack \cup {node}
  BY DEF GraphKept, PushNode
<1>4. on_stack' = {stack'[p] : p \in DOMAIN stack'}
  BY <1>2, <1>3
<1>5. Len(stack') = Cardinality(on_stack')
  <2>1. IsFiniteSet(on_stack)
    BY NodesFinite DEF TypeOK
  <2>2. Cardinality(on_stack \cup {node}) = Cardinality(on_stack) + 1
    BY <2>1, FS_AddElement
  <2> QED BY <1>2, <1>3, <2>2 DEF GraphKept
<1>6. StackInjective'
  <2>1. \A p \in 1 .. Len(stack) : stack[p] # node
    BY <1>2, <1>3
  <2> QED BY <1>2, <2>1 DEF StackInjective
<1> QED BY <1>2, <1>4, <1>5, <1>6

\* A push by the degree < R rule records a true degree, and no push disturbs
\* what earlier ones recorded.
LEMMA PushKeepsLowDegree ==
  ASSUME IInv, NEW node \in Node \ on_stack, PushNode(node), UNCHANGED links,
         pc \notin {"pop", "done"},
         \/ UNCHANGED low
         \/ low' = low \cup {node} /\ num_adjs[node] < NRegs
  PROVE  LowDegreeKept'
<1> SUFFICES ASSUME NEW p \in DOMAIN stack', stack'[p] \in low'
             PROVE  Cardinality(links[stack'[p]] \ Below(stack', p)) < NRegs
  BY DEF LowDegreeKept
<1>1. /\ DOMAIN stack' = 1 .. Len(stack) + 1 /\ Len(stack) \in Nat
      /\ DOMAIN stack = 1 .. Len(stack)
      /\ stack'[Len(stack) + 1] = node
      /\ \A q \in DOMAIN stack : stack'[q] = stack[q]
      /\ on_stack = {stack[q] : q \in DOMAIN stack}
  <2>1. TypeOK /\ GraphKept /\ StackInjective
    BY DEF IInv
  <2>2. /\ DOMAIN stack' = 1 .. Len(stack) + 1 /\ Len(stack) \in Nat
        /\ stack'[Len(stack) + 1] = node
        /\ \A q \in DOMAIN stack : stack'[q] = stack[q]
    BY <2>1, PushKeepsStack
  <2>3. DOMAIN stack = 1 .. Len(stack)
    BY <2>1 DEF TypeOK
  <2> QED BY <2>1, <2>2, <2>3 DEF GraphKept
<1>2. CASE p = Len(stack) + 1
  <2>1. Below(stack', p) = on_stack
    BY <1>1, <1>2 DEF Below
  <2>2. Cardinality(links[node] \ on_stack) = num_adjs[node]
    BY DEF IInv, GraphKept
  <2>3. num_adjs[node] < NRegs
    BY <1>1, <1>2 DEF IInv, Progress
  <2> QED BY <1>1, <1>2, <2>1, <2>2, <2>3
<1>3. CASE p \in 1 .. Len(stack)
  <2>1. stack'[p] = stack[p] /\ stack[p] \in on_stack
    BY <1>1, <1>3
  <2>2. stack[p] \in low
    BY <2>1
  <2>3. Below(stack', p) = Below(stack, p)
    BY <1>1, <1>3 DEF Below
  <2> QED BY <1>1, <1>3, <2>1, <2>2, <2>3 DEF IInv, LowDegreeKept
<1> QED BY <1>1, <1>2, <1>3

----------------------------------------------------------------------------
(* Popping a node *)

\* The popped node leaves the others where they are on the stack.
LEMMA PopKeepsStack ==
  ASSUME TypeOK, GraphKept, StackInjective, stack # <<>>,
         stack' = SubSeq(stack, 1, Len(stack) - 1),
         on_stack' = on_stack \ {stack[Len(stack)]}
  PROVE  /\ stack' \in Seq(Node) /\ Len(stack) \in Nat \ {0}
         /\ DOMAIN stack' = 1 .. Len(stack) - 1
         /\ stack[Len(stack)] \in on_stack
         /\ \A p \in DOMAIN stack' : stack'[p] = stack[p]
         /\ on_stack' = {stack'[p] : p \in DOMAIN stack'}
         /\ Len(stack') = Cardinality(on_stack')
         /\ StackInjective'
<1> DEFINE len == Len(stack)
<1>1. stack \in Seq(Node) /\ len \in Nat \ {0} /\ DOMAIN stack = 1 .. len
  BY EmptySeq DEF TypeOK
<1>2. \A p \in 1 .. len - 1 : stack[p] \in Node
  BY <1>1
<1>3. /\ stack' \in Seq(Node) /\ Len(stack') = len - 1
      /\ DOMAIN stack' = 1 .. len - 1
      /\ \A p \in 1 .. len - 1 : stack'[p] = stack[p]
  <2>1. /\ SubSeq(stack, 1, len - 1) \in Seq(Node)
        /\ Len(SubSeq(stack, 1, len - 1)) = IF 1 <= len - 1 THEN len - 1 ELSE 0
        /\ \A p \in 1 .. len - 1 : SubSeq(stack, 1, len - 1)[p] = stack[p]
    BY <1>1
  <2> QED BY <1>1, <2>1
<1>4. on_stack = {stack[p] : p \in 1 .. len}
  BY <1>1 DEF GraphKept
<1>5. stack[len] \in on_stack /\ \A p \in 1 .. len - 1 : stack[p] # stack[len]
  BY <1>1, <1>4 DEF StackInjective
<1>6. on_stack' = {stack'[p] : p \in DOMAIN stack'}
  <2>1. 1 .. len = (1 .. len - 1) \cup {len}
    BY <1>1
  <2>2. on_stack' = {stack[p] : p \in 1 .. len - 1}
    BY <1>4, <1>5, <2>1
  <2> HIDE DEF len
  <2> QED BY <1>3, <2>2
<1>7. Len(stack') = Cardinality(on_stack')
  <2>1. IsFiniteSet(on_stack) /\ Cardinality(on_stack) = len
    BY NodesFinite DEF TypeOK, GraphKept
  <2>2. Cardinality(on_stack \ {stack[len]}) = Cardinality(on_stack) - 1
    BY <1>5, <2>1, FS_RemoveElement
  <2> QED BY <1>3, <2>1, <2>2
<1>8. StackInjective'
  BY <1>1, <1>3 DEF StackInjective
<1> QED BY <1>1, <1>3, <1>5, <1>6, <1>7, <1>8

\* Reconnecting the popped node restores exactly its edges to the nodes that
\* are off the stack, on both sides.
LEMMA PopKeepsGraph ==
  ASSUME TypeOK, GraphKept, NEW node \in on_stack, Reconnect(node),
         on_stack' = on_stack \ {node}, UNCHANGED links
  PROVE  \A n \in Node :
           /\ adj'[n] = IF n \in on_stack' THEN {} ELSE links[n] \ on_stack'
           /\ rem'[n] = links[n] \ adj'[n]
           /\ num_adjs'[n] = Cardinality(adj'[n])
           /\ adj'[n] \in SUBSET Node
           /\ rem'[n] \in SUBSET Node
<1> DEFINE up == Node \ (on_stack \ {node})
           Back(n) == IF n = node THEN rem[n] \cap up
                      ELSE IF n \in up THEN rem[n] \cap {node} ELSE {}
<1> SUFFICES ASSUME NEW n \in Node
             PROVE  /\ adj'[n] = IF n \in on_stack' THEN {} ELSE links[n] \ on_stack'
                    /\ rem'[n] = links[n] \ adj'[n]
                    /\ num_adjs'[n] = Cardinality(adj'[n])
                    /\ adj'[n] \in SUBSET Node
                    /\ rem'[n] \in SUBSET Node
  OBVIOUS
<1>1. /\ adj'[n] = adj[n] \cup Back(n)
      /\ rem'[n] = rem[n] \ Back(n)
      /\ num_adjs'[n] = num_adjs[n] + Cardinality(Back(n))
  BY DEF Reconnect
<1>2. /\ adj[n] = IF n \in on_stack THEN {} ELSE links[n] \ on_stack
      /\ rem[n] = links[n] \ adj[n]
      /\ num_adjs[n] = Cardinality(adj[n])
      /\ links[n] \in SUBSET Node
      /\ on_stack \in SUBSET Node
      /\ node \notin links[node]
  BY DEF GraphKept, TypeOK, Graphs
<1>3. adj'[n] = IF n \in on_stack' THEN {} ELSE links[n] \ on_stack'
  <2>1. CASE n = node
    BY <1>1, <1>2, <2>1
  <2>2. CASE n # node /\ n \notin on_stack
    BY <1>1, <1>2, <2>2
  <2>3. CASE n # node /\ n \in on_stack
    BY <1>1, <1>2, <2>3
  <2> QED BY <2>1, <2>2, <2>3
<1>4. Back(n) \subseteq rem[n]
  OBVIOUS
<1>5. rem'[n] = links[n] \ adj'[n]
  BY <1>1, <1>2, <1>4
<1>6. num_adjs'[n] = Cardinality(adj'[n])
  <2>1. /\ adj[n] \in SUBSET Node /\ Back(n) \in SUBSET Node
        /\ adj[n] \cap Back(n) = {}
    BY <1>2, <1>4
  <2> HIDE DEF Back
  <2>2. /\ IsFiniteSet(adj[n]) /\ Cardinality(adj[n]) \in Nat
        /\ IsFiniteSet(Back(n)) /\ Cardinality(Back(n)) \in Nat
    BY <2>1, NodesFinite
  <2>3. Cardinality(adj[n] \cap Back(n)) = 0
    BY <2>1, FS_EmptySet
  <2>4. Cardinality(adj[n] \cup Back(n)) =
          Cardinality(adj[n]) + Cardinality(Back(n)) - Cardinality(adj[n] \cap Back(n))
    BY <2>2, FS_Union
  <2> QED BY <1>1, <1>2, <2>2, <2>3, <2>4
<1> QED BY <1>2, <1>3, <1>5, <1>6

\* The facts about one round of assign_regs that its properties rest on: the
\* neighbours considered are the links that are off the stack, and the popped
\* node, uncoloured until now, gets a colour that none of them has.
LEMMA PopFacts ==
  ASSUME IInv, Pop, NEW node, node = stack[Len(stack)],
         NEW used, used = UsedColours(adj'[node])
  PROVE  /\ node \in on_stack /\ node \in Node /\ on_stack' = on_stack \ {node}
         /\ adj'[node] = links[node] \ on_stack' /\ adj'[node] \in SUBSET Node
         /\ used \in SUBSET (1..NRegs)
         /\ colour' = [colour EXCEPT ![node] = min_colour(used)]
         /\ spill' = IF min_colour(used) = 0 THEN spill \cup {node}
                     ELSE spill \ {node}
<1> USE NRegsAssumption
<1>0. TypeOK /\ GraphKept /\ StackInjective /\ Progress
  BY DEF IInv
<1>1. /\ stack # <<>> /\ stack' = SubSeq(stack, 1, Len(stack) - 1)
      /\ on_stack' = on_stack \ {node} /\ Reconnect(node)
      /\ AssignColour(node, min_colour(used))
      /\ UNCHANGED links
  BY DEF Pop, given
<1>2. node \in on_stack
  BY <1>0, <1>1, PopKeepsStack
<1>3. node \in Node /\ node \notin links[node]
  BY <1>0, <1>2 DEF TypeOK, Graphs
<1>4. adj'[node] = links[node] \ on_stack' /\ adj'[node] \in SUBSET Node
  BY <1>0, <1>1, <1>2, <1>3, PopKeepsGraph
<1>5. used \in SUBSET (1..NRegs)
  BY <1>0, <1>4 DEF TypeOK, UsedColours
<1>6. min_colour(used) \in 0..NRegs
  BY <1>5, MinColourFree
<1>7. colour[node] = 0 /\ colour \in [Node -> 0..NRegs]
  BY <1>0, <1>2 DEF Progress, TypeOK
<1>8. colour' = [colour EXCEPT ![node] = min_colour(used)]
  <2>1. (IF min_colour(used) > 0 THEN min_colour(used) ELSE colour[node])
          = min_colour(used)
    BY <1>6, <1>7
  <2>2. colour' = [colour EXCEPT ![node] =
                     IF min_colour(used) > 0 THEN min_colour(used) ELSE colour[node]]
    BY <1>1 DEF AssignColour
  <2> QED BY <2>1, <2>2
<1>9. spill' = IF min_colour(used) = 0 THEN spill \cup {node} ELSE spill \ {node}
  BY <1>1, <1>6 DEF AssignColour
<1> QED BY <1>1, <1>2, <1>3, <1>4, <1>5, <1>8, <1>9

\* A set of nodes has no more colours than nodes.
LEMMA UsedColoursBound ==
  ASSUME TypeOK, NEW S \in SUBSET Node
  PROVE  Cardinality(UsedColours(S)) <= Cardinality(S)
<1> DEFINE C == {m \in S : colour[m] # 0}
           f == [m \in C |-> colour[m]]
<1>1. f \in Surjection(C, UsedColours(S))
  BY DEF UsedColours, Surjection
<1>2. /\ IsFiniteSet(S) /\ Cardinality(S) \in Nat
      /\ IsFiniteSet(C) /\ Cardinality(C) \in Nat
  BY NodesFinite
<1>3. Cardinality(C) <= Cardinality(S)
  BY <1>2, FS_Subset
<1> HIDE DEF C, f
<1>4. IsFiniteSet(UsedColours(S)) /\ Cardinality(UsedColours(S)) <= Cardinality(C)
  BY <1>1, <1>2, FS_Surjection
<1>5. Cardinality(UsedColours(S)) \in Nat
  BY <1>4, FS_CardinalityType
<1> QED BY <1>2, <1>3, <1>4, <1>5

\* Assigning a colour to the popped node keeps the colouring proper.
LEMMA PopKeepsProper == IInv /\ Pop => ProperColouring'
<1> SUFFICES ASSUME IInv, Pop, NEW a \in Node, NEW b \in Node,
                    b \in links'[a], colour'[a] # 0
             PROVE  colour'[a] # colour'[b]
  BY DEF ProperColouring
<1> DEFINE node == stack[Len(stack)]
           used == UsedColours(adj'[node])
           c == min_colour(used)
<1>0. UNCHANGED links /\ links \in Graphs /\ colour \in [Node -> 0..NRegs]
  BY DEF Pop, given, IInv, TypeOK
<1>1. a # b /\ a \in links[b] /\ b \in links[a]
  BY <1>0 DEF Graphs
<1>2. /\ node \in Node /\ on_stack' = on_stack \ {node}
      /\ adj'[node] = links[node] \ on_stack'
      /\ used \in SUBSET (1..NRegs)
      /\ colour' = [colour EXCEPT ![node] = c]
  BY PopFacts
<1>3. c \notin used
  BY <1>2, MinColourFree
<1>4. ASSUME NEW m \in links[node], m \in Node, m # node, colour[m] # 0
      PROVE  colour[m] # c
  <2>1. m \notin on_stack
    BY <1>4 DEF IInv, Progress
  <2>2. colour[m] \in used
    BY <1>2, <1>4, <2>1 DEF UsedColours
  <2> QED BY <1>3, <2>2
<1> HIDE DEF node, used, c
<1>5. CASE a = node
  BY <1>0, <1>1, <1>2, <1>4, <1>5
<1>6. CASE b = node
  BY <1>0, <1>1, <1>2, <1>4, <1>6
<1>7. CASE a # node /\ b # node
  BY <1>0, <1>1, <1>2, <1>7 DEF IInv, ProperColouring
<1> QED BY <1>5, <1>6, <1>7

\* A node of the degree < R rule is popped while fewer than NRegs of its
\* neighbours are back, so min_colour finds a colour; the nodes still on the
\* stack keep what was recorded of them.
LEMMA PopKeepsLowDegree ==
  IInv /\ Pop => LowDegreeNeverSpilled' /\ LowDegreeKept'
<1> SUFFICES ASSUME IInv, Pop PROVE LowDegreeNeverSpilled' /\ LowDegreeKept'
  OBVIOUS
<1> DEFINE node == stack[Len(stack)]
           used == UsedColours(adj'[node])
<1>0. /\ UNCHANGED <<links, low>>
      /\ TypeOK /\ GraphKept /\ StackInjective /\ LowDegreeKept
      /\ stack # <<>> /\ stack' = SubSeq(stack, 1, Len(stack) - 1)
      /\ on_stack' = on_stack \ {node}
  BY DEF Pop, given, IInv
<1>1. /\ node \in on_stack /\ node \in Node
      /\ adj'[node] = links[node] \ on_stack' /\ adj'[node] \in SUBSET Node
      /\ used \in SUBSET (1..NRegs)
      /\ spill' = IF min_colour(used) = 0 THEN spill \cup {node}
                  ELSE spill \ {node}
  BY PopFacts
<1>2. /\ Len(stack) \in Nat \ {0} /\ DOMAIN stack' = 1 .. Len(stack) - 1
      /\ DOMAIN stack = 1 .. Len(stack)
      /\ \A p \in DOMAIN stack' : stack'[p] = stack[p]
      /\ on_stack' = {stack'[p] : p \in DOMAIN stack'}
  <2>1. stack \in Seq(Node)
    BY <1>0 DEF TypeOK
  <2> QED BY <1>0, <2>1, PopKeepsStack
<1>3. Below(stack, Len(stack)) = on_stack'
  BY <1>2 DEF Below
<1>4. node \in low => min_colour(used) # 0
  <2> SUFFICES ASSUME node \in low, used = 1..NRegs PROVE FALSE
    BY <1>1, MinColourFree
  <2>1. Cardinality(adj'[node]) < NRegs
    <3>1. Len(stack) \in DOMAIN stack
      BY <1>2
    <3>2. Cardinality(links[node] \ Below(stack, Len(stack))) < NRegs
      BY <1>0, <3>1 DEF LowDegreeKept
    <3> QED BY <1>1, <1>3, <3>2
  <2>2. Cardinality(used) <= Cardinality(adj'[node])
    BY <1>0, <1>1, UsedColoursBound
  <2>3. Cardinality(1..NRegs) = NRegs
    BY NRegsAssumption, FS_Interval
  <2>4. Cardinality(adj'[node]) \in Nat
    BY <1>1, NodesFinite
  <2> QED BY NRegsAssumption, <2>1, <2>2, <2>3, <2>4
<1>5. LowDegreeNeverSpilled'
  BY <1>0, <1>1, <1>4 DEF IInv, LowDegreeNeverSpilled
<1>6. LowDegreeKept'
  <2> SUFFICES ASSUME NEW p \in DOMAIN stack', stack'[p] \in low
               PROVE  Cardinality(links[stack'[p]] \ Below(stack', p)) < NRegs
    BY <1>0 DEF LowDegreeKept
  <2>1. p \in DOMAIN stack /\ stack'[p] = stack[p]
    BY <1>2
  <2>2. Below(stack', p) = Below(stack, p)
    BY <1>2, SMTT(30) DEF Below
  <2> QED BY <1>0, <2>1, <2>2 DEF LowDegreeKept
<1> QED BY <1>5, <1>6

\* A node is marked for spilling only when min_colour had nothing left, and
\* the colours its neighbours have then are never taken away.
LEMMA PopKeepsSpills == IInv /\ Pop => SpillsNeeded' /\ Progress'
<1> SUFFICES ASSUME IInv, Pop PROVE SpillsNeeded' /\ Progress'
  OBVIOUS
<1> DEFINE node == stack[Len(stack)]
           used == UsedColours(adj'[node])
           c == min_colour(used)
<1>0. /\ UNCHANGED <<links, low, pc>> /\ pc = "pop"
      /\ links \in Graphs /\ colour \in [Node -> 0..NRegs]
      /\ spill \in SUBSET Node /\ on_stack \in SUBSET Node
  BY DEF Pop, given, IInv, TypeOK
<1>1. /\ node \in on_stack /\ node \in Node /\ on_stack' = on_stack \ {node}
      /\ adj'[node] = links[node] \ on_stack'
      /\ used \in SUBSET (1..NRegs)
      /\ colour' = [colour EXCEPT ![node] = c]
      /\ spill' = IF c = 0 THEN spill \cup {node} ELSE spill \ {node}
  BY PopFacts
<1>2. c \in 0..NRegs /\ (c = 0 <=> used = 1..NRegs)
  BY <1>1, MinColourFree
<1>3. colour[node] = 0
  BY <1>1 DEF IInv, Progress
<1>4. c = 0 => \A d \in 1..NRegs : \E m \in links[node] : m # node /\ colour[m] = d
  BY <1>0, <1>1, <1>2 DEF UsedColours, Graphs
<1>5. \A n \in spill, d \in 1..NRegs : \E m \in links[n] : colour[m] = d
  BY DEF IInv, SpillsNeeded
<1> HIDE DEF node, used, c
<1>6. SpillsNeeded'
  <2> SUFFICES ASSUME NEW n \in spill', NEW d \in 1..NRegs
               PROVE  \E m \in links[n] : colour'[m] = d
    BY <1>0 DEF SpillsNeeded
  <2>1. PICK m \in links[n] : m # node /\ colour[m] = d
    <3>1. CASE n = node
      BY <1>1, <1>3, <1>4, <1>5, <3>1
    <3>2. CASE n # node
      BY <1>1, <1>3, <1>5, <3>2, NRegsAssumption
    <3> QED BY <3>1, <3>2
  <2>2. colour'[m] = d
    <3>1. m \in Node
      BY <1>0, <1>1 DEF Graphs
    <3> QED BY <1>0, <1>1, <2>1, <3>1
  <2> QED BY <2>2
<1>7. Progress'
  <2>1. \A n \in Node \ on_stack' : colour'[n] # 0 \/ n \in spill'
    BY <1>0, <1>1 DEF IInv, Progress
  <2>2. \A n \in on_stack' : colour'[n] = 0 /\ n \notin spill'
    BY <1>0, <1>1 DEF IInv, Progress
  <2> QED BY <1>0, <2>1, <2>2 DEF Progress
<1> QED BY <1>6, <1>7

----------------------------------------------------------------------------
(* The inductive invariant *)

\* build_adj_lists establishes the invariant.
LEMMA InitIInv == Init => IInv
<1> SUFFICES ASSUME Init PROVE IInv
  OBVIOUS
<1>1. \A n \in Node : links[n] \in SUBSET Node /\ Cardinality(links[n]) \in Nat
  BY NodesFinite DEF Init, Graphs
<1>2. TypeOK
  BY NAssumption, NRegsAssumption, <1>1 DEF Init, TypeOK, Graphs
<1>3. GraphKept
  BY FS_EmptySet DEF Init, GraphKept
<1>4. StackInjective /\ LowDegreeKept
  BY DEF Init, StackInjective, LowDegreeKept
<1>5. Progress /\ ProperColouring /\ LowDegreeNeverSpilled /\ SpillsNeeded
  BY DEF Init, Progress, ProperColouring, LowDegreeNeverSpilled, SpillsNeeded
<1> QED BY <1>2, <1>3, <1>4, <1>5 DEF IInv

\* What both ways of pushing a node have in common.
LEMMA PushKeepsIInv ==
  ASSUME IInv, NEW node \in Node \ on_stack, PushNode(node),
         UNCHANGED <<given, colour, spill>>,
         pc \notin {"pop", "done"}, pc' \in {"scan", "choose"},
         i' \in 0..N, finished' \in BOOLEAN,
         \/ UNCHANGED low
         \/ low' = low \cup {node} /\ num_adjs[node] < NRegs
  PROVE  IInv'
<1>0. /\ TypeOK /\ GraphKept /\ StackInjective /\ Progress
      /\ UNCHANGED <<links, spill_cost>> /\ on_stack' = on_stack \cup {node}
  BY DEF IInv, given, PushNode
<1>1. /\ \A n \in Node :
           /\ adj'[n] = IF n \in on_stack' THEN {} ELSE links[n] \ on_stack'
           /\ rem'[n] = links[n] \ adj'[n]
           /\ num_adjs'[n] = Cardinality(adj'[n])
           /\ adj'[n] \in SUBSET Node
           /\ rem'[n] \in SUBSET Node
  BY <1>0, PushKeepsGraph
<1>2. /\ stack' \in Seq(Node) /\ on_stack' = {stack'[p] : p \in DOMAIN stack'}
      /\ Len(stack') = Cardinality(on_stack') /\ StackInjective'
  BY <1>0, PushKeepsStack
<1>3. GraphKept'
  BY <1>0, <1>1, <1>2 DEF GraphKept
<1>4. TypeOK'
  <2>1. /\ adj' \in [Node -> SUBSET Node] /\ rem' \in [Node -> SUBSET Node]
    <3>1. /\ adj' = [n \in Node |-> adj'[n]] /\ rem' = [n \in Node |-> rem'[n]]
      BY DEF PushNode, adjust_neighbours
    <3> QED BY <1>1, <3>1
  <2>2. num_adjs' \in [Node -> Nat]
    <3>1. num_adjs' = [n \in Node |-> num_adjs'[n]]
      BY DEF PushNode, adjust_neighbours
    <3>2. ASSUME NEW n \in Node PROVE num_adjs'[n] \in Nat
      <4>1. Cardinality(adj'[n]) \in Nat
        BY <1>1, NodesFinite
      <4> QED BY <1>1, <4>1
    <3> QED BY <3>1, <3>2
  <2> QED BY <1>0, <1>2, <2>1, <2>2 DEF TypeOK
<1>5. LowDegreeKept'
  BY <1>0, PushKeepsLowDegree
<1>6. Progress'
  BY <1>0 DEF Progress, TypeOK
<1>7. ProperColouring' /\ SpillsNeeded'
  BY <1>0 DEF IInv, ProperColouring, SpillsNeeded
<1>8. LowDegreeNeverSpilled'
  BY <1>0 DEF Progress, LowDegreeNeverSpilled, TypeOK
<1> QED BY <1>2, <1>3, <1>4, <1>5, <1>6, <1>7, <1>8 DEF IInv

\* A step that moves on from one loop to another, or round the same one.
LEMMA LoopKeepsIInv ==
  ASSUME IInv, UNCHANGED <<given, graph, on_stack, stack, colour, spill, low>>,
         pc' \in {"scan", "choose", "pop", "done", "failed"},
         i' \in 0..N, finished' \in BOOLEAN,
         Progress', pc' = "done" => pc \in {"pop", "done"}
  PROVE  IInv'
<1>1. UNCHANGED <<links, spill_cost, adj, rem, num_adjs>>
  BY DEF given, graph
<1>2. TypeOK'
  BY <1>1 DEF IInv, TypeOK
<1>3. GraphKept' /\ StackInjective' /\ LowDegreeKept'
  <2>1. GraphKept'
    BY <1>1 DEF IInv, GraphKept
  <2>2. StackInjective'
    BY DEF IInv, StackInjective
  <2>3. \A p : Below(stack', p) = Below(stack, p)
    BY DEF Below
  <2>4. LowDegreeKept'
    BY <1>1, <2>3 DEF IInv, LowDegreeKept
  <2> QED BY <2>1, <2>2, <2>4
<1>4. ProperColouring' /\ LowDegreeNeverSpilled'
  BY <1>1 DEF IInv, ProperColouring, LowDegreeNeverSpilled
<1>5. SpillsNeeded'
  BY <1>1 DEF IInv, SpillsNeeded, Progress
<1> QED BY <1>2, <1>3, <1>4, <1>5 DEF IInv

\* Every step of ig_prune and of assign_regs keeps the invariant.
LEMMA NextIInv == IInv /\ [Next]_vars => IInv'
<1> SUFFICES ASSUME IInv, [Next]_vars PROVE IInv'
  OBVIOUS
<1>0. TypeOK /\ GraphKept /\ Progress /\ StackInjective
  BY DEF IInv
<1>1. CASE ScanPush
  <2>1. /\ i \in Node \ on_stack /\ PushNode(i) /\ num_adjs[i] < NRegs
        /\ UNCHANGED <<given, colour, spill>> /\ low' = low \cup {i}
        /\ pc = "scan" /\ pc' = "scan" /\ i' = i + 1 /\ finished' = FALSE
    BY <1>0, <1>1, NAssumption DEF ScanPush, LowDegree, TypeOK, Node
  <2>2. i' \in 0..N
    BY <1>0, <1>1, NAssumption DEF ScanPush, TypeOK
  <2> QED BY <2>1, <2>2, PushKeepsIInv
<1>2. CASE ScanSkip
  <2>1. i' \in 0..N /\ finished' \in BOOLEAN /\ pc' = pc /\ pc = "scan"
    BY <1>0, <1>2, NAssumption DEF ScanSkip, TypeOK
  <2>2. Progress'
    BY <1>0, <1>2, <2>1 DEF ScanSkip, Progress
  <2> QED BY <1>2, <2>1, <2>2, LoopKeepsIInv DEF ScanSkip
<1>3. CASE ScanPassEnd
  <2>1. i' \in 0..N /\ finished' \in BOOLEAN /\ pc' \in {"scan", "choose", "pop"}
    BY <1>3, NAssumption DEF ScanPassEnd
  <2>2. Progress'
    BY <1>0, <1>3, <2>1 DEF ScanPassEnd, Progress
  <2> QED BY <1>3, <2>1, <2>2, LoopKeepsIInv DEF ScanPassEnd
<1>4. CASE ChooseSpill
  <2>1. PICK n \in Node : IsSpillNode(n) /\ PushNode(n)
    BY <1>4 DEF ChooseSpill
  <2>2. n \in Node \ on_stack
    BY <2>1 DEF IsSpillNode, Spillable
  <2>3. /\ UNCHANGED <<given, colour, spill>> /\ UNCHANGED low
        /\ pc = "choose" /\ pc' = "scan" /\ i' \in 0..N /\ finished' \in BOOLEAN
    BY <1>0, <1>4 DEF ChooseSpill, TypeOK
  <2> QED BY <2>1, <2>2, <2>3, PushKeepsIInv
<1>5. CASE ChooseFails
  <2>1. i' \in 0..N /\ finished' \in BOOLEAN /\ pc' = "failed" /\ pc = "choose"
    BY <1>0, <1>5 DEF ChooseFails, TypeOK
  <2>2. Progress'
    BY <1>0, <1>5, <2>1 DEF ChooseFails, Progress
  <2> QED BY <1>5, <2>1, <2>2, LoopKeepsIInv DEF ChooseFails
<1>6. CASE Pop
  <2> DEFINE node == stack[Len(stack)]
             used == UsedColours(adj'[node])
  <2>1. /\ pc = "pop" /\ UNCHANGED <<links, spill_cost, pc, i, finished, low>>
        /\ stack # <<>> /\ stack' = SubSeq(stack, 1, Len(stack) - 1)
        /\ on_stack' = on_stack \ {node} /\ Reconnect(node)
    BY <1>6 DEF Pop, given
  <2>2. /\ node \in on_stack /\ node \in Node
        /\ used \in SUBSET (1..NRegs)
        /\ colour' = [colour EXCEPT ![node] = min_colour(used)]
        /\ spill' \in SUBSET Node
    <3>1. spill \in SUBSET Node
      BY <1>0 DEF TypeOK
    <3> QED BY <1>6, <3>1, PopFacts
  <2>3. /\ stack' \in Seq(Node) /\ on_stack' = {stack'[p] : p \in DOMAIN stack'}
        /\ Len(stack') = Cardinality(on_stack') /\ StackInjective'
    BY <1>0, <2>1, PopKeepsStack
  <2>4. /\ \A n \in Node :
             /\ adj'[n] = IF n \in on_stack' THEN {} ELSE links[n] \ on_stack'
             /\ rem'[n] = links[n] \ adj'[n]
             /\ num_adjs'[n] = Cardinality(adj'[n])
             /\ adj'[n] \in SUBSET Node
             /\ rem'[n] \in SUBSET Node
    BY <1>0, <2>1, <2>2, PopKeepsGraph
  <2>5. GraphKept'
    BY <2>1, <2>3, <2>4 DEF GraphKept
  <2>6. TypeOK'
    <3>1. /\ adj' = [n \in Node |-> adj'[n]] /\ rem' = [n \in Node |-> rem'[n]]
          /\ num_adjs' = [n \in Node |-> num_adjs'[n]]
      BY <2>1 DEF Reconnect
    <3>2. ASSUME NEW n \in Node PROVE num_adjs'[n] \in Nat
      <4>1. Cardinality(adj'[n]) \in Nat
        BY <2>4, NodesFinite
      <4> QED BY <2>4, <4>1
    <3>3. /\ adj' \in [Node -> SUBSET Node] /\ rem' \in [Node -> SUBSET Node]
          /\ num_adjs' \in [Node -> Nat]
      BY <2>4, <3>1, <3>2
    <3>4. colour' \in [Node -> 0..NRegs]
      <4>1. min_colour(used) \in 0..NRegs
        BY <2>2, MinColourFree
      <4> HIDE DEF node, used
      <4> QED BY <1>0, <2>2, <4>1 DEF TypeOK
    <3>5. on_stack' \in SUBSET Node
      BY <1>0, <2>1 DEF TypeOK
    <3> QED BY <1>0, <2>1, <2>2, <2>3, <3>3, <3>4, <3>5 DEF TypeOK
  <2> QED BY <1>6, <2>3, <2>5, <2>6, PopKeepsProper, PopKeepsLowDegree,
             PopKeepsSpills DEF IInv
<1>7. CASE PopDone
  <2>1. i' \in 0..N /\ finished' \in BOOLEAN /\ pc' = "done" /\ pc = "pop"
    BY <1>0, <1>7 DEF PopDone, TypeOK
  <2>2. on_stack = {}
    BY <1>0, <1>7 DEF PopDone, GraphKept
  <2>3. Progress'
    BY <1>0, <1>7, <2>1, <2>2 DEF PopDone, Progress
  <2> QED BY <1>7, <2>1, <2>3, LoopKeepsIInv DEF PopDone
<1>8. CASE UNCHANGED vars
  <2>1. /\ UNCHANGED <<given, graph, on_stack, stack, colour, spill, low>>
        /\ UNCHANGED <<pc, i, finished>>
    BY <1>8 DEF vars
  <2>2. Progress' /\ i' \in 0..N /\ finished' \in BOOLEAN
        /\ pc' \in {"scan", "choose", "pop", "done", "failed"}
    BY <1>0, <2>1 DEF Progress, TypeOK
  <2> QED BY <2>1, <2>2, LoopKeepsIInv
<1> QED BY <1>1, <1>2, <1>3, <1>4, <1>5, <1>6, <1>7, <1>8 DEF Next

----------------------------------------------------------------------------

\* The invariant holds throughout, for every graph and every cost.
LEMMA IInvAlways == Spec => []IInv
BY InitIInv, NextIInv, PTL DEF Spec

\* The types of ig_prune's and assign_regs' data, for every graph: no counter
\* goes below zero and no colour is above the number of hard registers.
THEOREM TypesKept == Spec => []TypeOK
<1>1. IInv => TypeOK
  BY DEF IInv
<1> QED BY IInvAlways, <1>1, PTL

\* Disconnecting and reconnecting never loses or invents an edge, and num_adjs
\* always counts the neighbours a node has left.
THEOREM GraphIsKept == Spec => []GraphKept
<1>1. IInv => GraphKept
  BY DEF IInv
<1> QED BY IInvAlways, <1>1, PTL

\* Interfering symbolic registers never share a hard register.
THEOREM ColouringIsProper == Spec => []ProperColouring
<1>1. IInv => ProperColouring
  BY DEF IInv
<1> QED BY IInvAlways, <1>1, PTL

\* The degree < R rule is safe: what it pushes is never spilled.
THEOREM LowDegreeIsColoured == Spec => []LowDegreeNeverSpilled
<1>1. IInv => LowDegreeNeverSpilled
  BY DEF IInv
<1> QED BY IInvAlways, <1>1, PTL

\* Spilling is not gratuitous, and at the end every other node has a colour.
THEOREM SpillsAreNeeded == Spec => []SpillsNeeded
<1>1. IInv => SpillsNeeded
  BY DEF IInv
<1> QED BY IInvAlways, <1>1, PTL
============================================================================
