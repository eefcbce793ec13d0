--------------------------- MODULE LivenessProofs ---------------------------
(***************************************************************************)
(* Proofs about Liveness, for every function, every number of nodes and    *)
(* variables, and every order in which the predecessors are visited.       *)
(***************************************************************************)
EXTENDS Liveness, SequenceTheorems, TLAPS

\* The graph the walks are made on does not change under them.
LiveIsLeast == live = [v \in Vars |-> LiveBefore(v)]

\* The depth first search misses nothing: a predecessor of a visited node has
\* been visited, or a call that is still active has it to do.
SearchComplete ==
  pc = "walk" =>
    /\ Exit \in visited
    /\ \A n \in visited, m \in Node : n \in Succ(m) /\ m \notin visited =>
         \E p \in DOMAIN stack : m \in stack[p].todo

\* After the first walk, and at visited nodes, the uses are in the in sets.
UsesKnown ==
  /\ again => \A n \in Node : Use(n) \subseteq in[n]
  /\ pc = "walk" => \A n \in visited : Use(n) \subseteq in[n]

\* The two equations of the analysis, from right to left
Settled(n) ==
  /\ out[n] \ Def(n) \subseteq in[n]
  /\ \A s \in Succ(n) : in[s] \subseteq out[n]

\* A later walk that has not reported a change so far has changed nothing, so
\* the equations hold at the nodes it has visited; at the end, at all nodes.
NoChangeSettles ==
  again =>
    /\ pc = "walk" /\ ~changed => \A n \in visited : Settled(n)
    /\ pc \in {"done", "built"} => \A n \in Node : Settled(n)

\* What ig_build_graph leaves
GraphBuilt ==
  pc = "built" => \A n \in Node : Pairs(Def(n), out[n]) \subseteq links

IInv ==
  /\ TypeOK /\ ReachesExit /\ LiveIsLeast
  /\ OnlyLive /\ SearchComplete /\ UsesKnown /\ NoChangeSettles /\ GraphBuilt

----------------------------------------------------------------------------
(* The graph *)

\* The edges of a node, and what it defines and uses, are what they should be.
LEMMA GraphTypes ==
  ASSUME code \in [Node -> Instrs \cup {Frame}]
  PROVE  \A n \in Node : /\ Succ(n) \subseteq Node
                         /\ Pred(n) \subseteq Node
                         /\ Use(n) \subseteq Vars
                         /\ Def(n) \subseteq Vars
<1> SUFFICES ASSUME NEW n \in Node
             PROVE  /\ Succ(n) \subseteq Node
                    /\ Pred(n) \subseteq Node
                    /\ Use(n) \subseteq Vars
                    /\ Def(n) \subseteq Vars
    OBVIOUS
<1>1. /\ code[n].src \subseteq Vars /\ code[n].args \subseteq Vars
      /\ code[n].dst \in Vars \cup {None} /\ code[n].jump \in Node
  <2>1. Exit \in Node
    BY NAssumption DEF Exit, Node
  <2>2. CASE code[n] \in Instrs
    BY <2>2, InstrsAssumption DEF Instr
  <2>3. CASE code[n] = Frame
    BY <2>1, <2>3 DEF Frame
  <2> QED BY <2>2, <2>3
<1>2. Succ(n) \subseteq Node
  <2>1. n # Exit => n + 1 \in Node
    BY NAssumption DEF Exit, Node
  <2>2. Succ(n) \subseteq {code[n].jump, n + 1} /\ (n = Exit => Succ(n) = {})
    BY Zenon DEF Succ
  <2> QED BY <1>1, <2>1, <2>2
<1>3. Use(n) \subseteq Vars
  BY <1>1 DEF Use
<1>4. Def(n) \subseteq Vars
  BY <1>1 DEF Def
<1>5. Pred(n) \subseteq Node
  BY DEF Pred
<1> QED BY <1>2, <1>3, <1>4, <1>5

\* A step that leaves the code alone leaves the graph alone.
LEMMA GraphFixed ==
  ASSUME code' = code
  PROVE  /\ \A n : Succ(n)' = Succ(n) /\ Use(n)' = Use(n) /\ Def(n)' = Def(n)
         /\ ReachesExit' <=> ReachesExit
         /\ \A v : LiveBefore(v)' = LiveBefore(v)
         /\ (live' = live => \A v : LiveAfter(v)' = LiveAfter(v))
<1>1. \A n : Succ(n)' = Succ(n) /\ Use(n)' = Use(n) /\ Def(n)' = Def(n)
  BY DEF Succ, Use, Def
<1>2. ReachesExit' <=> ReachesExit
  BY <1>1 DEF ReachesExit
<1>3. \A v, S : Closed(v, S)' <=> Closed(v, S)
  BY <1>1 DEF Closed
<1>4. \A v : LiveBefore(v)' = LiveBefore(v)
  BY <1>3 DEF LiveBefore
<1>5. live' = live => \A v : LiveAfter(v)' = LiveAfter(v)
  BY <1>1 DEF LiveAfter
<1> QED BY <1>1, <1>2, <1>4, <1>5

\* The least solution is a solution, and every other one contains it.
LEMMA LiveLeast ==
  ASSUME code \in [Node -> Instrs \cup {Frame}], LiveIsLeast, NEW v \in Vars
  PROVE  /\ live[v] \subseteq Node
         /\ Closed(v, live[v])
         /\ \A S \in SUBSET Node : Closed(v, S) => live[v] \subseteq S
<1>1. live[v] = {n \in Node : \A S \in SUBSET Node : Closed(v, S) => n \in S}
  BY DEF LiveIsLeast, LiveBefore
<1>2. \A S \in SUBSET Node : Closed(v, S) => live[v] \subseteq S
  BY <1>1
<1>3. Closed(v, live[v])
  <2> SUFFICES ASSUME NEW n \in Node,
                      v \in Use(n) \/ (v \notin Def(n) /\ Succ(n) \cap live[v] # {}),
                      NEW S \in SUBSET Node, Closed(v, S)
               PROVE  n \in S
    BY <1>1 DEF Closed
  <2>1. Succ(n) \cap live[v] \subseteq Succ(n) \cap S
    BY <1>2
  <2> QED BY <2>1 DEF Closed
<1> QED BY <1>1, <1>2, <1>3

----------------------------------------------------------------------------
(* One visit *)

\* A visit only adds variables that are live, and the uses of its node; in a
\* later walk, if it reports no change then it makes none, and the equations
\* hold at its node.
LEMMA VisitStep ==
  ASSUME TypeOK, LiveIsLeast, OnlyLive, UsesKnown, code' = code, live' = live,
         NEW n \in Node, NEW seen \in SUBSET Node, NEW before \in BOOLEAN,
         NEW rest \in Seq([node : Node, todo : SUBSET Node]),
         Visit(n, seen, rest, before)
  PROVE  /\ in' \in [Node -> SUBSET Vars] /\ out' \in [Node -> SUBSET Vars]
         /\ changed' \in BOOLEAN /\ visited' = seen \cup {n}
         /\ stack' = Append(rest, [node |-> n, todo |-> Pred(n)])
         /\ stack' \in Seq([node : Node, todo : SUBSET Node])
         /\ OnlyLive'
         /\ \A m \in Node : in[m] \subseteq in'[m]
         /\ Use(n) \subseteq in'[n]
         /\ (again /\ ~changed' => ~before /\ in' = in /\ out' = out /\ Settled(n))
<1> DEFINE kept == out[n] \ Def(n)
           in1  == [in EXCEPT ![n] = @ \cup Use(n) \cup kept]
           out1 == out[n] \cup UNION {in1[s] : s \in Succ(n)}
<1>1. /\ code \in [Node -> Instrs \cup {Frame}]
      /\ in \in [Node -> SUBSET Vars] /\ out \in [Node -> SUBSET Vars]
  BY DEF TypeOK
<1>2. Succ(n) \subseteq Node /\ Pred(n) \subseteq Node /\ Use(n) \subseteq Vars
  BY <1>1, GraphTypes
<1>3. /\ in' = in1 /\ out' = [out EXCEPT ![n] = out1]
      /\ changed' = (before \/ ~(kept \subseteq in[n] \cup Use(n)) \/ out1 # out[n])
      /\ visited' = seen \cup {n}
      /\ stack' = Append(rest, [node |-> n, todo |-> Pred(n)])
  BY Zenon DEF Visit
<1>4. in1 \in [Node -> SUBSET Vars]
  BY <1>1, <1>2
<1>5. out1 \subseteq Vars
  BY <1>1, <1>2, <1>4
<1>6. in' \in [Node -> SUBSET Vars] /\ out' \in [Node -> SUBSET Vars]
  BY <1>1, <1>3, <1>4, <1>5
<1>7. changed' \in BOOLEAN
  BY <1>3
<1>8. stack' \in Seq([node : Node, todo : SUBSET Node])
  BY <1>2, <1>3
<1>9. /\ \A m \in Node : in[m] \subseteq in'[m]
      /\ Use(n) \subseteq in'[n]
  BY <1>1, <1>3
<1>10. OnlyLive'
  <2>1. \A m \in Node : \A v \in in1[m] : v \in Vars /\ m \in live[v]
    <3> SUFFICES ASSUME NEW m \in Node, NEW v \in in1[m] PROVE v \in Vars /\ m \in live[v]
      OBVIOUS
    <3>1. v \in Vars
      BY <1>4
    <3>2. CASE v \in in[m]
      BY <3>1, <3>2 DEF OnlyLive
    <3>3. CASE m = n /\ v \in Use(n)
      BY <1>1, <3>1, <3>3, LiveLeast DEF Closed
    <3>4. CASE m = n /\ v \in kept
      <4>1. Succ(n) \cap live[v] # {}
        BY <3>4 DEF OnlyLive, LiveAfter
      <4> QED BY <1>1, <3>1, <3>4, <4>1, LiveLeast DEF Closed
    <3>5. v \in in[m] \/ (m = n /\ v \in Use(n)) \/ (m = n /\ v \in kept)
      BY <1>1
    <3> QED BY <3>1, <3>2, <3>3, <3>4, <3>5
  <2>2. \A m \in Node : \A v \in out'[m] : m \in LiveAfter(v)
    <3> SUFFICES ASSUME NEW m \in Node, NEW v \in out'[m] PROVE m \in LiveAfter(v)
      OBVIOUS
    <3>1. CASE v \in out[m]
      BY <3>1 DEF OnlyLive
    <3>2. CASE m = n /\ \E s \in Succ(n) : v \in in1[s]
      BY <1>2, <2>1, <3>2 DEF LiveAfter
    <3>3. v \in out[m] \/ (m = n /\ \E s \in Succ(n) : v \in in1[s])
      BY <1>1, <1>3
    <3> QED BY <3>1, <3>2, <3>3
  <2>3. \A v : LiveAfter(v)' = LiveAfter(v)
    BY GraphFixed
  <2> QED BY <1>3, <2>1, <2>2, <2>3 DEF OnlyLive
<1>11. ASSUME again, ~changed' PROVE ~before /\ in' = in /\ out' = out /\ Settled(n)
  <2>1. ~before /\ kept \subseteq in[n] \cup Use(n) /\ out1 = out[n]
    BY <1>3, <1>11
  <2>2. Use(n) \subseteq in[n]
    BY <1>11 DEF UsesKnown
  <2>3. kept \subseteq in[n]
    BY <2>1, <2>2
  <2>4. in1 = in
    BY <1>1, <2>2, <2>3
  <2>5. out' = out
    BY <1>1, <1>3, <2>1
  <2>6. \A s \in Succ(n) : in[s] \subseteq out[n]
    BY <2>1, <2>4
  <2> QED BY <1>3, <2>1, <2>3, <2>4, <2>5, <2>6 DEF Settled
<1> QED BY <1>3, <1>6, <1>7, <1>8, <1>9, <1>10, <1>11

----------------------------------------------------------------------------
(* The invariant *)

LEMMA Start == Init => IInv
<1> SUFFICES ASSUME Init PROVE IInv
  OBVIOUS
<1>1. code \in [Node -> Instrs \cup {Frame}]
  <2>1. PICK body \in [1 .. N - 2 -> Instrs] :
          code = [m \in Node |-> IF m \in {Entry, Exit} THEN Frame ELSE body[m]]
    BY DEF Init
  <2>2. \A m \in Node : m \notin {Entry, Exit} => m \in 1 .. N - 2
    BY NAssumption DEF Node, Entry, Exit
  <2> QED BY <2>1, <2>2
<1>2. live \in [Vars -> SUBSET Node]
  <2>1. \A v \in Vars : LiveBefore(v) \in SUBSET Node
    BY DEF LiveBefore
  <2> QED BY <2>1 DEF Init
<1>3. stack \in Seq([node : Node, todo : SUBSET Node])
  BY DEF Init
<1>4. TypeOK
  <2>1. /\ pc = "pass" /\ visited = {} /\ changed = FALSE /\ again = FALSE
        /\ links = {} /\ in = [n \in Node |-> {}] /\ out = [n \in Node |-> {}]
    BY DEF Init
  <2> QED BY <1>1, <1>2, <1>3, <2>1 DEF TypeOK
<1> QED BY <1>4 DEF Init, IInv, LiveIsLeast, OnlyLive, SearchComplete, UsesKnown,
                    NoChangeSettles, GraphBuilt

\* The stack without its last frame
LEMMA PopFrame ==
  ASSUME NEW F, NEW st \in Seq(F), st # <<>>
  PROVE  /\ Len(st) \in Nat \ {0} /\ DOMAIN st = 1 .. Len(st)
         /\ \A p \in DOMAIN st : st[p] \in F
         /\ SubSeq(st, 1, Len(st) - 1) \in Seq(F)
         /\ \A p \in DOMAIN st : p # Len(st) =>
              /\ p \in DOMAIN SubSeq(st, 1, Len(st) - 1)
              /\ SubSeq(st, 1, Len(st) - 1)[p] = st[p]
<1> DEFINE len == Len(st)
           sub == SubSeq(st, 1, len - 1)
<1>1. len \in Nat \ {0} /\ DOMAIN st = 1 .. len
  BY EmptySeq
<1>2. \A p \in DOMAIN st : st[p] \in F
  BY <1>1
<1>3. /\ sub \in Seq(F)
      /\ Len(sub) = IF 1 <= len - 1 THEN len - 1 ELSE 0
      /\ \A p \in 1 .. len - 1 : sub[p] = st[p]
  BY <1>1, <1>2
<1>4. DOMAIN sub = 1 .. len - 1
  BY <1>1, <1>3
<1>5. \A p \in DOMAIN st : p # len => p \in 1 .. len - 1
  BY <1>1
<1> HIDE DEF sub, len
<1>6. \A p \in DOMAIN st : p # len => p \in DOMAIN sub /\ sub[p] = st[p]
  BY <1>3, <1>4, <1>5
<1> QED BY <1>1, <1>2, <1>3, <1>6 DEF sub, len

\* Once the search ends, it has been everywhere.
LEMMA AllVisited ==
  ASSUME TypeOK, ReachesExit, SearchComplete, pc = "walk", stack = <<>>
  PROVE  visited = Node
<1>1. \A n \in Node : Succ(n) \cap visited # {} => n \in visited
  BY DEF SearchComplete
<1>2. visited \in SUBSET Node /\ Exit \in visited
  BY DEF TypeOK, SearchComplete
<1> QED BY <1>1, <1>2 DEF ReachesExit

\* Every step keeps the invariant.
LEMMA StepKeeps == IInv /\ [Next]_vars => IInv'
<1> SUFFICES ASSUME IInv, [Next]_vars PROVE IInv'
  OBVIOUS
<1> USE DEF IInv
<1>1. code \in [Node -> Instrs \cup {Frame}] /\ Exit \in Node
  BY NAssumption DEF TypeOK, Exit, Node
<1>2. CASE UNCHANGED vars
  <2>1. code' = code /\ live' = live
    BY <1>2 DEF vars, given
  <2>2. TypeOK'
    BY <1>2 DEF vars, given, sets, TypeOK
  <2>3. LiveIsLeast' /\ ReachesExit' /\ OnlyLive'
    BY <1>2, <2>1, GraphFixed DEF vars, given, sets, LiveIsLeast, OnlyLive
  <2>4. SearchComplete' /\ UsesKnown' /\ NoChangeSettles' /\ GraphBuilt'
    BY <1>2, <2>1, GraphFixed DEF vars, given, sets, SearchComplete, UsesKnown,
         NoChangeSettles, GraphBuilt, Settled, Pairs
  <2> QED BY <2>2, <2>3, <2>4
<1>3. CASE StartWalk
  <2>1. /\ code' = code /\ live' = live /\ again' = again /\ links' = links
        /\ pc = "pass" /\ pc' = "walk" /\ Visit(Exit, {}, <<>>, FALSE)
    BY <1>3 DEF StartWalk, given
  <2>2. <<>> \in Seq([node : Node, todo : SUBSET Node])
    OBVIOUS
  <2>3. /\ in' \in [Node -> SUBSET Vars] /\ out' \in [Node -> SUBSET Vars]
        /\ changed' \in BOOLEAN /\ visited' = {Exit}
        /\ stack' = Append(<<>>, [node |-> Exit, todo |-> Pred(Exit)])
        /\ stack' \in Seq([node : Node, todo : SUBSET Node])
        /\ OnlyLive'
        /\ \A m \in Node : in[m] \subseteq in'[m]
        /\ Use(Exit) \subseteq in'[Exit]
        /\ (again /\ ~changed' => in' = in /\ out' = out /\ Settled(Exit))
    <3>1. /\ TypeOK /\ LiveIsLeast /\ OnlyLive /\ UsesKnown
          /\ {} \in SUBSET Node /\ FALSE \in BOOLEAN /\ {} \cup {Exit} = {Exit}
      OBVIOUS
    <3> QED BY ONLY <1>1, <2>1, <2>2, <3>1, VisitStep, Zenon
  <2>4. TypeOK'
    BY <1>1, <2>1, <2>3 DEF TypeOK
  <2>5. ReachesExit' /\ LiveIsLeast'
    BY <2>1, GraphFixed DEF LiveIsLeast
  <2>6. SearchComplete'
    <3>1. \A m \in Node : Exit \in Succ(m) => m \in stack'[1].todo /\ 1 \in DOMAIN stack'
      BY <2>3 DEF Pred
    <3>2. \A m \in Node : Exit \in Succ(m)' => \E p \in DOMAIN stack' : m \in stack'[p].todo
      BY <2>1, <3>1, GraphFixed
    <3> QED BY <2>3, <3>2 DEF SearchComplete
  <2>7. UsesKnown'
    <3>1. again => \A n \in Node : Use(n) \subseteq in'[n]
      BY <2>3 DEF UsesKnown
    <3> QED BY <2>1, <2>3, <3>1, GraphFixed DEF UsesKnown
  <2>8. NoChangeSettles'
    <3>1. again /\ ~changed' => Settled(Exit)'
      BY <2>1, <2>3, GraphFixed DEF Settled
    <3> QED BY <2>1, <2>3, <3>1 DEF NoChangeSettles
  <2>9. GraphBuilt'
    BY <2>1 DEF GraphBuilt
  <2> QED BY <2>3, <2>4, <2>5, <2>6, <2>7, <2>8, <2>9
<1>4. ASSUME NEW m \in Node, Call(m) PROVE IInv'
  <2> DEFINE top == Len(stack)
             caller == [stack EXCEPT ![top].todo = @ \ {m}]
  <2>1. /\ code' = code /\ live' = live /\ again' = again /\ links' = links
        /\ pc = "walk" /\ pc' = "walk" /\ stack # <<>> /\ m \in stack[top].todo
        /\ IF m \in visited
             THEN /\ stack' = caller /\ in' = in /\ out' = out
                  /\ visited' = visited /\ changed' = changed
             ELSE Visit(m, visited, caller, changed)
    BY <1>4 DEF Call, given
  <2>2. /\ stack \in Seq([node : Node, todo : SUBSET Node]) /\ top \in DOMAIN stack
    BY <2>1 DEF TypeOK
  <2>3. /\ caller \in Seq([node : Node, todo : SUBSET Node])
        /\ DOMAIN caller = DOMAIN stack
        /\ \A p \in DOMAIN stack : \A k \in stack[p].todo : k # m => k \in caller[p].todo
    <3>1. /\ top \in Nat \ {0} /\ DOMAIN stack = 1 .. top
          /\ \A p \in DOMAIN stack : stack[p] \in [node : Node, todo : SUBSET Node]
      <4>1. stack # <<>>
        BY <2>1
      <4> QED BY ONLY <2>2, <4>1, PopFrame, Zenon
    <3>2. [stack[top] EXCEPT !.todo = @ \ {m}] \in [node : Node, todo : SUBSET Node]
      BY <2>2, <3>1
    <3> QED BY <2>2, <3>1, <3>2
  <2>4. ReachesExit' /\ LiveIsLeast'
    BY <2>1, GraphFixed DEF LiveIsLeast
  <2>5. GraphBuilt'
    BY <2>1 DEF GraphBuilt
  <2>6. CASE m \in visited
    <3>1. TypeOK'
      BY <2>1, <2>3, <2>6 DEF TypeOK
    <3>2. OnlyLive'
      BY <2>1, <2>6, GraphFixed DEF OnlyLive
    <3>3. SearchComplete'
      BY <2>1, <2>3, <2>6, GraphFixed DEF SearchComplete
    <3>4. UsesKnown' /\ NoChangeSettles'
      BY <2>1, <2>6, GraphFixed DEF UsesKnown, NoChangeSettles, Settled
    <3> QED BY <2>4, <2>5, <3>1, <3>2, <3>3, <3>4
  <2>7. CASE m \notin visited
    <3>1. visited \in SUBSET Node /\ changed \in BOOLEAN
      BY DEF TypeOK
    <3>2. /\ in' \in [Node -> SUBSET Vars] /\ out' \in [Node -> SUBSET Vars]
          /\ changed' \in BOOLEAN /\ visited' = visited \cup {m}
          /\ stack' = Append(caller, [node |-> m, todo |-> Pred(m)])
          /\ stack' \in Seq([node : Node, todo : SUBSET Node])
          /\ OnlyLive'
          /\ \A k \in Node : in[k] \subseteq in'[k]
          /\ Use(m) \subseteq in'[m]
          /\ (again /\ ~changed' =>
                ~changed /\ in' = in /\ out' = out /\ Settled(m))
      <4>1. /\ TypeOK /\ LiveIsLeast /\ OnlyLive /\ UsesKnown /\ m \in Node
            /\ Visit(m, visited, caller, changed) /\ code' = code /\ live' = live
        BY <2>1, <2>7
      <4>2. caller \in Seq([node : Node, todo : SUBSET Node])
        BY <2>3
      <4> HIDE DEF caller
      <4> QED BY ONLY <3>1, <4>1, <4>2, VisitStep, Zenon
    <3>3. TypeOK'
      BY <2>1, <3>1, <3>2 DEF TypeOK
    <3>4. SearchComplete'
      <4>1. \A p \in DOMAIN stack : p \in DOMAIN stack' /\ stack'[p] = caller[p]
        BY <2>3, <3>2
      <4>2. Len(stack') \in DOMAIN stack' /\ stack'[Len(stack')].todo = Pred(m)
        BY <2>3, <3>2
      <4> SUFFICES ASSUME NEW n \in visited', NEW k \in Node, n \in Succ(k), k \notin visited'
                   PROVE  \E p \in DOMAIN stack' : k \in stack'[p].todo
        BY <2>1, <3>2, GraphFixed DEF SearchComplete
      <4>3. CASE n = m
        BY <4>2, <4>3 DEF Pred
      <4>4. CASE n \in visited
        <5>1. PICK p \in DOMAIN stack : k \in stack[p].todo
          BY <2>1, <3>2, <4>4 DEF SearchComplete
        <5> QED BY <2>3, <3>2, <4>1, <5>1
      <4> QED BY <3>2, <4>3, <4>4
    <3>5. UsesKnown'
      <4>1. again => \A n \in Node : Use(n) \subseteq in'[n]
        BY <3>2 DEF UsesKnown
      <4>2. \A n \in visited \cup {m} : Use(n) \subseteq in'[n]
        BY <2>1, <3>1, <3>2 DEF UsesKnown
      <4> QED BY <2>1, <3>2, <4>1, <4>2, GraphFixed DEF UsesKnown
    <3>6. NoChangeSettles'
      <4>1. again /\ ~changed' => \A n \in visited \cup {m} : Settled(n)
        BY <2>1, <3>2 DEF NoChangeSettles
      <4>2. again /\ ~changed' => \A n \in visited \cup {m} : Settled(n)'
        BY <2>1, <3>2, <4>1, GraphFixed DEF Settled
      <4> QED BY <2>1, <3>2, <4>2 DEF NoChangeSettles
    <3> QED BY <2>4, <2>5, <3>2, <3>3, <3>4, <3>5, <3>6
  <2> QED BY <2>6, <2>7
<1>5. CASE Return
  <2>1. /\ code' = code /\ live' = live /\ again' = again /\ links' = links
        /\ pc = "walk" /\ pc' = "walk" /\ stack # <<>> /\ stack[Len(stack)].todo = {}
        /\ stack' = SubSeq(stack, 1, Len(stack) - 1)
        /\ in' = in /\ out' = out /\ visited' = visited /\ changed' = changed
    BY <1>5 DEF Return, given
  <2>2. /\ stack' \in Seq([node : Node, todo : SUBSET Node])
        /\ \A p \in DOMAIN stack : p # Len(stack) =>
              p \in DOMAIN stack' /\ stack'[p] = stack[p]
    BY <2>1, PopFrame DEF TypeOK
  <2>3. TypeOK'
    BY <2>1, <2>2 DEF TypeOK
  <2>4. ReachesExit' /\ LiveIsLeast' /\ OnlyLive' /\ UsesKnown'
    BY <2>1, GraphFixed DEF LiveIsLeast, OnlyLive, UsesKnown
  <2>5. SearchComplete'
    BY <2>1, <2>2, GraphFixed DEF SearchComplete
  <2>6. NoChangeSettles' /\ GraphBuilt'
    BY <2>1, GraphFixed DEF NoChangeSettles, Settled, GraphBuilt
  <2> QED BY <2>3, <2>4, <2>5, <2>6
<1>6. CASE EndWalk
  <2>1. /\ code' = code /\ live' = live /\ links' = links
        /\ pc = "walk" /\ pc' = (IF changed THEN "pass" ELSE "done") /\ stack = <<>>
        /\ again' = (again \/ changed)
        /\ stack' = stack /\ in' = in /\ out' = out
        /\ visited' = visited /\ changed' = changed
    BY <1>6 DEF EndWalk, given, sets
  <2>2. visited = Node
    BY <2>1, AllVisited
  <2>3. TypeOK'
    BY <2>1 DEF TypeOK
  <2>4. ReachesExit' /\ LiveIsLeast' /\ OnlyLive'
    BY <2>1, GraphFixed DEF LiveIsLeast, OnlyLive
  <2>5. SearchComplete' /\ GraphBuilt'
    BY <2>1 DEF SearchComplete, GraphBuilt
  <2>6. UsesKnown'
    BY <2>1, <2>2, GraphFixed DEF UsesKnown
  <2>7. NoChangeSettles'
    <3>1. ~changed /\ again => \A n \in Node : Settled(n)
      BY <2>1, <2>2 DEF NoChangeSettles
    <3>2. ~changed /\ again => \A n \in Node : Settled(n)'
      BY <2>1, <3>1, GraphFixed DEF Settled
    <3> QED BY <2>1, <3>2 DEF NoChangeSettles, TypeOK
  <2> QED BY <2>3, <2>4, <2>5, <2>6, <2>7
<1>7. CASE ig_build_graph
  <2>1. /\ code' = code /\ live' = live /\ again' = again
        /\ pc = "done" /\ pc' = "built"
        /\ stack' = stack /\ in' = in /\ out' = out
        /\ visited' = visited /\ changed' = changed
        /\ links' = UNION {Pairs(Def(n), out[n]) \cup Pairs(out[n], out[n])
                             \cup Pairs(in[n], in[n]) : n \in Node}
    BY <1>7 DEF ig_build_graph, given, sets
  <2>2. links' \in SUBSET SUBSET Vars
    <3>1. \A n \in Node : Def(n) \subseteq Vars /\ in[n] \subseteq Vars /\ out[n] \subseteq Vars
      BY <1>1, GraphTypes DEF TypeOK
    <3>2. \A S, T \in SUBSET Vars : Pairs(S, T) \subseteq SUBSET Vars
      BY DEF Pairs
    <3>3. \A n \in Node : Pairs(Def(n), out[n]) \cup Pairs(out[n], out[n])
                             \cup Pairs(in[n], in[n]) \subseteq SUBSET Vars
      BY <3>1, <3>2
    <3> QED BY <2>1, <3>3
  <2>3. TypeOK'
    BY <2>1, <2>2 DEF TypeOK
  <2>4. ReachesExit' /\ LiveIsLeast' /\ OnlyLive' /\ SearchComplete' /\ UsesKnown'
    BY <2>1, GraphFixed DEF LiveIsLeast, OnlyLive, SearchComplete, UsesKnown
  <2>5. NoChangeSettles'
    BY <2>1, GraphFixed DEF NoChangeSettles, Settled
  <2>6. GraphBuilt'
    <3>1. \A n \in Node : Pairs(Def(n), out[n]) \subseteq links'
      BY <2>1
    <3>2. \A n \in Node : Pairs(Def(n), out[n])' = Pairs(Def(n), out[n])
      BY <2>1, GraphFixed DEF Pairs
    <3> QED BY <3>1, <3>2 DEF GraphBuilt
  <2> QED BY <2>3, <2>4, <2>5, <2>6
<1> QED BY <1>2, <1>3, <1>4, <1>5, <1>6, <1>7 DEF Next

\* The invariant holds in every reachable state.
LEMMA Invariance == Spec => []IInv
<1> QED BY Start, StepKeeps, PTL DEF Spec

----------------------------------------------------------------------------
(* What follows from it *)

\* When the equations hold everywhere, every live variable has been found.
LEMMA SettledIsComplete ==
  ASSUME IInv, again, pc \in {"done", "built"}
  PROVE  AllLive
<1>1. code \in [Node -> Instrs \cup {Frame}]
  BY DEF IInv, TypeOK
<1> SUFFICES ASSUME NEW v \in Vars
             PROVE  /\ \A n \in live[v] : v \in in[n]
                    /\ \A n \in LiveAfter(v) : v \in out[n]
  BY DEF AllLive
<1>2. \A n \in Node : Settled(n) /\ Use(n) \subseteq in[n]
  BY DEF IInv, NoChangeSettles, UsesKnown
<1> DEFINE Found == {n \in Node : v \in in[n]}
<1>3. Closed(v, Found)
  <2> SUFFICES ASSUME NEW n \in Node,
                      v \in Use(n) \/ (v \notin Def(n) /\ Succ(n) \cap Found # {})
               PROVE  v \in in[n]
    BY DEF Closed
  <2>1. CASE v \in Use(n)
    BY <1>2, <2>1
  <2>2. CASE v \notin Def(n) /\ Succ(n) \cap Found # {}
    <3>1. v \in out[n]
      BY <1>2, <2>2 DEF Settled
    <3> QED BY <1>2, <2>2, <3>1 DEF Settled
  <2> QED BY <2>1, <2>2
<1>4. live[v] \subseteq Found
  BY <1>1, <1>3, LiveLeast DEF IInv
<1>5. \A n \in LiveAfter(v) : v \in out[n]
  BY <1>2, <1>4 DEF LiveAfter, Settled
<1> QED BY <1>4, <1>5

\* No set ever holds a variable that is not live: the walks only ever add, so
\* a variable added by mistake would stay.
THEOREM OnlyLiveFound == Spec => []OnlyLive
<1>1. IInv => OnlyLive
  BY DEF IInv
<1> QED BY <1>1, Invariance, PTL

\* mcfg_calculate_liveness finds every live variable of every function that
\* takes it a second walk, whatever the order of the predecessors.
THEOREM SecondWalkIsComplete == Spec => []SecondWalkComplete
<1>1. IInv => SecondWalkComplete
  BY SettledIsComplete DEF SecondWalkComplete
<1> QED BY <1>1, Invariance, PTL

\* In the same functions, ig_build_graph links what a node writes with all that
\* is needed after it, so that no colouring lets one destroy the other.
THEOREM ClobbersAreLinked == Spec => []ClobbersLinked
<1>1. IInv => ClobbersLinked
  <2> SUFFICES ASSUME IInv, pc = "built", again, NEW n \in Node, NEW v \in Vars,
                      NEW w \in Vars, v # w, w \in Def(n), n \in LiveAfter(v)
               PROVE  {v, w} \in links
    BY DEF ClobbersLinked
  <2>1. v \in out[n]
    BY SettledIsComplete DEF AllLive
  <2>2. {w, v} \in Pairs(Def(n), out[n])
    BY <2>1 DEF Pairs
  <2>3. Pairs(Def(n), out[n]) \subseteq links
    BY DEF IInv, GraphBuilt
  <2> QED BY <2>2, <2>3
<1> QED BY <1>1, Invariance, PTL

\* The sets, the search stack and the graph keep their types.
THEOREM TypesKept == Spec => []TypeOK
<1>1. IInv => TypeOK
  BY DEF IInv
<1> QED BY <1>1, Invariance, PTL
=============================================================================
