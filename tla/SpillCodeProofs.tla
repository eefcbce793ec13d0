-------------------------- MODULE SpillCodeProofs --------------------------
(***************************************************************************)
(* Proofs about SpillCode, for all functions, whatever registers are       *)
(* marked, in however many passes.                                         *)
(*                                                                         *)
(* EdgesPaired and GraphFollowsCode are not inductive: that the graph has  *)
(* the right successors says nothing of an edge that is there twice, and   *)
(* mcfg_adjust_edge takes away one of the two.  IInv counts edges: between *)
(* any two instructions there are as many as there are ways, a fall and a  *)
(* jump, to come from the one to the other (Exact).  An insertion keeps    *)
(* that unless a branch goes to the instruction behind the new one, when   *)
(* the loop of mcfg_insert_node moves the edges of branches too; these are *)
(* the situations odd records.  That both ends of an edge agree is kept in *)
(* every situation.                                                        *)
(*                                                                         *)
(* UsesReadLast compares the code as it is allocated with the function as  *)
(* it was.  Held says that there are R and M: R[a][x] holds the registers  *)
(* of the source whose last value register x has when instruction a is     *)
(* reached, M[a][h] those whose last value home h has.  Both are closed    *)
(* under the flow of the code (Flow), and they are enough for every        *)
(* operand and every store (OperandsKnown, StoresKnown).  In the middle of *)
(* a pass the uses and definitions that are still to come (Todo) count as  *)
(* if their loads and stores were there, so that an insertion changes      *)
(* nothing but where a value is known from.  NumberRegs renames R and M.   *)
(* When the code runs, registers and frame agree with them (Dynamic).      *)
(***************************************************************************)
EXTENDS SpillCode, IndexLemmas, SequenceTheorems

----------------------------------------------------------------------------
(* How often an element occurs in a list *)

Places(list, x) == {k \in DOMAIN list : list[k] = x}

\* A list counts an element at the places where it stands, which are finitely many.
LEMMA PlacesFinite ==
  ASSUME NEW S, NEW list \in Seq(S), NEW x
  PROVE  IsFiniteSet(Places(list, x)) /\ Count(list, x) = Cardinality(Places(list, x))
         /\ Count(list, x) \in Nat
<1>1. DOMAIN list = 1 .. Len(list) /\ Len(list) \in Nat
  OBVIOUS
<1>2. IsFiniteSet(1 .. Len(list))
  BY <1>1, FS_Interval
<1>3. Places(list, x) \subseteq 1 .. Len(list)
  BY <1>1 DEF Places
<1>4. IsFiniteSet(Places(list, x))
  BY <1>2, <1>3, FS_Subset
<1>5. Count(list, x) = Cardinality(Places(list, x))
  BY DEF Count, Places
<1> QED BY <1>4, <1>5, FS_CardinalityType

\* An element is counted when it is in the list.
LEMMA CountPositive ==
  ASSUME NEW S, NEW list \in Seq(S), NEW x
  PROVE  Count(list, x) # 0 <=> \E k \in DOMAIN list : list[k] = x
<1>1. Count(list, x) # 0 <=> Places(list, x) # {}
  BY PlacesFinite, FS_EmptySet
<1> QED BY <1>1 DEF Places

\* The element appended is counted once more, the others as before.
LEMMA CountAppend ==
  ASSUME NEW S, NEW list \in Seq(S), NEW e \in S, NEW x
  PROVE  Count(Append(list, e), x) = IF e = x THEN Count(list, x) + 1 ELSE Count(list, x)
<1> DEFINE n == Len(list)
           longer == Append(list, e)
<1>1. longer \in Seq(S) /\ Len(longer) = n + 1 /\ n \in Nat
  OBVIOUS
<1>2. \A k \in 1 .. n : longer[k] = list[k]
  OBVIOUS
<1>3. longer[n + 1] = e
  OBVIOUS
<1>4. DOMAIN longer = 1 .. n + 1 /\ DOMAIN list = 1 .. n
  BY <1>1
<1>5. n + 1 \notin Places(list, x)
  BY <1>1, <1>4 DEF Places
<1> HIDE DEF longer, n
<1>6. CASE e = x
  <2>1. Places(longer, x) = Places(list, x) \cup {n + 1}
    BY <1>1, <1>2, <1>3, <1>4, <1>6 DEF Places
  <2>2. Cardinality(Places(longer, x)) = Cardinality(Places(list, x)) + 1
    BY <1>5, <2>1, PlacesFinite, FS_AddElement
  <2>3. Count(longer, x) = Cardinality(Places(longer, x))
    BY <1>1, PlacesFinite
  <2>4. Count(list, x) = Cardinality(Places(list, x))
    BY PlacesFinite
  <2> QED BY <1>6, <2>2, <2>3, <2>4 DEF longer
<1>7. CASE e # x
  <2>1. Places(longer, x) = Places(list, x)
    BY <1>1, <1>2, <1>3, <1>4, <1>7 DEF Places
  <2> QED BY <1>1, <1>7, <2>1, PlacesFinite DEF longer
<1> QED BY <1>6, <1>7

\* An element that is in a list has a first place there.
LEMMA FirstPlace ==
  ASSUME NEW S, NEW list \in Seq(S), NEW x, \E k \in DOMAIN list : list[k] = x
  PROVE  \E k \in DOMAIN list : list[k] = x /\ \A l \in 1 .. k - 1 : list[l] # x
<1>1. DOMAIN list = 1 .. Len(list) /\ Len(list) \in Nat
  OBVIOUS
<1>2. Places(list, x) \in SUBSET Nat /\ Places(list, x) # {}
  BY <1>1 DEF Places
<1>3. PICK k \in Places(list, x) : \A l \in Places(list, x) : k <= l
  BY <1>2, Least
<1>4. ASSUME NEW l \in 1 .. k - 1 PROVE list[l] # x
  BY <1>1, <1>3 DEF Places
<1> QED BY <1>3, <1>4 DEF Places

\* Unlink takes one occurrence out and leaves the others.
LEMMA UnlinkOne ==
  ASSUME NEW S, NEW list \in Seq(S), NEW x, \E k \in DOMAIN list : list[k] = x
  PROVE  /\ Unlink(list, x) \in Seq(S)
         /\ Len(Unlink(list, x)) = Len(list) - 1
         /\ \A y : Count(Unlink(list, x), y) =
                     IF y = x THEN Count(list, y) - 1 ELSE Count(list, y)
<1> DEFINE n == Len(list)
           First(k) == list[k] = x /\ \A l \in 1 .. k - 1 : list[l] # x
           k0 == CHOOSE k \in DOMAIN list : First(k)
           swapped == [list EXCEPT ![k0] = Last(list)]
           rest == Front(swapped)
<1>1. n \in Nat /\ DOMAIN list = 1 .. n /\ list \in [1 .. n -> S]
  OBVIOUS
<1>2. k0 \in 1 .. n /\ list[k0] = x
  BY <1>1, FirstPlace
<1>3. Unlink(list, x) = rest
  BY DEF Unlink
<1> HIDE DEF k0
<1>4. /\ Last(list) = list[n] /\ list[n] \in S
  BY <1>1, <1>2 DEF Last
<1>5. swapped \in Seq(S) /\ Len(swapped) = n
  BY <1>1, <1>2, <1>4, ExceptSeq
<1>6. /\ rest \in Seq(S) /\ Len(rest) = n - 1
      /\ \A k \in 1 .. n - 1 : rest[k] = IF k = k0 THEN list[n] ELSE list[k]
  <2>1. \A k \in 1 .. n - 1 : swapped[k] \in S
    BY <1>1, <1>4
  <2>2. \A k \in 1 .. n - 1 : swapped[k] = IF k = k0 THEN list[n] ELSE list[k]
    BY <1>1, <1>2, <1>4
  <2>3. rest = SubSeq(swapped, 1, n - 1)
    BY <1>5 DEF Front
  <2> HIDE DEF swapped, rest
  <2>4. /\ rest \in Seq(S) /\ Len(rest) = n - 1
        /\ \A k \in 1 .. n - 1 : rest[k] = swapped[k]
    BY <1>1, <1>2, <2>1, <2>3, SubSeqProperties
  <2> QED BY <2>2, <2>4
<1> HIDE DEF rest, swapped
<1>7. DOMAIN rest = 1 .. n - 1
  BY <1>1, <1>2, <1>6
<1> HIDE DEF n
<1>8. ASSUME NEW y
      PROVE  Count(rest, y) = IF y = x THEN Count(list, y) - 1 ELSE Count(list, y)
  <2> DEFINE P == Places(list, y)
             Q == Places(rest, y)
  <2>1. /\ \A k : k \in P <=> k \in 1 .. n /\ list[k] = y
        /\ \A k : k \in Q <=> k \in 1 .. n - 1 /\ rest[k] = y
    <3>1. DOMAIN list = 1 .. n
      BY <1>1
    <3> QED BY <1>7, <3>1 DEF Places
  <2>2. IsFiniteSet(P) /\ Count(list, y) = Cardinality(P)
        /\ Count(rest, y) = Cardinality(Q) /\ Cardinality(P) \in Nat
    BY <1>6, PlacesFinite, FS_CardinalityType
  <2> HIDE DEF P, Q
  <2>3. CASE y = x
    <3>1. CASE list[n] = x
      <4>1. Q = P \ {n}
        <5>1. ASSUME NEW k PROVE k \in Q <=> k \in P /\ k # n
          <6>1. CASE k \in 1 .. n - 1
            <7>1. rest[k] = IF k = k0 THEN list[n] ELSE list[k]
              BY <1>6, <6>1
            <7> QED BY <1>1, <1>2, <2>1, <2>3, <3>1, <6>1, <7>1
          <6> QED BY <1>1, <1>2, <2>1, <6>1
        <5> QED BY <5>1
      <4>2. n \in P
        BY <1>1, <1>2, <2>1, <2>3, <3>1
      <4> QED BY <2>2, <2>3, <4>1, <4>2, FS_RemoveElement
    <3>2. CASE list[n] # x
      <4>1. Q = P \ {k0}
        BY <1>1, <1>2, <1>6, <2>1, <2>3, <3>2
      <4>2. k0 \in P
        BY <1>1, <1>2, <2>1, <2>3
      <4> QED BY <2>2, <2>3, <4>1, <4>2, FS_RemoveElement
    <3> QED BY <3>1, <3>2
  <2>4. CASE y # x /\ list[n] # y
    <3>1. Q = P
      <4>1. ASSUME NEW k PROVE k \in Q <=> k \in P
        <5>1. CASE k \in 1 .. n - 1
          <6>1. rest[k] = IF k = k0 THEN list[n] ELSE list[k]
            BY <1>6, <5>1
          <6> QED BY <1>1, <1>2, <2>1, <2>4, <5>1, <6>1
        <5> QED BY <1>1, <1>2, <2>1, <2>4, <5>1
      <4> QED BY <4>1
    <3> QED BY <2>2, <2>4, <3>1
  <2>5. CASE y # x /\ list[n] = y
    <3>1. n \in P /\ k0 \notin P /\ k0 # n
      BY <1>1, <1>2, <2>1, <2>5
    <3>4. Q = (P \ {n}) \cup {k0}
      <4>1. ASSUME NEW k PROVE k \in Q <=> (k \in P /\ k # n) \/ k = k0
        <5>1. CASE k \in 1 .. n - 1
          <6>1. rest[k] = IF k = k0 THEN list[n] ELSE list[k]
            BY <1>6, <5>1
          <6> QED BY <1>1, <1>2, <2>1, <2>5, <3>1, <5>1, <6>1
        <5> QED BY <1>1, <1>2, <2>1, <2>5, <3>1, <5>1
      <4> QED BY <4>1
    <3>2. IsFiniteSet(P \ {n}) /\ Cardinality(P \ {n}) = Cardinality(P) - 1
      BY <2>2, <3>1, FS_RemoveElement
    <3>3. Cardinality((P \ {n}) \cup {k0}) = Cardinality(P \ {n}) + 1
      BY <3>1, <3>2, FS_AddElement
    <3> QED BY <2>2, <2>5, <3>1, <3>2, <3>3, <3>4
  <2> QED BY <2>3, <2>4, <2>5
<1> QED BY <1>3, <1>6, <1>8 DEF n

----------------------------------------------------------------------------
(* The edges of the graph *)

Ops == SourceOps \cup {"frame", "load", "store", "push_arg"}
Slots == {None} \cup {"var", "temp"} \X Nat
Instr == [op : Ops, src : Seq(Nat), dst : Nat \cup {None}, jump : Nat, slot : Slots]

Lists(N) == [N -> Seq(N)]

\* Functions whose instructions are N, with their graph
Fns(N) ==
  [code : [N -> Instr], order : Seq(N), pred : Lists(N), succ : Lists(N), tmp : Nat]

Paired(f, N) == \A a, b \in N : Count(f.succ[a], b) = Count(f.pred[b], a)

SameList(f, g) == g.code = f.code /\ g.order = f.order /\ g.tmp = f.tmp

\* g has, next to the edges of f, one from c to d.
OneMore(f, g, N, c, d) ==
  \A a, b \in N :
    /\ Count(g.succ[a], b) = Count(f.succ[a], b) + (IF a = c /\ b = d THEN 1 ELSE 0)
    /\ Count(g.pred[b], a) = Count(f.pred[b], a) + (IF a = c /\ b = d THEN 1 ELSE 0)

\* M counts d in the list of c once more than L, and is the same elsewhere.
CountsOneMore(N, L, M, c, d) ==
  \A a, b \in N : Count(M[a], b) = Count(L[a], b) + (IF a = c /\ b = d THEN 1 ELSE 0)

Extended(N, L, M, c, d) == M = [L EXCEPT ![c] = Append(L[c], d)]
Reduced(N, L, M, c, d) == M = [L EXCEPT ![c] = Unlink(L[c], d)]
Rewired(N, f, g, succ, pred) == g = [f EXCEPT !.succ = succ, !.pred = pred]

\* Giving a function other arrays of edges leaves its code alone.
LEMMA NewEdges ==
  ASSUME NEW N, NEW f \in Fns(N), NEW succ \in Lists(N),
         NEW pred \in Lists(N),
         NEW g, Rewired(N, f, g, succ, pred)
  PROVE  g \in Fns(N) /\ SameList(f, g) /\ g.succ = succ /\ g.pred = pred
BY DEF Fns, SameList, Rewired, Lists

\* mcfg_add_edge at one end: the array of one node counts one more.
LEMMA ListAppend ==
  ASSUME NEW N, NEW L \in Lists(N), NEW c \in N, NEW d \in N,
         NEW M, Extended(N, L, M, c, d)
  PROVE  M \in Lists(N) /\ CountsOneMore(N, L, M, c, d)
<1> USE DEF Extended, Lists
<1>1. Append(L[c], d) \in Seq(N) /\ L[c] \in Seq(N)
  OBVIOUS
<1>2. M \in [N -> Seq(N)]
  BY <1>1
<1>3. ASSUME NEW a \in N, NEW b \in N
      PROVE  Count(M[a], b) = Count(L[a], b) + (IF a = c /\ b = d THEN 1 ELSE 0)
  <2>1. Count(L[a], b) \in Nat
    BY PlacesFinite
  <2>2. CASE a = c
    <3>1. M[a] = Append(L[a], d)
      BY <2>2
    <3>2. Count(Append(L[a], d), b) = IF d = b THEN Count(L[a], b) + 1 ELSE Count(L[a], b)
      <4>1. L[a] \in Seq(N)
        OBVIOUS
      <4> QED BY <4>1, CountAppend
    <3> QED BY <2>1, <2>2, <3>1, <3>2
  <2>3. CASE a # c
    <3>1. M[a] = L[a]
      BY <2>3
    <3> QED BY <2>1, <2>3, <3>1
  <2> QED BY <2>2, <2>3
<1> QED BY <1>2, <1>3 DEF CountsOneMore

\* mcfg_adjust_edge at one end: the array of one node counts one less.
LEMMA ListUnlink ==
  ASSUME NEW N, NEW L \in Lists(N), NEW c \in N, NEW d \in N,
         Count(L[c], d) # 0,
         NEW M, Reduced(N, L, M, c, d)
  PROVE  M \in Lists(N) /\ CountsOneMore(N, M, L, c, d)
<1> USE DEF Reduced, Lists
<1>1. L[c] \in Seq(N)
  OBVIOUS
<1>2. \E k \in DOMAIN L[c] : L[c][k] = d
  BY <1>1, CountPositive
<1>3. /\ Unlink(L[c], d) \in Seq(N)
      /\ \A y : Count(Unlink(L[c], d), y)
                 = IF y = d THEN Count(L[c], y) - 1 ELSE Count(L[c], y)
  <2> DEFINE l == L[c]
  <2>1. l \in Seq(N) /\ (\E k \in DOMAIN l : l[k] = d)
    BY <1>1, <1>2
  <2> HIDE DEF l
  <2>2. /\ Unlink(l, d) \in Seq(N)
        /\ \A y : Count(Unlink(l, d), y) = IF y = d THEN Count(l, y) - 1 ELSE Count(l, y)
    BY <2>1, UnlinkOne
  <2> QED BY <2>2 DEF l
<1>4. M \in [N -> Seq(N)]
  BY <1>3
<1>5. ASSUME NEW a \in N, NEW b \in N
      PROVE  Count(L[a], b) = Count(M[a], b) + (IF a = c /\ b = d THEN 1 ELSE 0)
  <2>1. Count(L[a], b) \in Nat
    BY PlacesFinite
  <2>2. M[a] = IF a = c THEN Unlink(L[c], d) ELSE L[a]
    OBVIOUS
  <2> QED BY <1>3, <2>1, <2>2
<1> QED BY <1>4, <1>5 DEF CountsOneMore

\* mcfg_add_edge adds the edge at both of its ends.
LEMMA AddEdge ==
  ASSUME NEW N, NEW f \in Fns(N), NEW c \in N, NEW d \in N
  PROVE  LET g == mcfg_add_edge(f, c, d) IN
         g \in Fns(N) /\ SameList(f, g) /\ OneMore(f, g, N, c, d)
<1> DEFINE succ == [f.succ EXCEPT ![c] = Append(f.succ[c], d)]
           pred == [f.pred EXCEPT ![d] = Append(f.pred[d], c)]
<1>1. f.succ \in Lists(N) /\ f.pred \in Lists(N)
  BY DEF Fns, Lists
<1> DEFINE g == mcfg_add_edge(f, c, d)
<1>2. Rewired(N, f, g, succ, pred)
  BY DEF Fns, mcfg_add_edge, Rewired
<1>5. Extended(N, f.succ, succ, c, d) /\ Extended(N, f.pred, pred, d, c)
  BY DEF Extended
<1> HIDE DEF succ, pred, g
<1>3. succ \in Lists(N) /\ CountsOneMore(N, f.succ, succ, c, d)
  BY <1>1, <1>5, ListAppend
<1>4. pred \in Lists(N) /\ CountsOneMore(N, f.pred, pred, d, c)
  BY <1>1, <1>5, ListAppend
<1>7. g \in Fns(N) /\ SameList(f, g) /\ g.succ = succ /\ g.pred = pred
  BY <1>2, <1>3, <1>4, NewEdges
<1> QED BY <1>3, <1>4, <1>7 DEF OneMore, CountsOneMore, g

\* Both ends of an edge are taken from the arrays.
CutEdge(f, from, dest) ==
  [f EXCEPT !.succ[from] = Unlink(@, dest), !.pred[dest] = Unlink(@, from)]

\* An edge that both ends know is cut at both ends, once.
LEMMA CutOne ==
  ASSUME NEW N, NEW f \in Fns(N), NEW c \in N, NEW d \in N,
         Count(f.succ[c], d) # 0, Count(f.pred[d], c) # 0
  PROVE  LET g == CutEdge(f, c, d) IN
         g \in Fns(N) /\ SameList(f, g) /\ OneMore(g, f, N, c, d)
<1> DEFINE succ == [f.succ EXCEPT ![c] = Unlink(f.succ[c], d)]
           pred == [f.pred EXCEPT ![d] = Unlink(f.pred[d], c)]
<1>1. f.succ \in Lists(N) /\ f.pred \in Lists(N)
  BY DEF Fns, Lists
<1> DEFINE g == CutEdge(f, c, d)
<1>2. Rewired(N, f, g, succ, pred)
  BY DEF Fns, CutEdge, Rewired
<1>5. Reduced(N, f.succ, succ, c, d) /\ Reduced(N, f.pred, pred, d, c)
  BY DEF Reduced
<1> HIDE DEF succ, pred, g
<1>3. succ \in Lists(N) /\ CountsOneMore(N, succ, f.succ, c, d)
  BY <1>1, <1>5, ListUnlink
<1>4. pred \in Lists(N) /\ CountsOneMore(N, pred, f.pred, d, c)
  BY <1>1, <1>5, ListUnlink
<1>7. g \in Fns(N) /\ SameList(f, g) /\ g.succ = succ /\ g.pred = pred
  BY <1>2, <1>3, <1>4, NewEdges
<1> QED BY <1>3, <1>4, <1>7 DEF OneMore, CountsOneMore, g

\* h has the edges of g, but one from c that led to d leads to e.
Adjusted(N, g, h, c, d, e) ==
  \A a, b \in N :
    Count(h.succ[a], b) + (IF a = c /\ b = d THEN 1 ELSE 0)
      = Count(g.succ[a], b) + (IF a = c /\ b = e THEN 1 ELSE 0)

\* mcfg_adjust_edge on a graph whose ends agree takes one edge from its old
\* destination to the new one, and the ends agree afterwards.
LEMMA AdjustEdge ==
  ASSUME NEW N, NEW f \in Fns(N), Paired(f, N), NEW c \in N, NEW d \in N, NEW e \in N,
         Count(f.succ[c], d) # 0
  PROVE  LET g == mcfg_adjust_edge(f, c, d, e) IN
         g \in Fns(N) /\ SameList(f, g) /\ Paired(g, N) /\ Adjusted(N, f, g, c, d, e)
<1> DEFINE h == CutEdge(f, c, d)
           g == mcfg_adjust_edge(f, c, d, e)
<1>1. Count(f.pred[d], c) # 0
  BY DEF Paired
<1>2. h \in Fns(N) /\ SameList(f, h) /\ OneMore(h, f, N, c, d)
  BY <1>1, CutOne
<1>3. g = mcfg_add_edge(h, c, e)
  BY DEF mcfg_adjust_edge, CutEdge
<1> HIDE DEF g, h
<1>4. g \in Fns(N) /\ SameList(h, g) /\ OneMore(h, g, N, c, e)
  BY <1>2, <1>3, AddEdge
<1>5. SameList(f, g)
  BY <1>2, <1>4 DEF SameList
<1>6. ASSUME NEW a \in N, NEW b \in N
      PROVE  /\ Count(g.succ[a], b) = Count(g.pred[b], a)
             /\ Count(g.succ[a], b) + (IF a = c /\ b = d THEN 1 ELSE 0)
                  = Count(f.succ[a], b) + (IF a = c /\ b = e THEN 1 ELSE 0)
  <2>1. h.succ[a] \in Seq(N) /\ h.pred[b] \in Seq(N)
    BY <1>2 DEF Fns, Lists
  <2>2. Count(h.succ[a], b) \in Nat /\ Count(h.pred[b], a) \in Nat
    BY <2>1, PlacesFinite
  <2>3. Count(f.succ[a], b) = Count(f.pred[b], a)
    BY DEF Paired
  <2>4. /\ Count(f.succ[a], b) = Count(h.succ[a], b) + (IF a = c /\ b = d THEN 1 ELSE 0)
        /\ Count(f.pred[b], a) = Count(h.pred[b], a) + (IF a = c /\ b = d THEN 1 ELSE 0)
    BY <1>2 DEF OneMore
  <2>5. /\ Count(g.succ[a], b) = Count(h.succ[a], b) + (IF a = c /\ b = e THEN 1 ELSE 0)
        /\ Count(g.pred[b], a) = Count(h.pred[b], a) + (IF a = c /\ b = e THEN 1 ELSE 0)
    BY <1>4 DEF OneMore
  <2> DEFINE u == Count(h.succ[a], b)
             v == Count(h.pred[b], a)
  <2>6. u \in Nat /\ v \in Nat /\ u = v
    <3> DEFINE one == IF a = c /\ b = d THEN 1 ELSE 0
    <3>1. one \in Nat /\ u \in Nat /\ v \in Nat
      BY <2>2
    <3>2. u + one = v + one
      BY <2>3, <2>4
    <3> HIDE DEF one, u, v
    <3> QED BY <3>1, <3>2
  <2>7. Count(g.succ[a], b) = Count(g.pred[b], a)
    BY <2>5, <2>6
  <2>8. Count(f.succ[a], b) = u + (IF a = c /\ b = d THEN 1 ELSE 0)
    BY <2>4
  <2>9. Count(g.succ[a], b) = u + (IF a = c /\ b = e THEN 1 ELSE 0)
    BY <2>5
  <2> HIDE DEF u, v
  <2> QED BY <2>6, <2>7, <2>8, <2>9
<1>7. Paired(g, N)
  BY <1>6 DEF Paired
<1>8. Adjusted(N, f, g, c, d, e)
  BY <1>6 DEF Adjusted
<1> QED BY <1>4, <1>5, <1>7, <1>8 DEF g

\* One round of the loop of mcfg_insert_node
MoveOne(g, i, new, next) ==
  IF i <= Len(g.pred[next]) THEN mcfg_adjust_edge(g, g.pred[next][i], next, new) ELSE g

\* One round of the loop of mcfg_insert_node keeps the ends in agreement.
LEMMA MoveOneKeeps ==
  ASSUME NEW N, NEW g \in Fns(N), Paired(g, N), NEW new \in N, NEW next \in N,
         NEW i \in Nat \ {0}
  PROVE  LET h == MoveOne(g, i, new, next) IN
         h \in Fns(N) /\ SameList(g, h) /\ Paired(h, N)
<1>1. CASE i <= Len(g.pred[next])
  <2> DEFINE c == g.pred[next][i]
  <2>1. g.pred[next] \in Seq(N)
    BY DEF Fns, Lists
  <2>2. i \in DOMAIN g.pred[next] /\ c \in N
    BY <1>1, <2>1
  <2>3. Count(g.pred[next], c) # 0
    BY <2>1, <2>2, CountPositive
  <2> HIDE DEF c
  <2>4. Count(g.succ[c], next) # 0
    BY <2>2, <2>3 DEF Paired
  <2> DEFINE h == mcfg_adjust_edge(g, c, next, new)
  <2>5. h \in Fns(N) /\ SameList(g, h) /\ Paired(h, N)
    BY <2>2, <2>4, AdjustEdge
  <2>6. MoveOne(g, i, new, next) = h
    BY <1>1 DEF MoveOne, c
  <2> HIDE DEF h
  <2> QED BY <2>5, <2>6
<1>2. CASE ~(i <= Len(g.pred[next]))
  <2>1. MoveOne(g, i, new, next) = g
    BY <1>2 DEF MoveOne
  <2> QED BY <2>1 DEF SameList
<1> QED BY <1>1, <1>2

\* The rounds of the loop, each within the functions with paired edges
LEMMA MoveRounds ==
  ASSUME NEW N, NEW f \in Fns(N), Paired(f, N), NEW new \in N, NEW next \in N
  PROVE  LET n == Len(f.pred[next]) IN
         \E after : /\ MovePreds(f, new, next) = after[n]
                    /\ after[0] = f
                    /\ \A i \in 1 .. n : after[i] = MoveOne(after[i - 1], i, new, next)
                    /\ \A i \in 0 .. n : /\ after[i] \in Fns(N) /\ Paired(after[i], N)
                                         /\ SameList(f, after[i])
<1> DEFINE n == Len(f.pred[next])
           S == {g \in Fns(N) : Paired(g, N) /\ SameList(f, g)}
           step == [p \in S \X (1 .. n) |-> MoveOne(p[1], p[2], new, next)]
           Solves(g) == g = [i \in 0 .. n |->
                               IF i = 0 THEN f ELSE MoveOne(g[i - 1], i, new, next)]
           after == CHOOSE g : Solves(g)
<1>1. n \in Nat
  BY DEF Fns, Lists
<1>2. f \in S
  BY DEF SameList
<1>3. ASSUME NEW g \in S, NEW i \in 1 .. n PROVE MoveOne(g, i, new, next) \in S
  <2> DEFINE h == MoveOne(g, i, new, next)
  <2>1. h \in Fns(N) /\ SameList(g, h) /\ Paired(h, N)
    BY <1>1, MoveOneKeeps
  <2> HIDE DEF h
  <2>2. SameList(f, h)
    BY <2>1 DEF SameList
  <2>3. h \in S
    BY <2>1, <2>2
  <2> QED BY <2>3 DEF h
<1> HIDE DEF S, n
<1>4. step \in Rounds(S, n)
  BY <1>3 DEF Rounds
<1>5. PICK g \in [0 .. n -> S] : Loop(g, f, n, step)
  <2>1. Loops(S, f, n, step) # {}
    <3> HIDE DEF step
    <3> QED BY <1>1, <1>2, <1>4, IterationExists
  <2> QED BY <2>1 DEF Loops
<1>6. Solves(g)
  <2>1. ASSUME NEW i \in 0 .. n
        PROVE  g[i] = IF i = 0 THEN f ELSE MoveOne(g[i - 1], i, new, next)
    <3>1. CASE i = 0
      BY <1>5, <3>1 DEF Loop
    <3>2. CASE i # 0
      <4>1. i \in 1 .. n /\ g[i - 1] \in S
        BY <1>1, <3>2
      <4>2. g[i] = step[<<g[i - 1], i>>]
        BY <1>5, <3>2 DEF Loop
      <4> QED BY <3>2, <4>1, <4>2
    <3> QED BY <3>1, <3>2
  <2>2. g = [i \in 0 .. n |-> g[i]]
    OBVIOUS
  <2> QED BY <2>1, <2>2, Zenon
<1>7. Solves(after)
  <2> HIDE DEF Solves
  <2> QED BY <1>6
<1>8. MovePreds(f, new, next) = after[n]
  BY DEF MovePreds, MoveOne, n
<1> HIDE DEF after
<1>9. /\ after[0] = f
      /\ \A i \in 1 .. n : after[i] = MoveOne(after[i - 1], i, new, next)
  BY <1>1, <1>7
<1>10. \A i \in 0 .. n : after[i] \in S
  <2> DEFINE T == {i \in 0 .. n : after[i] \in S}
  <2>1. 0 \in T
    BY <1>1, <1>2, <1>9
  <2>2. \A i \in 1 .. n : i - 1 \in T => i \in T
    BY <1>1, <1>3, <1>9
  <2>3. 0 .. n \subseteq T
    <3> HIDE DEF T
    <3> QED BY <1>1, <2>1, <2>2, Upward
  <2> QED BY <2>3
<1> QED BY <1>8, <1>9, <1>10 DEF S, n

\* The loop with no predecessor, or with one
FewMoves(f, new, next) ==
  LET l == f.pred[next] IN
  /\ Len(l) = 0 => MovePreds(f, new, next) = f
  /\ Len(l) = 1 => MovePreds(f, new, next) = mcfg_adjust_edge(f, l[1], next, new)

\* When next has at most one predecessor, the loop makes one round for it, or
\* none.
LEMMA MoveFew ==
  ASSUME NEW N, NEW f \in Fns(N), Paired(f, N), NEW new \in N, NEW next \in N
  PROVE  FewMoves(f, new, next)
<1> DEFINE n == Len(f.pred[next])
<1>1. PICK after : /\ MovePreds(f, new, next) = after[n]
                   /\ after[0] = f
                   /\ \A i \in 1 .. n : after[i] = MoveOne(after[i - 1], i, new, next)
  BY MoveRounds
<1> DEFINE l == f.pred[next]
<1>2. CASE n = 0
  BY <1>1, <1>2 DEF FewMoves
<1>3. CASE n = 1
  <2>1. after[1] = MoveOne(after[1 - 1], 1, new, next)
    BY <1>1, <1>3
  <2>2. after[1] = MoveOne(f, 1, new, next)
    BY <1>1, <2>1
  <2>3. MoveOne(f, 1, new, next) = mcfg_adjust_edge(f, l[1], next, new)
    BY <1>3 DEF MoveOne
  <2> QED BY <1>1, <1>3, <2>2, <2>3 DEF FewMoves
<1>4. CASE n # 0 /\ n # 1
  BY <1>4 DEF FewMoves
<1> QED BY <1>2, <1>3, <1>4

----------------------------------------------------------------------------
(* Insertion of an instruction *)

\* The instructions are N, each once in the list.
Ordered(f, N) ==
  IsInjective(f.order) /\ {f.order[p] : p \in DOMAIN f.order} = N

\* Appending to a sequence of known length.
LEMMA AppendFn ==
  ASSUME NEW X, NEW n \in Nat, NEW s \in [1 .. n -> X], NEW e \in X
  PROVE  /\ Append(s, e) \in [1 .. n + 1 -> X]
         /\ \A i \in 1 .. n : Append(s, e)[i] = s[i]
         /\ Append(s, e)[n + 1] = e
<1>1. s \in Seq(X) /\ Len(s) = n
  OBVIOUS
<1>2. Append(s, e) \in Seq(X) /\ Len(Append(s, e)) = n + 1
  BY <1>1
<1>3. Append(s, e) \in [1 .. n + 1 -> X]
  <2> DEFINE t == Append(s, e)
  <2>1. t \in Seq(X) /\ Len(t) = n + 1
    BY <1>2
  <2> HIDE DEF t
  <2>2. t \in [1 .. n + 1 -> X]
    BY <2>1
  <2> QED BY <2>2 DEF t
<1>4. \A i \in 1 .. n : Append(s, e)[i] = s[i]
  BY <1>1
<1>5. Append(s, e)[n + 1] = e
  BY <1>1
<1> QED BY <1>3, <1>4, <1>5

\* What InsertAt makes of the list
InsertedOrder(s, t, p, new) ==
  /\ Len(t) = Len(s) + 1
  /\ \A i \in 1 .. p - 1 : t[i] = s[i]
  /\ t[p] = new
  /\ \A i \in p + 1 .. Len(s) + 1 : t[i] = s[i - 1]

\* InsertAt puts the new element at place p and moves the later ones by one.
LEMMA InsertAtPlaces ==
  ASSUME NEW X, NEW s \in Seq(X), NEW p \in DOMAIN s, NEW e \in X
  PROVE  InsertAt(s, p, e) \in Seq(X) /\ InsertedOrder(s, InsertAt(s, p, e), p, e)
<1> DEFINE n == Len(s)
           l == SubSeq(s, 1, p - 1)
           m == <<e>>
           r == SubSeq(s, p, n)
<1>1. n \in Nat /\ p \in 1 .. n /\ \A i \in 1 .. n : s[i] \in X
  OBVIOUS
<1>2. l \in Seq(X) /\ Len(l) = p - 1 /\ \A i \in 1 .. p - 1 : l[i] = s[i]
  <2>1. \A i \in 1 .. p - 1 : s[i] \in X
    BY <1>1
  <2> HIDE DEF n
  <2>2. l \in Seq(X) /\ Len(l) = (IF 1 <= p - 1 THEN (p - 1) - 1 + 1 ELSE 0)
        /\ \A i \in 1 .. (p - 1) - 1 + 1 : l[i] = s[1 + i - 1]
    BY <1>1, <2>1, SubSeqProperties
  <2> HIDE DEF l
  <2> QED BY <1>1, <2>2
<1>3. r \in Seq(X) /\ Len(r) = n - p + 1 /\ \A i \in 1 .. n - p + 1 : r[i] = s[p + i - 1]
  <2>1. \A i \in p .. n : s[i] \in X
    BY <1>1
  <2> HIDE DEF n
  <2>2. r \in Seq(X) /\ Len(r) = (IF p <= n THEN n - p + 1 ELSE 0)
        /\ \A i \in 1 .. n - p + 1 : r[i] = s[p + i - 1]
    BY <1>1, <2>1, SubSeqProperties
  <2> HIDE DEF r
  <2> QED BY <1>1, <2>2
<1>4. m \in Seq(X) /\ Len(m) = 1 /\ m[1] = e
  OBVIOUS
<1>5. InsertAt(s, p, e) = (l \o m) \o r
  BY DEF InsertAt
<1> HIDE DEF l, m, r, n
<1> DEFINE lm == l \o m
           t == lm \o r
<1>6. lm \in Seq(X) /\ Len(lm) = p /\ (\A i \in 1 .. p - 1 : lm[i] = s[i]) /\ lm[p] = e
  <2>1. /\ lm \in Seq(X) /\ Len(lm) = Len(l) + Len(m)
        /\ \A i \in 1 .. Len(l) + Len(m) : lm[i] = IF i <= Len(l) THEN l[i] ELSE m[i - Len(l)]
    BY <1>2, <1>4, ConcatProperties
  <2> HIDE DEF lm
  <2>2. p \in 1 .. Len(l) + Len(m) /\ ~(p <= Len(l)) /\ p - Len(l) = 1
    BY <1>1, <1>2, <1>4
  <2>3. \A i \in 1 .. p - 1 : i \in 1 .. Len(l) + Len(m) /\ i <= Len(l)
    BY <1>1, <1>2, <1>4
  <2>4. lm[p] = e
    BY <1>4, <2>1, <2>2
  <2>5. \A i \in 1 .. p - 1 : lm[i] = s[i]
    BY <1>2, <2>1, <2>3
  <2>6. Len(lm) = p
    BY <1>1, <1>2, <1>4, <2>1
  <2> QED BY <2>1, <2>4, <2>5, <2>6
<1> HIDE DEF lm
<1>7. t \in Seq(X) /\ Len(t) = n + 1 /\ (\A i \in 1 .. p : t[i] = lm[i])
      /\ \A i \in p + 1 .. n + 1 : t[i] = r[i - p]
  <2>1. /\ t \in Seq(X) /\ Len(t) = Len(lm) + Len(r)
        /\ \A i \in 1 .. Len(lm) + Len(r) : t[i] = IF i <= Len(lm) THEN lm[i] ELSE r[i - Len(lm)]
    BY <1>3, <1>6, ConcatProperties
  <2> HIDE DEF t
  <2>2. Len(lm) + Len(r) = n + 1
    BY <1>1, <1>3, <1>6
  <2>3. \A i \in 1 .. p : i \in 1 .. n + 1 /\ i <= Len(lm)
    BY <1>1, <1>6
  <2>4. \A i \in p + 1 .. n + 1 : i \in 1 .. n + 1 /\ ~(i <= Len(lm)) /\ i - Len(lm) = i - p
    BY <1>1, <1>6
  <2> QED BY <2>1, <2>2, <2>3, <2>4
<1>8. \A i \in p + 1 .. n + 1 : t[i] = s[i - 1]
  <2> TAKE i \in p + 1 .. n + 1
  <2>1. i - p \in 1 .. n - p + 1 /\ p + (i - p) - 1 = i - 1
    BY <1>1
  <2> HIDE DEF t
  <2> QED BY <1>3, <1>7, <2>1
<1>9. (\A i \in 1 .. p - 1 : t[i] = s[i]) /\ t[p] = e
  <2> HIDE DEF t
  <2> QED BY <1>1, <1>6, <1>7
<1>10. InsertAt(s, p, e) = t
  BY <1>5 DEF lm
<1> HIDE DEF t
<1>11. InsertedOrder(s, t, p, e)
  BY <1>7, <1>8, <1>9 DEF InsertedOrder, n
<1> QED BY <1>7, <1>10, <1>11

\* mcfg_add_node gives the new node empty arrays; nothing else is counted anew.
LEMMA WiderLists ==
  ASSUME NEW n \in Nat, NEW L \in Lists(1 .. n)
  PROVE  LET M == Append(L, <<>>) IN
         /\ M \in Lists(1 .. n + 1)
         /\ \A a \in 1 .. n : M[a] = L[a]
         /\ M[n + 1] = <<>>
         /\ \A a, b \in 1 .. n + 1 :
              Count(M[a], b) = IF a = n + 1 \/ b = n + 1 THEN 0 ELSE Count(L[a], b)
<1> DEFINE M == Append(L, <<>>)
           X == Seq(1 .. n + 1)
<1>1. Seq(1 .. n) \subseteq X
  <2>1. 1 .. n \subseteq 1 .. n + 1
    OBVIOUS
  <2> QED BY <2>1, SeqMonotonic
<1>2. L \in [1 .. n -> X]
  BY <1>1 DEF Lists
<1>3. <<>> \in X
  OBVIOUS
<1>4. /\ M \in [1 .. n + 1 -> X]
      /\ \A i \in 1 .. n : M[i] = L[i]
      /\ M[n + 1] = <<>>
  <2> HIDE DEF X
  <2>1. M \in [1 .. n + 1 -> X]
    BY <1>2, <1>3, AppendFn
  <2>2. \A i \in 1 .. n : M[i] = L[i]
    BY <1>2, <1>3, AppendFn
  <2>3. M[n + 1] = <<>>
    BY <1>2, <1>3, AppendFn
  <2> QED BY <2>1, <2>2, <2>3
<1> HIDE DEF M
<1>5. ASSUME NEW a \in 1 .. n + 1, NEW b \in 1 .. n + 1
      PROVE  Count(M[a], b) = IF a = n + 1 \/ b = n + 1 THEN 0 ELSE Count(L[a], b)
  <2>1. CASE a = n + 1
    <3>1. ~ \E k \in DOMAIN <<>> : <<>>[k] = b
      OBVIOUS
    <3>2. Count(<<>>, b) = 0
      BY <3>1, <1>3, CountPositive
    <3> QED BY <1>4, <2>1, <3>2
  <2>2. CASE a # n + 1 /\ b = n + 1
    <3>1. a \in 1 .. n /\ L[a] \in Seq(1 .. n) /\ M[a] = L[a]
      BY <1>4, <2>2 DEF Lists
    <3>2. ~ \E k \in DOMAIN L[a] : L[a][k] = b
      BY <2>2, <3>1
    <3>3. Count(L[a], b) = 0
      BY <3>1, <3>2, CountPositive
    <3> QED BY <2>2, <3>1, <3>3
  <2>3. CASE a # n + 1 /\ b # n + 1
    <3>1. a \in 1 .. n
      BY <2>3
    <3>2. M[a] = L[a]
      BY <1>4, <3>1
    <3> QED BY <2>3, <3>2
  <2> QED BY <2>1, <2>2, <2>3
<1>6. M \in Lists(1 .. n + 1)
  BY <1>4 DEF Lists
<1>7. (\A a \in 1 .. n : M[a] = L[a]) /\ M[n + 1] = <<>>
  BY <1>4
<1> QED BY <1>5, <1>6, <1>7, Zenon DEF M

\* The function with the new instruction, before its edges are made
Widened(f, p, ins) ==
  mcfg_add_node([f EXCEPT !.code = Append(@, ins),
                          !.order = InsertAt(@, p, Len(f.code) + 1)])

Built(f, n) == f \in Fns(1 .. n) /\ Paired(f, 1 .. n) /\ Ordered(f, 1 .. n)

Parts(A, B, f, g, code, order, pred, succ) ==
  \E h : /\ h = [f EXCEPT !.code = code, !.order = order]
         /\ g = [h EXCEPT !.pred = pred, !.succ = succ]

\* The fields of a function whose code, order and edges were all replaced.
LEMMA NewParts ==
  ASSUME NEW A, NEW B, NEW f \in Fns(A), NEW code \in [B -> Instr], NEW order \in Seq(B),
         NEW pred \in Lists(B), NEW succ \in Lists(B),
         NEW g, Parts(A, B, f, g, code, order, pred, succ)
  PROVE  /\ g \in Fns(B)
         /\ g.code = code /\ g.order = order /\ g.pred = pred /\ g.succ = succ
         /\ g.tmp = f.tmp
<1>1. PICK h : /\ h = [f EXCEPT !.code = code, !.order = order]
               /\ g = [h EXCEPT !.pred = pred, !.succ = succ]
  BY DEF Parts
<1>2. /\ h = [code |-> code, order |-> order, pred |-> f.pred, succ |-> f.succ, tmp |-> f.tmp]
      /\ f.tmp \in Nat
  BY <1>1 DEF Fns
<1>3. g = [code |-> code, order |-> order, pred |-> pred, succ |-> succ, tmp |-> f.tmp]
  BY <1>1, <1>2
<1> QED BY <1>2, <1>3 DEF Fns

\* A function after mir_add_instr and mcfg_add_node: one instruction and one
\* node more, no edge more.
LEMMA Widening ==
  ASSUME NEW n \in Nat, NEW f, Built(f, n), NEW p \in DOMAIN f.order, NEW ins \in Instr
  PROVE  LET g == Widened(f, p, ins) IN
         /\ g \in Fns(1 .. n + 1)
         /\ g.code = Append(f.code, ins) /\ g.order = InsertAt(f.order, p, n + 1)
         /\ g.pred = Append(f.pred, <<>>) /\ g.succ = Append(f.succ, <<>>)
         /\ g.tmp = f.tmp
         /\ InsertedOrder(f.order, g.order, p, n + 1)
         /\ Paired(g, 1 .. n + 1)
         /\ Len(f.code) = n
<1> DEFINE code == Append(f.code, ins)
           order == InsertAt(f.order, p, n + 1)
           pred == Append(f.pred, <<>>)
           succ == Append(f.succ, <<>>)
           g == Widened(f, p, ins)
<1>1. f \in Fns(1 .. n)
  BY DEF Built
<1>2. Len(f.code) = n
  BY <1>1 DEF Fns
<1> DEFINE h == [f EXCEPT !.code = code, !.order = order]
<1>3. h.pred = f.pred /\ h.succ = f.succ
  BY <1>1 DEF Fns
<1>11. g = [h EXCEPT !.pred = pred, !.succ = succ]
  <2>1. g = mcfg_add_node(h)
    BY <1>2 DEF Widened
  <2> HIDE DEF g, h, pred, succ
  <2>2. g = [h EXCEPT !.pred = Append(h.pred, <<>>), !.succ = Append(h.succ, <<>>)]
    BY <2>1 DEF mcfg_add_node
  <2> QED BY <1>3, <2>2 DEF pred, succ
<1> HIDE DEF g
<1>12. Parts(1 .. n, 1 .. n + 1, f, g, code, order, pred, succ)
  BY <1>11 DEF Parts
<1> HIDE DEF h
<1>4. code \in [1 .. n + 1 -> Instr]
  <2>1. f.code \in [1 .. n -> Instr]
    BY <1>1 DEF Fns
  <2> QED BY <2>1, AppendFn
<1>5. order \in Seq(1 .. n + 1) /\ InsertedOrder(f.order, order, p, n + 1)
  <2> DEFINE X == 1 .. n + 1
  <2>1. f.order \in Seq(1 .. n) /\ f.tmp \in Nat
    BY <1>1 DEF Fns
  <2>2. f.order \in Seq(X) /\ n + 1 \in X
    <3>1. 1 .. n \subseteq X
      OBVIOUS
    <3>2. Seq(1 .. n) \subseteq Seq(X)
      BY <3>1, SeqMonotonic
    <3> QED BY <2>1, <3>2
  <2> HIDE DEF X
  <2>3. order \in Seq(X) /\ InsertedOrder(f.order, order, p, n + 1)
    BY <2>2, InsertAtPlaces
  <2> QED BY <2>3 DEF X
<1>6. /\ f.pred \in Lists(1 .. n) /\ f.succ \in Lists(1 .. n) /\ f.tmp \in Nat
  BY <1>1 DEF Fns
<1>7. pred \in Lists(1 .. n + 1) /\ succ \in Lists(1 .. n + 1)
  BY <1>6, WiderLists
<1>8. ASSUME NEW a \in 1 .. n + 1, NEW b \in 1 .. n + 1
      PROVE  Count(succ[a], b) = Count(pred[b], a)
  <2>1. Count(succ[a], b) = IF a = n + 1 \/ b = n + 1 THEN 0 ELSE Count(f.succ[a], b)
    BY <1>6, WiderLists
  <2>2. Count(pred[b], a) = IF b = n + 1 \/ a = n + 1 THEN 0 ELSE Count(f.pred[b], a)
    BY <1>6, WiderLists
  <2>3. a # n + 1 /\ b # n + 1 => Count(f.succ[a], b) = Count(f.pred[b], a)
    BY DEF Built, Paired
  <2> HIDE DEF succ, pred
  <2>4. CASE a = n + 1 \/ b = n + 1
    BY <2>1, <2>2, <2>4
  <2>5. CASE ~(a = n + 1 \/ b = n + 1)
    BY <2>1, <2>2, <2>3, <2>5
  <2> QED BY <2>4, <2>5
<1> HIDE DEF code, order, pred, succ
<1>9. /\ g \in Fns(1 .. n + 1)
      /\ g.code = code /\ g.order = order /\ g.pred = pred /\ g.succ = succ /\ g.tmp = f.tmp
  BY <1>1, <1>4, <1>5, <1>7, <1>12, NewParts
<1>10. Paired(g, 1 .. n + 1)
  BY <1>8, <1>9 DEF Paired
<1> QED BY <1>2, <1>5, <1>9, <1>10 DEF g, code, order, pred, succ

\* The new list holds every instruction once.
LEMMA InsertedOnce ==
  ASSUME NEW n \in Nat, NEW f, Built(f, n), NEW p \in DOMAIN f.order,
         NEW g, g.order \in Seq(1 .. n + 1), InsertedOrder(f.order, g.order, p, n + 1)
  PROVE  Ordered(g, 1 .. n + 1)
<1> DEFINE s == f.order
           t == g.order
           m == Len(s)
<1>1. s \in Seq(1 .. n) /\ m \in Nat /\ p \in 1 .. m /\ DOMAIN s = 1 .. m
  BY DEF Built, Fns
<1>2. /\ \A i, j \in 1 .. m : s[i] = s[j] => i = j
      /\ \A a \in 1 .. n : \E i \in 1 .. m : s[i] = a
      /\ \A i \in 1 .. m : s[i] \in 1 .. n
  <2>1. \A i, j \in 1 .. m : s[i] = s[j] => i = j
    BY <1>1 DEF Built, Ordered, IsInjective
  <2>2. 1 .. n = {s[i] : i \in 1 .. m}
    BY <1>1 DEF Built, Ordered
  <2> HIDE DEF s, m
  <2>3. \A a \in 1 .. n : \E i \in 1 .. m : s[i] = a
    BY <2>2
  <2>4. \A i \in 1 .. m : s[i] \in 1 .. n
    BY <2>2
  <2> QED BY <2>1, <2>3, <2>4
<1>3. /\ t \in Seq(1 .. n + 1) /\ Len(t) = m + 1
      /\ \A i \in 1 .. p - 1 : t[i] = s[i]
      /\ t[p] = n + 1
      /\ \A i \in p + 1 .. m + 1 : t[i] = s[i - 1]
  BY DEF InsertedOrder
<1> HIDE DEF s, t, m
<1>4. DOMAIN t = 1 .. m + 1
  BY <1>3
<1> DEFINE Old(i) == IF i < p THEN i ELSE i - 1
<1>5. ASSUME NEW i \in 1 .. m + 1, i # p
      PROVE  Old(i) \in 1 .. m /\ t[i] = s[Old(i)]
  <2>1. CASE i < p
    <3>1. i \in 1 .. p - 1 /\ Old(i) = i /\ i \in 1 .. m
      BY <1>1, <2>1
    <3>2. t[i] = s[i]
      BY <1>3, <3>1
    <3> QED BY <3>1, <3>2
  <2>2. CASE i > p
    <3>1. i \in p + 1 .. m + 1 /\ Old(i) = i - 1 /\ i - 1 \in 1 .. m
      BY <1>1, <2>2
    <3>2. t[i] = s[i - 1]
      BY <1>3, <3>1
    <3> QED BY <3>1, <3>2
  <2> QED BY <1>1, <1>5, <2>1, <2>2
<1>6. ASSUME NEW i \in 1 .. m + 1, NEW j \in 1 .. m + 1, t[i] = t[j]
      PROVE  i = j
  <2>1. ASSUME NEW k \in 1 .. m + 1, k # p PROVE t[k] \in 1 .. n
    BY <1>2, <1>5, <2>1
  <2>2. CASE i = p \/ j = p
    <3>1. n + 1 \notin 1 .. n
      OBVIOUS
    <3> QED BY <1>3, <1>6, <2>1, <2>2, <3>1
  <2>3. CASE i # p /\ j # p
    <3>1. Old(i) \in 1 .. m /\ Old(j) \in 1 .. m /\ s[Old(i)] = s[Old(j)]
      BY <1>5, <1>6, <2>3
    <3>2. Old(i) = Old(j)
      <4> HIDE DEF Old
      <4> QED BY <1>2, <3>1
    <3> QED BY <1>1, <2>3, <3>2
  <2> QED BY <2>2, <2>3
<1>7. IsInjective(t)
  BY <1>4, <1>6 DEF IsInjective
<1>8. ASSUME NEW a \in 1 .. n + 1 PROVE \E i \in 1 .. m + 1 : t[i] = a
  <2>1. CASE a = n + 1
    <3>1. p \in 1 .. m + 1
      BY <1>1
    <3> QED BY <1>3, <2>1, <3>1
  <2>2. CASE a # n + 1
    <3>1. PICK k \in 1 .. m : s[k] = a
      BY <1>2, <2>2
    <3>2. CASE k < p
      <4>1. k \in 1 .. p - 1 /\ k \in 1 .. m + 1
        BY <1>1, <3>2
      <4> QED BY <1>3, <3>1, <4>1
    <3>3. CASE ~(k < p)
      <4>1. k + 1 \in p + 1 .. m + 1 /\ (k + 1) - 1 = k /\ k + 1 \in 1 .. m + 1
        BY <1>1, <3>3
      <4>2. t[k + 1] = s[(k + 1) - 1]
        BY <1>3, <4>1
      <4> QED BY <3>1, <4>1, <4>2
    <3> QED BY <3>2, <3>3
  <2> QED BY <2>1, <2>2
<1>9. {t[i] : i \in DOMAIN t} = 1 .. n + 1
  <2>1. \A i \in 1 .. m + 1 : t[i] \in 1 .. n + 1
    BY <1>3, <1>4
  <2> QED BY <1>4, <1>8, <2>1
<1> QED BY <1>7, <1>9 DEF Ordered, t

\* The new instruction stands at p, and the next one is the one that was there.
LEMMA InsertedNext ==
  ASSUME NEW n \in Nat, NEW f, Built(f, n), NEW p \in DOMAIN f.order,
         NEW g, g.order \in Seq(1 .. n + 1), InsertedOrder(f.order, g.order, p, n + 1)
  PROVE  Pos(g, n + 1) = p /\ NextOf(g, n + 1) = f.order[p]
<1>1. f.order \in Seq(1 .. n) /\ p \in 1 .. Len(f.order) /\ Len(f.order) \in Nat
  BY DEF Built, Fns
<1>2. IsInjective(g.order)
  BY InsertedOnce DEF Ordered
<1>3. g.order[p] = n + 1 /\ p \in DOMAIN g.order
  BY <1>1 DEF InsertedOrder
<1>4. Pos(g, n + 1) = p
  BY <1>2, <1>3 DEF Pos, IsInjective
<1>5. p + 1 \in p + 1 .. Len(f.order) + 1 /\ (p + 1) - 1 = p
  BY <1>1
<1>6. g.order[p + 1] = f.order[(p + 1) - 1]
  BY <1>5 DEF InsertedOrder
<1> QED BY <1>4, <1>5, <1>6 DEF NextOf

\* InsertInstr adds the instruction and its node, moves the edges of the next
\* node to it and adds the edge between the two.
LEMMA InsertMeans ==
  ASSUME NEW n \in Nat, NEW f, Built(f, n), NEW p \in DOMAIN f.order, NEW ins \in Instr
  PROVE  InsertInstr(f, p, ins)
           = mcfg_add_edge(MovePreds(Widened(f, p, ins), n + 1, f.order[p]), n + 1, f.order[p])
<1> DEFINE h == [f EXCEPT !.code = Append(@, ins), !.order = InsertAt(@, p, Len(f.code) + 1)]
           g == Widened(f, p, ins)
<1>1. /\ g.order \in Seq(1 .. n + 1) /\ InsertedOrder(f.order, g.order, p, n + 1)
      /\ Len(f.code) = n
  <2>1. g \in Fns(1 .. n + 1) /\ InsertedOrder(f.order, g.order, p, n + 1) /\ Len(f.code) = n
    BY Widening
  <2> HIDE DEF g
  <2> QED BY <2>1 DEF Fns
<1>2. g = mcfg_add_node(h)
  BY DEF Widened
<1>3. g.order = h.order
  BY <1>2 DEF mcfg_add_node
<1>4. InsertInstr(f, p, ins) = mcfg_insert_node(h, n + 1)
  BY <1>1 DEF InsertInstr
<1> HIDE DEF g, h
<1>5. NextOf(h, n + 1) = NextOf(g, n + 1)
  BY <1>3 DEF NextOf, Pos
<1>6. NextOf(g, n + 1) = f.order[p]
  BY <1>1, InsertedNext
<1>7. mcfg_insert_node(h, n + 1)
        = mcfg_add_edge(MovePreds(g, n + 1, f.order[p]), n + 1, f.order[p])
  BY <1>2, <1>5, <1>6 DEF mcfg_insert_node
<1> QED BY <1>4, <1>7 DEF g

\* What every insertion keeps
LEMMA Inserting ==
  ASSUME NEW n \in Nat, NEW f, Built(f, n), NEW p \in DOMAIN f.order, NEW ins \in Instr
  PROVE  LET r == InsertInstr(f, p, ins) IN
         /\ Built(r, n + 1)
         /\ r.code = Append(f.code, ins) /\ r.tmp = f.tmp
         /\ InsertedOrder(f.order, r.order, p, n + 1)
<1> DEFINE N == 1 .. n + 1
           next == f.order[p]
           g == Widened(f, p, ins)
           h == MovePreds(g, n + 1, next)
           r == mcfg_add_edge(h, n + 1, next)
<1>1. n + 1 \in N /\ next \in N
  <2>1. f.order \in Seq(1 .. n)
    BY DEF Built, Fns
  <2>2. next \in 1 .. n
    BY <2>1
  <2> HIDE DEF next
  <2> QED BY <2>2
<1>2. /\ g \in Fns(N) /\ Paired(g, N) /\ g.code = Append(f.code, ins) /\ g.tmp = f.tmp
      /\ InsertedOrder(f.order, g.order, p, n + 1)
  BY Widening
<1>3. InsertInstr(f, p, ins) = r
  BY InsertMeans
<1> HIDE DEF g, next, N
<1>4. h \in Fns(N) /\ Paired(h, N) /\ SameList(g, h)
  <2> DEFINE m == Len(g.pred[next])
  <2>1. m \in 0 .. m
    BY <1>1, <1>2 DEF Fns, Lists
  <2>2. PICK after : /\ MovePreds(g, n + 1, next) = after[m]
                     /\ \A i \in 0 .. m : after[i] \in Fns(N) /\ Paired(after[i], N)
                                          /\ SameList(g, after[i])
    BY <1>1, <1>2, MoveRounds
  <2> QED BY <2>1, <2>2
<1> HIDE DEF h
<1>5. r \in Fns(N) /\ SameList(h, r) /\ OneMore(h, r, N, n + 1, next)
  BY <1>1, <1>4, AddEdge
<1> HIDE DEF r
<1>6. Paired(r, N)
  BY <1>4, <1>5 DEF Paired, OneMore
<1>7. r.code = g.code /\ r.order = g.order /\ r.tmp = g.tmp
  BY <1>4, <1>5 DEF SameList
<1>8. Ordered(r, N)
  <2>1. r.order \in Seq(1 .. n + 1)
    BY <1>5 DEF Fns, N
  <2>2. InsertedOrder(f.order, r.order, p, n + 1)
    BY <1>2, <1>7
  <2> QED BY <2>1, <2>2, InsertedOnce DEF N
<1>9. Built(r, n + 1)
  BY <1>5, <1>6, <1>8 DEF Built, N
<1> QED BY <1>2, <1>3, <1>7, <1>9

----------------------------------------------------------------------------
(* The graph follows the code *)

Before(s, a, b) == \E p \in 1 .. Len(s) - 1 : s[p] = a /\ s[p + 1] = b

FallsTo(f, a, b) == f.code[a].op # "jump" /\ Before(f.order, a, b)
JumpsTo(f, a, b) == f.code[a].op \in Branches /\ f.code[a].jump = b

One(P) == IF P THEN 1 ELSE 0

\* As often as control goes from a to b, so often the edge is there.
Exact(f, n) ==
  \A a, b \in 1 .. n : Count(f.succ[a], b) = One(FallsTo(f, a, b)) + One(JumpsTo(f, a, b))

\* Which instruction stands right before which after an insertion.
LEMMA InsertedBefore ==
  ASSUME NEW n \in Nat, NEW s \in Seq(1 .. n), IsInjective(s), NEW p \in DOMAIN s,
         NEW t \in Seq(1 .. n + 1), InsertedOrder(s, t, p, n + 1),
         NEW a \in 1 .. n + 1, NEW b \in 1 .. n + 1
  PROVE  Before(t, a, b) <=> \/ a = n + 1 /\ b = s[p]
                             \/ a # n + 1 /\ b = n + 1 /\ Before(s, a, s[p])
                             \/ a # n + 1 /\ b # n + 1 /\ b # s[p] /\ Before(s, a, b)
<1> DEFINE m == Len(s)
<1>1. m \in Nat /\ p \in 1 .. m /\ (\A i \in 1 .. m : s[i] \in 1 .. n)
  OBVIOUS
<1>2. /\ Len(t) = m + 1
      /\ \A i \in 1 .. p - 1 : t[i] = s[i]
      /\ t[p] = n + 1
      /\ \A i \in p + 1 .. m + 1 : t[i] = s[i - 1]
  BY DEF InsertedOrder
<1>3. \A i, j \in 1 .. m : s[i] = s[j] => i = j
  BY DEF IsInjective
<1>4. /\ Before(s, a, b) <=> \E i \in 1 .. m - 1 : s[i] = a /\ s[i + 1] = b
      /\ Before(s, a, s[p]) <=> \E i \in 1 .. m - 1 : s[i] = a /\ s[i + 1] = s[p]
  BY DEF Before
<1>5. Before(t, a, b) <=> \E i \in 1 .. m : t[i] = a /\ t[i + 1] = b
  BY <1>1, <1>2 DEF Before
<1> HIDE DEF m
<1>6. ASSUME NEW i \in 1 .. m, t[i] = a, t[i + 1] = b
      PROVE  \/ a = n + 1 /\ b = s[p]
             \/ a # n + 1 /\ b = n + 1 /\ Before(s, a, s[p])
             \/ a # n + 1 /\ b # n + 1 /\ b # s[p] /\ Before(s, a, b)
  <2>1. CASE i = p
    <3>1. p + 1 \in p + 1 .. m + 1 /\ (p + 1) - 1 = p
      BY <1>1
    <3>2. t[p + 1] = s[(p + 1) - 1]
      BY <1>2, <3>1
    <3>3. a = n + 1
      BY <1>2, <1>6, <2>1
    <3>4. b = s[p]
      BY <1>6, <2>1, <3>1, <3>2
    <3> QED BY <3>3, <3>4
  <2>2. CASE i = p - 1
    <3>1. i \in 1 .. p - 1 /\ i + 1 = p /\ i \in 1 .. m - 1
      BY <1>1, <2>2
    <3>2. t[i] = s[i] /\ t[i + 1] = n + 1 /\ s[i] \in 1 .. n
      BY <1>1, <1>2, <3>1
    <3>3. Before(s, a, s[p])
      BY <1>4, <1>6, <3>1, <3>2
    <3>4. a # n + 1
      BY <1>6, <3>2
    <3> QED BY <1>6, <3>2, <3>3, <3>4
  <2>3. CASE i < p - 1
    <3>1. i \in 1 .. p - 1 /\ i + 1 \in 1 .. p - 1 /\ i \in 1 .. m - 1 /\ i + 1 \in 1 .. m
          /\ i + 1 # p
      BY <1>1, <2>3
    <3>2. a = s[i] /\ b = s[i + 1]
      BY <1>2, <1>6, <3>1
    <3>3. b # s[p]
      BY <1>1, <1>3, <3>1, <3>2
    <3>5. s[i] \in 1 .. n /\ s[i + 1] \in 1 .. n
      BY <1>1, <3>1
    <3>6. n + 1 \notin 1 .. n
      OBVIOUS
    <3>4. a # n + 1 /\ b # n + 1
      BY <3>2, <3>5, <3>6
    <3> QED BY <1>4, <3>1, <3>2, <3>3, <3>4
  <2>4. CASE i > p
    <3> DEFINE j == i - 1
    <3>1. i \in p + 1 .. m + 1 /\ i + 1 \in p + 1 .. m + 1 /\ (i + 1) - 1 = j + 1
          /\ j \in 1 .. m - 1 /\ j + 1 \in 1 .. m /\ j + 1 # p
      BY <1>1, <2>4
    <3>2. a = s[i - 1] /\ b = s[(i + 1) - 1]
      BY <1>2, <1>6, <3>1
    <3>3. a = s[j] /\ b = s[j + 1]
      BY <3>1, <3>2
    <3> HIDE DEF j
    <3>4. b # s[p]
      BY <1>1, <1>3, <3>1, <3>3
    <3>6. s[j] \in 1 .. n /\ s[j + 1] \in 1 .. n
      BY <1>1, <3>1
    <3>7. n + 1 \notin 1 .. n
      OBVIOUS
    <3>5. a # n + 1 /\ b # n + 1
      BY <3>3, <3>6, <3>7
    <3> QED BY <1>4, <3>1, <3>3, <3>4, <3>5
  <2>5. i = p \/ i = p - 1 \/ i < p - 1 \/ i > p
    <3>1. i \in Int /\ p \in Int
      BY <1>1
    <3> QED BY <3>1
  <2> QED BY <2>1, <2>2, <2>3, <2>4, <2>5
<1>7. ASSUME a = n + 1, b = s[p] PROVE Before(t, a, b)
  <2>1. p + 1 \in p + 1 .. m + 1 /\ (p + 1) - 1 = p
    BY <1>1
  <2>2. t[p + 1] = s[(p + 1) - 1]
    BY <1>2, <2>1
  <2> QED BY <1>1, <1>2, <1>5, <1>7, <2>1, <2>2
<1>8. ASSUME b = n + 1, Before(s, a, s[p]) PROVE Before(t, a, b)
  <2>1. PICK i \in 1 .. m - 1 : s[i] = a /\ s[i + 1] = s[p]
    BY <1>4, <1>8
  <2>2. i + 1 \in 1 .. m
    BY <1>1
  <2>3. i + 1 = p
    BY <1>1, <1>3, <2>1, <2>2
  <2>4. i \in 1 .. p - 1 /\ i \in 1 .. m
    BY <1>1, <2>3
  <2>5. t[i] = a /\ t[i + 1] = n + 1
    BY <1>2, <2>1, <2>3, <2>4
  <2> QED BY <1>5, <1>8, <2>4, <2>5
<1>9. ASSUME b # s[p], Before(s, a, b) PROVE Before(t, a, b)
  <2>1. PICK i \in 1 .. m - 1 : s[i] = a /\ s[i + 1] = b
    BY <1>4, <1>9
  <2>2. i + 1 # p
    BY <1>9, <2>1
  <2>3. CASE i + 1 < p
    <3>1. i \in 1 .. p - 1 /\ i + 1 \in 1 .. p - 1 /\ i \in 1 .. m
      BY <1>1, <2>3
    <3>2. t[i] = a /\ t[i + 1] = b
      BY <1>2, <2>1, <3>1
    <3> QED BY <1>5, <3>1, <3>2
  <2>4. CASE i + 1 > p
    <3> DEFINE j == i + 1
    <3>1. j \in p + 1 .. m + 1 /\ j + 1 \in p + 1 .. m + 1 /\ j - 1 = i /\ (j + 1) - 1 = i + 1
          /\ j \in 1 .. m
      BY <1>1, <2>4
    <3>2. t[j] = s[j - 1] /\ t[j + 1] = s[(j + 1) - 1]
      BY <1>2, <3>1
    <3>3. t[j] = a /\ t[j + 1] = b
      BY <2>1, <3>1, <3>2
    <3> HIDE DEF j
    <3> QED BY <1>5, <3>1, <3>3
  <2> QED BY <1>1, <2>2, <2>3, <2>4
<1> QED BY <1>5, <1>6, <1>7, <1>8, <1>9

\* Only the instruction in front of it has an edge to an instruction that no
\* branch goes to.
LEMMA OnePred ==
  ASSUME NEW n \in Nat, NEW f, Built(f, n), Exact(f, n), NEW next \in 1 .. n,
         \A a \in 1 .. n : ~JumpsTo(f, a, next)
  PROVE  /\ Len(f.pred[next]) \in {0, 1}
         /\ Len(f.pred[next]) = 0 => \A a \in 1 .. n : ~FallsTo(f, a, next)
         /\ Len(f.pred[next]) = 1 =>
              /\ f.pred[next][1] \in 1 .. n
              /\ \A a \in 1 .. n : FallsTo(f, a, next) <=> a = f.pred[next][1]
<1> DEFINE l == f.pred[next]
<1>1. l \in Seq(1 .. n)
  BY DEF Built, Fns, Lists
<1>2. ASSUME NEW a \in 1 .. n
      PROVE  /\ Count(l, a) = One(FallsTo(f, a, next))
             /\ FallsTo(f, a, next) <=> \E k \in DOMAIN l : l[k] = a
  <2>1. Count(f.succ[a], next) = One(FallsTo(f, a, next)) + 0
    BY DEF Exact, One
  <2>2. Count(f.succ[a], next) = Count(l, a)
    BY DEF Built, Paired
  <2> HIDE DEF l
  <2>3. Count(l, a) = One(FallsTo(f, a, next))
    BY <2>1, <2>2 DEF One
  <2>4. Count(l, a) # 0 <=> \E k \in DOMAIN l : l[k] = a
    BY <1>1, CountPositive
  <2>5. Count(l, a) # 0 <=> FallsTo(f, a, next)
    BY <2>3 DEF One
  <2> QED BY <2>3, <2>4, <2>5
<1>3. ASSUME NEW a \in 1 .. n, NEW b \in 1 .. n, FallsTo(f, a, next), FallsTo(f, b, next)
      PROVE  a = b
  <2>1. PICK i \in 1 .. Len(f.order) - 1 : f.order[i] = a /\ f.order[i + 1] = next
    BY <1>3 DEF FallsTo, Before
  <2>2. PICK j \in 1 .. Len(f.order) - 1 : f.order[j] = b /\ f.order[j + 1] = next
    BY <1>3 DEF FallsTo, Before
  <2>3. f.order \in Seq(1 .. n) /\ IsInjective(f.order)
    BY DEF Built, Fns, Ordered
  <2>4. i + 1 \in DOMAIN f.order /\ j + 1 \in DOMAIN f.order
    BY <2>3
  <2>5. i + 1 = j + 1
    BY <2>1, <2>2, <2>3, <2>4 DEF IsInjective
  <2>6. i = j
    BY <2>3, <2>5
  <2> QED BY <2>1, <2>2, <2>6
<1> HIDE DEF l
<1>4. ASSUME Len(l) # 0, Len(l) # 1 PROVE FALSE
  <2>7. Len(l) \in Nat /\ DOMAIN l = 1 .. Len(l)
    BY <1>1
  <2>8. 1 \in 1 .. Len(l) /\ 2 \in 1 .. Len(l)
    BY <1>4, <2>7
  <2>9. \A k \in DOMAIN l : l[k] \in 1 .. n
    BY <1>1, ElementOfSeq, <2>7
  <2>1. 1 \in DOMAIN l /\ 2 \in DOMAIN l /\ l[1] \in 1 .. n /\ l[2] \in 1 .. n
    BY <2>7, <2>8, <2>9
  <2>2. l[1] = l[2]
    BY <1>2, <1>3, <2>1
  <2> DEFINE P == Places(l, l[1])
  <2>3. 1 \in P /\ 2 \in P
    BY <2>1, <2>2 DEF Places
  <2>4. IsFiniteSet(P) /\ Count(l, l[1]) = Cardinality(P)
    BY <1>1, PlacesFinite
  <2>5. Count(l, l[1]) = 1
    BY <1>2, <2>1 DEF One
  <2> HIDE DEF P
  <2>6. PICK x : P = {x}
    BY <2>4, <2>5, FS_Singleton
  <2> QED BY <2>3, <2>6
<1>5. Len(l) = 0 => \A a \in 1 .. n : ~FallsTo(f, a, next)
  BY <1>1, <1>2
<1>6. Len(l) = 1 => /\ l[1] \in 1 .. n
                    /\ \A a \in 1 .. n : FallsTo(f, a, next) <=> a = l[1]
  <2> SUFFICES ASSUME Len(l) = 1
               PROVE  l[1] \in 1 .. n /\ \A a \in 1 .. n : FallsTo(f, a, next) <=> a = l[1]
    OBVIOUS
  <2>1. DOMAIN l = {1} /\ l[1] \in 1 .. n
    BY <1>1
  <2> QED BY <1>2, <2>1
<1> QED BY <1>4, <1>5, <1>6 DEF l

\* An instruction that the list leads from, to next
Leads(f, n, a, next) == a \in 1 .. n /\ FallsTo(f, a, next)

\* The edges that led to next lead to the new instruction after the loop.
Redirected(f, n, g, h, next) ==
  \A a, b \in 1 .. n + 1 :
    Count(h.succ[a], b) + (IF Leads(f, n, a, next) /\ b = next THEN 1 ELSE 0)
      = Count(g.succ[a], b) + (IF Leads(f, n, a, next) /\ b = n + 1 THEN 1 ELSE 0)

\* The same lists, and an empty one for the new instruction
SameCounts(n, L, M) ==
  /\ \A a \in 1 .. n : M[a] = L[a]
  /\ \A a, b \in 1 .. n + 1 :
       Count(M[a], b) = IF a = n + 1 \/ b = n + 1 THEN 0 ELSE Count(L[a], b)

\* The counts of arrays that an empty one was appended to.
LEMMA WiderCounts ==
  ASSUME NEW n \in Nat, NEW L \in Lists(1 .. n), NEW M, M = Append(L, <<>>)
  PROVE  SameCounts(n, L, M)
BY WiderLists DEF SameCounts

\* When no branch goes to the instruction behind the new one, MovePreds takes
\* exactly the edge from the instruction in front of it.
LEMMA Redirecting ==
  ASSUME NEW n \in Nat, NEW f, Built(f, n), Exact(f, n), NEW p \in DOMAIN f.order,
         NEW ins \in Instr, NEW next, next = f.order[p],
         \A a \in 1 .. n : ~JumpsTo(f, a, next),
         NEW g, g = Widened(f, p, ins), NEW h, h = MovePreds(g, n + 1, next)
  PROVE  Redirected(f, n, g, h, next)
<1> DEFINE N == 1 .. n + 1
           l == f.pred[next]
<1>1. next \in 1 .. n
  <2>1. f.order \in Seq(1 .. n)
    BY DEF Built, Fns
  <2> QED BY <2>1
<1>2. f.succ \in Lists(1 .. n) /\ f.pred \in Lists(1 .. n)
  BY DEF Built, Fns
<1>3. g \in Fns(N) /\ Paired(g, N) /\ g.pred = Append(f.pred, <<>>)
      /\ g.succ = Append(f.succ, <<>>)
  BY Widening
<1>4. g.pred[next] = l
  <2>1. SameCounts(n, f.pred, g.pred)
    BY <1>2, <1>3, WiderCounts
  <2> QED BY <1>1, <2>1 DEF SameCounts
<1>5. SameCounts(n, f.succ, g.succ)
  BY <1>2, <1>3, WiderCounts
<1>7. /\ Len(l) \in {0, 1}
      /\ Len(l) = 0 => \A a \in 1 .. n : ~FallsTo(f, a, next)
      /\ Len(l) = 1 => /\ l[1] \in 1 .. n
                       /\ \A a \in 1 .. n : FallsTo(f, a, next) <=> a = l[1]
  BY <1>1, OnePred
<1>8. n + 1 \in N /\ next \in N
  BY <1>1
<1> HIDE DEF l
<1>9. /\ Len(l) = 0 => h = g
      /\ Len(l) = 1 => h = mcfg_adjust_edge(g, l[1], next, n + 1)
  <2> DEFINE new == n + 1
  <2>1. new \in N /\ l = g.pred[next] /\ h = MovePreds(g, new, next)
    BY <1>4, <1>8
  <2> HIDE DEF N, new
  <2>2. FewMoves(g, new, next)
    BY <1>3, <1>8, <2>1, MoveFew
  <2> QED BY <2>1, <2>2 DEF new, FewMoves
<1>11. CASE Len(l) = 0
  <2>1. h = g
    BY <1>9, <1>11
  <2>2. \A a : ~Leads(f, n, a, next)
    BY <1>7, <1>11 DEF Leads
  <2> QED BY <2>1, <2>2 DEF Redirected
<1>12. CASE Len(l) = 1
  <2> DEFINE c == l[1]
  <2>1. c \in 1 .. n /\ FallsTo(f, c, next)
    BY <1>7, <1>12
  <2>2. \A a : Leads(f, n, a, next) <=> a = c
    BY <1>7, <1>12 DEF Leads
  <2>3. h = mcfg_adjust_edge(g, c, next, n + 1)
    BY <1>9, <1>12
  <2> HIDE DEF c
  <2>4. Count(g.succ[c], next) # 0
    <3>1. c \in N /\ c # n + 1 /\ next # n + 1
      BY <1>1, <2>1
    <3>2. Count(g.succ[c], next) = Count(f.succ[c], next)
      BY <1>5, <1>8, <3>1 DEF SameCounts
    <3>3. Count(f.succ[c], next) = One(FallsTo(f, c, next)) + One(JumpsTo(f, c, next))
      BY <1>1, <2>1 DEF Exact
    <3> QED BY <2>1, <3>2, <3>3 DEF One
  <2>5. c \in N
    BY <2>1
  <2> HIDE DEF N
  <2>6. Adjusted(N, g, h, c, next, n + 1)
    BY <1>3, <1>8, <2>3, <2>4, <2>5, AdjustEdge
  <2> QED BY <2>2, <2>6 DEF Redirected, Adjusted, N
<1> QED BY <1>7, <1>11, <1>12

BranchesIn(f, n) == \A a \in 1 .. n : f.code[a].op \in Branches => f.code[a].jump \in 1 .. n

\* Inserting an instruction where no branch goes keeps the graph exact: every
\* edge is a fall or a jump of the code, and is there as often.
LEMMA InsertKeepsExact ==
  ASSUME NEW n \in Nat, NEW f, Built(f, n), Exact(f, n), BranchesIn(f, n),
         NEW p \in DOMAIN f.order, NEW ins \in Instr, ins.op \notin Branches,
         \A a \in 1 .. n : ~JumpsTo(f, a, f.order[p])
  PROVE  Exact(InsertInstr(f, p, ins), n + 1)
<1> DEFINE N == 1 .. n + 1
           next == f.order[p]
           g == Widened(f, p, ins)
           h == MovePreds(g, n + 1, next)
           r == InsertInstr(f, p, ins)
<1>1. Redirected(f, n, g, h, next)
  BY Redirecting
<1>2. r = mcfg_add_edge(h, n + 1, next)
  BY InsertMeans
<1>3. f.order \in Seq(1 .. n) /\ f.succ \in Lists(1 .. n) /\ IsInjective(f.order)
      /\ f.code \in [1 .. n -> Instr]
  BY DEF Built, Fns, Ordered
<1>4. next \in 1 .. n
  BY <1>3
<1>5. g \in Fns(N) /\ Paired(g, N) /\ g.succ = Append(f.succ, <<>>)
  BY Widening
<1>6. /\ r.code = Append(f.code, ins) /\ InsertedOrder(f.order, r.order, p, n + 1)
      /\ Built(r, n + 1)
  BY Inserting
<1> HIDE DEF g, r
<1>7. r.order \in Seq(N)
  BY <1>6 DEF Built, Fns
<1>8. h \in Fns(N)
  <2>1. n + 1 \in N /\ next \in N
    BY <1>4
  <2> DEFINE m == Len(g.pred[next])
  <2>2. m \in 0 .. m
    BY <1>5, <2>1 DEF Fns, Lists
  <2> HIDE DEF next, N
  <2>3. PICK after : /\ MovePreds(g, n + 1, next) = after[m]
                     /\ \A i \in 0 .. m : after[i] \in Fns(N)
    BY <1>5, <2>1, MoveRounds
  <2> QED BY <2>2, <2>3
<1> HIDE DEF h
<1>9. OneMore(h, r, N, n + 1, next)
  <2>1. n + 1 \in N /\ next \in N
    BY <1>4
  <2> HIDE DEF next, N
  <2> QED BY <1>2, <1>8, <2>1, AddEdge
<1>10. /\ \A a \in 1 .. n : r.code[a] = f.code[a]
       /\ r.code[n + 1] = ins
  BY <1>3, <1>6, AppendFn
<1>11. ASSUME NEW a \in N, NEW b \in N
       PROVE  Before(r.order, a, b) <=>
                 \/ a = n + 1 /\ b = next
                 \/ a # n + 1 /\ b = n + 1 /\ Before(f.order, a, next)
                 \/ a # n + 1 /\ b # n + 1 /\ b # next /\ Before(f.order, a, b)
  <2>1. InsertedOrder(f.order, r.order, p, n + 1)
    BY <1>6
  <2> DEFINE s == f.order
             t == r.order
  <2>2. s \in Seq(1 .. n) /\ t \in Seq(1 .. n + 1) /\ IsInjective(s) /\ p \in DOMAIN s
    BY <1>3, <1>7
  <2> HIDE DEF s, t
  <2> QED BY <2>1, <2>2, InsertedBefore DEF s, t
<1> HIDE DEF next
<1>12. ASSUME NEW a \in N, NEW b \in N
       PROVE  Count(r.succ[a], b) = One(FallsTo(r, a, b)) + One(JumpsTo(r, a, b))
  <2>1. Count(r.succ[a], b) = Count(h.succ[a], b) + (IF a = n + 1 /\ b = next THEN 1 ELSE 0)
    BY <1>9 DEF OneMore
  <2>2. Count(h.succ[a], b) + (IF Leads(f, n, a, next) /\ b = next THEN 1 ELSE 0)
          = Count(g.succ[a], b) + (IF Leads(f, n, a, next) /\ b = n + 1 THEN 1 ELSE 0)
    BY <1>1 DEF Redirected
  <2>3. Count(g.succ[a], b) = IF a = n + 1 \/ b = n + 1 THEN 0 ELSE Count(f.succ[a], b)
    <3>1. SameCounts(n, f.succ, g.succ)
      BY <1>3, <1>5, WiderCounts
    <3> QED BY <3>1 DEF SameCounts
  <2>4. Count(h.succ[a], b) \in Nat
    BY <1>8, PlacesFinite DEF Fns, Lists
  <2>5. a # n + 1 /\ b # n + 1 =>
          Count(f.succ[a], b) = One(FallsTo(f, a, b)) + One(JumpsTo(f, a, b))
    BY DEF Exact
  <2> DEFINE u == Count(h.succ[a], b)
  <2> HIDE DEF u
  <2>6. CASE a = n + 1
    <3>1. ~Leads(f, n, a, next)
      BY <2>6 DEF Leads
    <3>2. u = 0
      BY <2>2, <2>3, <2>4, <2>6, <3>1 DEF u
    <3>3. ~JumpsTo(r, a, b)
      BY <1>10, <2>6 DEF JumpsTo
    <3>4. FallsTo(r, a, b) <=> b = next
      BY <1>10, <1>11, <2>6 DEF FallsTo, Branches
    <3>5. Count(r.succ[a], b) = IF b = next THEN 1 ELSE 0
      BY <2>1, <2>6, <3>2 DEF u
    <3> QED BY <3>3, <3>4, <3>5 DEF One
  <2>7. CASE a # n + 1 /\ b = n + 1
    <3>1. a \in 1 .. n /\ r.code[a] = f.code[a]
      BY <1>10, <2>7
    <3>2. ~JumpsTo(r, a, b)
      BY <2>7, <3>1 DEF JumpsTo, BranchesIn
    <3>3. FallsTo(r, a, b) <=> Leads(f, n, a, next)
      BY <1>11, <2>7, <3>1 DEF FallsTo, Leads
    <3>4. next # b
      BY <1>4, <2>7
    <3>5. u = IF Leads(f, n, a, next) THEN 1 ELSE 0
      BY <2>2, <2>3, <2>4, <2>7, <3>4 DEF u
    <3>6. Count(r.succ[a], b) = u
      BY <2>1, <2>4, <2>7 DEF u
    <3> QED BY <3>2, <3>3, <3>5, <3>6 DEF One
  <2>8. CASE a # n + 1 /\ b # n + 1
    <3>1. a \in 1 .. n /\ r.code[a] = f.code[a]
      BY <1>10, <2>8
    <3>2. JumpsTo(r, a, b) <=> JumpsTo(f, a, b)
      BY <3>1 DEF JumpsTo
    <3>3. FallsTo(r, a, b) <=> b # next /\ FallsTo(f, a, b)
      BY <1>11, <2>8, <3>1 DEF FallsTo
    <3>4. Count(r.succ[a], b) = u
      BY <2>1, <2>4, <2>8 DEF u
    <3>5. CASE b = next
      <4>1. ~JumpsTo(f, a, b)
        BY <3>1, <3>5 DEF next
      <4>2. Count(g.succ[a], b) = IF FallsTo(f, a, b) THEN 1 ELSE 0
        BY <2>3, <2>5, <2>8, <4>1 DEF One
      <4>3. Leads(f, n, a, next) <=> FallsTo(f, a, b)
        BY <3>1, <3>5 DEF Leads
      <4>4. u = 0
        BY <2>2, <2>4, <2>8, <3>5, <4>2, <4>3 DEF u
      <4> QED BY <3>2, <3>3, <3>4, <3>5, <4>1, <4>4 DEF One
    <3>6. CASE b # next
      <4>1. u = Count(f.succ[a], b)
        BY <2>2, <2>3, <2>4, <2>5, <2>8, <3>6 DEF u, One
      <4> QED BY <2>5, <2>8, <3>2, <3>3, <3>4, <3>6, <4>1 DEF One
    <3> QED BY <3>5, <3>6
  <2> QED BY <2>6, <2>7, <2>8
<1> QED BY <1>12 DEF Exact, r

\* Places in the list
LEMMA OrderPlaces ==
  ASSUME NEW n \in Nat, NEW f, Built(f, n)
  PROVE  /\ f.order \in Seq(1 .. n) /\ Len(f.order) \in Nat
         /\ DOMAIN f.order = 1 .. Len(f.order)
         /\ \A a \in 1 .. n : Pos(f, a) \in 1 .. Len(f.order) /\ f.order[Pos(f, a)] = a
         /\ \A p \in 1 .. Len(f.order) : f.order[p] \in 1 .. n /\ Pos(f, f.order[p]) = p
<1> DEFINE s == f.order
<1>1. s \in Seq(1 .. n)
  BY DEF Built, Fns
<1>2. Len(s) \in Nat /\ DOMAIN s = 1 .. Len(s) /\ \A p \in 1 .. Len(s) : s[p] \in 1 .. n
  BY <1>1
<1>3. IsInjective(s) /\ {s[p] : p \in DOMAIN s} = 1 .. n
  BY DEF Built, Ordered
<1>4. \A a : Pos(f, a) = CHOOSE p \in DOMAIN s : s[p] = a
  BY DEF Pos
<1> HIDE DEF s
<1>5. ASSUME NEW a \in 1 .. n PROVE Pos(f, a) \in DOMAIN s /\ s[Pos(f, a)] = a
  <2>1. \E p \in DOMAIN s : s[p] = a
    BY <1>3
  <2> QED BY <1>4, <2>1
<1>6. ASSUME NEW p \in 1 .. Len(s) PROVE Pos(f, s[p]) = p
  <2>1. Pos(f, s[p]) \in DOMAIN s /\ s[Pos(f, s[p])] = s[p]
    BY <1>2, <1>5
  <2> QED BY <1>2, <1>3, <2>1 DEF IsInjective
<1> QED BY <1>1, <1>2, <1>5, <1>6 DEF s

\* b follows a in the list when a is not the last one and b is the next.
LEMMA BeforeNext ==
  ASSUME NEW n \in Nat, NEW f, Built(f, n), NEW a \in 1 .. n, NEW b \in 1 .. n
  PROVE  Before(f.order, a, b) <=> a # Last(f.order) /\ b = NextOf(f, a)
<1> DEFINE m == Len(f.order)
           q == Pos(f, a)
<1>1. /\ m \in Nat /\ q \in 1 .. m /\ f.order[q] = a
      /\ \A p \in 1 .. m : Pos(f, f.order[p]) = p
  BY OrderPlaces
<1>2. Last(f.order) = f.order[m] /\ NextOf(f, a) = f.order[q + 1]
  BY DEF Last, NextOf
<1>3. Before(f.order, a, b) <=> \E p \in 1 .. m - 1 : f.order[p] = a /\ f.order[p + 1] = b
  BY DEF Before
<1> HIDE DEF m
<1>4. \A p \in 1 .. m : f.order[p] = a => p = q
  BY <1>1
<1> HIDE DEF q
<1>5. a # f.order[m] <=> q \in 1 .. m - 1
  <2>1. m \in 1 .. m
    BY <1>1
  <2>2. a = f.order[m] <=> q = m
    BY <1>1, <1>4, <2>1
  <2> QED BY <1>1, <2>2
<1>6. ASSUME NEW p \in 1 .. m - 1, f.order[p] = a, f.order[p + 1] = b
      PROVE  a # f.order[m] /\ b = f.order[q + 1]
  <2>1. p \in 1 .. m
    BY <1>1
  <2>2. p = q
    BY <1>4, <1>6, <2>1
  <2> QED BY <1>5, <1>6, <2>2
<1> QED BY <1>1, <1>2, <1>3, <1>5, <1>6

\* In an exact graph the successors are those of the code.
LEMMA ExactFollows ==
  ASSUME NEW n \in Nat, NEW f, Built(f, n), Exact(f, n), BranchesIn(f, n), NEW a \in 1 .. n
  PROVE  {f.succ[a][k] : k \in DOMAIN f.succ[a]} = CodeSucc(f, a)
<1> DEFINE l == f.succ[a]
<1>1. l \in Seq(1 .. n)
  BY DEF Built, Fns, Lists
<1>2. Ids(f) = 1 .. n
  BY DEF Built, Fns, Ids
<1>3. ASSUME NEW b \in 1 .. n
      PROVE  (\E k \in DOMAIN l : l[k] = b) <=> FallsTo(f, a, b) \/ JumpsTo(f, a, b)
  <2>1. Count(l, b) = One(FallsTo(f, a, b)) + One(JumpsTo(f, a, b))
    BY DEF Exact
  <2> HIDE DEF l
  <2>2. Count(l, b) # 0 <=> \E k \in DOMAIN l : l[k] = b
    BY <1>1, CountPositive
  <2>3. Count(l, b) # 0 <=> FallsTo(f, a, b) \/ JumpsTo(f, a, b)
    BY <2>1 DEF One
  <2> QED BY <2>2, <2>3
<1>4. ASSUME NEW b \in 1 .. n
      PROVE  b \in CodeSucc(f, a) <=> FallsTo(f, a, b) \/ JumpsTo(f, a, b)
  <2>1. FallsTo(f, a, b) <=> f.code[a].op # "jump" /\ a # Last(f.order) /\ b = NextOf(f, a)
    BY BeforeNext DEF FallsTo
  <2> QED BY <1>2, <2>1 DEF CodeSucc, JumpsTo
<1>5. \A k \in DOMAIN l : l[k] \in 1 .. n
  BY <1>1
<1>6. \A b : b \in CodeSucc(f, a) => b \in 1 .. n
  BY <1>2 DEF CodeSucc
<1> HIDE DEF l
<1>7. \A b : b \in {l[k] : k \in DOMAIN l} <=> b \in CodeSucc(f, a)
  BY <1>3, <1>4, <1>5, <1>6
<1> QED BY <1>7 DEF l

\* What is kept of the place of an instruction when one is inserted in front of it
LEMMA InsertedPlaces ==
  ASSUME NEW n \in Nat, NEW f, Built(f, n), NEW c \in 1 .. n,
         NEW g, Built(g, n + 1), InsertedOrder(f.order, g.order, Pos(f, c), n + 1)
  PROVE  /\ Last(g.order) = Last(f.order) /\ Last(f.order) \in 1 .. n
         /\ c # Last(f.order) => NextOf(g, c) = NextOf(f, c)
<1> DEFINE s == f.order
           t == g.order
           m == Len(s)
           p == Pos(f, c)
<1>1. m \in Nat /\ p \in 1 .. m /\ s[p] = c /\ (\A q \in 1 .. m : s[q] \in 1 .. n /\ Pos(f, s[q]) = q)
  BY OrderPlaces
<1>2. Len(t) \in Nat /\ \A q \in 1 .. Len(t) : Pos(g, t[q]) = q
  BY OrderPlaces
<1>3. Len(t) = m + 1 /\ \A i \in p + 1 .. m + 1 : t[i] = s[i - 1]
  BY DEF InsertedOrder
<1>4. Last(t) = t[m + 1] /\ Last(s) = s[m] /\ NextOf(f, c) = s[p + 1]
      /\ NextOf(g, c) = t[Pos(g, c) + 1]
  BY <1>3 DEF Last, NextOf
<1> HIDE DEF s, t, m, p
<1>5. Last(t) = Last(s) /\ Last(s) \in 1 .. n
  <2>1. m + 1 \in p + 1 .. m + 1 /\ (m + 1) - 1 = m /\ m \in 1 .. m
    BY <1>1
  <2>2. t[m + 1] = s[(m + 1) - 1]
    BY <1>3, <2>1
  <2> QED BY <1>1, <1>4, <2>1, <2>2
<1>6. ASSUME c # Last(s) PROVE NextOf(g, c) = NextOf(f, c)
  <2>1. p # m
    BY <1>1, <1>4, <1>6
  <2>2. p + 1 \in p + 1 .. m + 1 /\ (p + 1) - 1 = p /\ p + 2 \in p + 1 .. m + 1
        /\ (p + 2) - 1 = p + 1 /\ p + 1 \in 1 .. m + 1 /\ (p + 1) + 1 = p + 2
    BY <1>1, <2>1
  <2>3. t[p + 1] = c
    BY <1>1, <1>3, <2>2
  <2>4. Pos(g, c) = p + 1
    BY <1>2, <1>3, <2>2, <2>3
  <2>5. t[p + 2] = s[p + 1]
    BY <1>3, <2>2
  <2> QED BY <1>4, <2>2, <2>4, <2>5
<1> QED BY <1>5, <1>6 DEF s, t

----------------------------------------------------------------------------
(* Functions that are sound, and what gen_spill_code makes of them *)

Bounded(f, n) ==
  \A a \in 1 .. n : /\ \A k \in DOMAIN f.code[a].src : f.code[a].src[k] < f.tmp
                    /\ f.code[a].dst \in 0 .. f.tmp - 1 \cup {None}

\* Nothing is used or defined at the end.
Ended(f) == f.code[Last(f.order)].src = <<>> /\ f.code[Last(f.order)].dst = None

Sound(f, n) ==
  /\ n \in Nat \ {0} /\ Len(f.code) = n
  /\ Built(f, n) /\ BranchesIn(f, n) /\ Bounded(f, n) /\ Ended(f)

RecodedAs(f, g, code, tmp) == g = [f EXCEPT !.code = code, !.tmp = tmp]

SameGraph(f, g) == g.order = f.order /\ g.pred = f.pred /\ g.succ = f.succ

\* The code may change under the graph.
LEMMA Recoding ==
  ASSUME NEW n \in Nat, NEW f, Built(f, n), NEW code \in [1 .. n -> Instr], NEW tmp \in Nat,
         NEW g, RecodedAs(f, g, code, tmp)
  PROVE  Built(g, n) /\ g.code = code /\ g.tmp = tmp /\ SameGraph(f, g)
<1> DEFINE N == 1 .. n
<1>1. f \in Fns(N) /\ Paired(f, N) /\ Ordered(f, N) /\ code \in [N -> Instr]
  BY DEF Built
<1> HIDE DEF N
<1>2. g \in Fns(N) /\ g.code = code /\ g.tmp = tmp /\ SameGraph(f, g)
  BY <1>1 DEF Fns, RecodedAs, SameGraph
<1>3. Paired(g, N) /\ Ordered(g, N)
  BY <1>1, <1>2 DEF Paired, Ordered, SameGraph
<1> QED BY <1>2, <1>3 DEF Built, N

\* The same instructions branch, to the same places.
SameFlow(f, g, n) ==
  \A a \in 1 .. n :
    /\ g.code[a].op = "jump" <=> f.code[a].op = "jump"
    /\ g.code[a].op \in Branches <=> f.code[a].op \in Branches
    /\ f.code[a].op \in Branches => g.code[a].jump = f.code[a].jump

\* A change of operands keeps the graph exact.
LEMMA ExactKept ==
  ASSUME NEW n \in Nat, NEW f, Exact(f, n), NEW g, SameGraph(f, g), SameFlow(f, g, n)
  PROVE  Exact(g, n)
<1> SUFFICES ASSUME NEW a \in 1 .. n, NEW b \in 1 .. n
             PROVE  Count(g.succ[a], b) = One(FallsTo(g, a, b)) + One(JumpsTo(g, a, b))
  BY DEF Exact
<1>1. Count(f.succ[a], b) = One(FallsTo(f, a, b)) + One(JumpsTo(f, a, b))
  BY DEF Exact
<1>2. JumpsTo(g, a, b) <=> JumpsTo(f, a, b)
  BY DEF JumpsTo, SameFlow
<1>3. FallsTo(g, a, b) <=> FallsTo(f, a, b)
  BY DEF FallsTo, SameFlow, SameGraph
<1> QED BY <1>1, <1>2, <1>3 DEF SameGraph, One

\* gen_spill_load with its parameters given
LoadInstr(f, slot) == [Ins("load", <<>>, f.tmp, 0) EXCEPT !.slot = slot]

LoadAt(f, c, i, k, slot) ==
  LET g == InsertInstr(f, Pos(f, c), LoadInstr(f, slot))
  IN  [g EXCEPT !.code[i].src[k] = f.tmp, !.tmp = @ + 1]

\* The code that it makes
LoadCode(f, n, g, i, k, slot) ==
  /\ g.tmp = f.tmp + 1
  /\ g.code[n + 1] = LoadInstr(f, slot)
  /\ g.code[i] = [f.code[i] EXCEPT !.src = [f.code[i].src EXCEPT ![k] = f.tmp]]
  /\ \A a \in 1 .. n : a # i => g.code[a] = f.code[a]

\* The load of gen_spill_load is an instruction.
LEMMA LoadInstrType ==
  ASSUME NEW N, NEW f \in Fns(N), NEW slot \in Slots
  PROVE  LoadInstr(f, slot) \in Instr
<1>1. f.tmp \in Nat
  BY DEF Fns
<1>2. "load" \in Ops /\ <<>> \in Seq(Nat)
  BY DEF Ops
<1>3. LoadInstr(f, slot) = [op |-> "load", src |-> <<>>, dst |-> f.tmp, jump |-> 0, slot |-> slot]
  BY DEF LoadInstr, Ins
<1> HIDE DEF LoadInstr
<1> QED BY <1>1, <1>2, <1>3 DEF Instr

\* What gen_spill_load does to code, list and graph.
LEMMA Loading ==
  ASSUME NEW n \in Nat, NEW f, Built(f, n), NEW c \in 1 .. n, NEW i \in 1 .. n,
         NEW k \in DOMAIN f.code[i].src, NEW slot \in Slots,
         NEW g, g = LoadAt(f, c, i, k, slot)
  PROVE  /\ Built(g, n + 1) /\ Len(g.code) = n + 1
         /\ LoadCode(f, n, g, i, k, slot)
         /\ InsertedOrder(f.order, g.order, Pos(f, c), n + 1)
         /\ SameGraph(InsertInstr(f, Pos(f, c), LoadInstr(f, slot)), g)
         /\ SameFlow(InsertInstr(f, Pos(f, c), LoadInstr(f, slot)), g, n + 1)
<1> DEFINE ins == LoadInstr(f, slot)
           p == Pos(f, c)
           r == InsertInstr(f, p, ins)
           src == [f.code[i].src EXCEPT ![k] = f.tmp]
           new == [f.code[i] EXCEPT !.src = src]
           code == [r.code EXCEPT ![i] = new]
<1>1. f \in Fns(1 .. n) /\ f.code \in [1 .. n -> Instr] /\ f.tmp \in Nat
  BY DEF Built, Fns
<1>2. ins \in Instr
  BY <1>1, LoadInstrType
<1>3. p \in DOMAIN f.order
  BY OrderPlaces
<1> HIDE DEF ins, p
<1>4. /\ Built(r, n + 1) /\ r.code = Append(f.code, ins) /\ r.tmp = f.tmp
      /\ InsertedOrder(f.order, r.order, p, n + 1)
  BY <1>2, <1>3, Inserting
<1> HIDE DEF r
<1>5. /\ r.code \in [1 .. n + 1 -> Instr]
      /\ \A a \in 1 .. n : r.code[a] = f.code[a]
      /\ r.code[n + 1] = ins
  <2>1. r.code \in [1 .. n + 1 -> Instr]
    BY <1>4 DEF Built, Fns
  <2>2. \A a \in 1 .. n : r.code[a] = f.code[a]
    BY <1>1, <1>2, <1>4, AppendFn
  <2>3. r.code[n + 1] = ins
    <3>1. Append(f.code, ins)[n + 1] = ins
      BY <1>1, <1>2, AppendFn
    <3> QED BY <1>4, <3>1
  <2> QED BY <2>1, <2>2, <2>3
<1>6. i \in 1 .. n + 1 /\ i # n + 1 /\ r.code[i] = f.code[i]
  BY <1>5
<1>7. new \in Instr
  <2>1. f.code[i] \in Instr
    BY <1>1
  <2>2. f.code[i].src \in Seq(Nat)
    BY <2>1 DEF Instr
  <2>3. src \in Seq(Nat)
    BY <1>1, <2>2, ExceptSeq
  <2> HIDE DEF src
  <2> QED BY <2>1, <2>3 DEF Instr
<1>8. g = [r EXCEPT !.code = code, !.tmp = r.tmp + 1]
  <2>1. g = [r EXCEPT !.code[i].src[k] = f.tmp, !.tmp = @ + 1]
    BY DEF LoadAt, r, ins, p
  <2>2. r \in Fns(1 .. n + 1)
    BY <1>4 DEF Built
  <2>3. code = [r.code EXCEPT ![i].src[k] = f.tmp]
    BY <1>6
  <2> HIDE DEF code
  <2> QED BY <2>1, <2>2, <2>3 DEF Fns
<1> HIDE DEF new, src
<1>9. code \in [1 .. n + 1 -> Instr]
  BY <1>5, <1>7
<1>10. code[i] = new /\ \A a \in 1 .. n + 1 : a # i => code[a] = r.code[a]
  BY <1>5, <1>6
<1> HIDE DEF code
<1>11. RecodedAs(r, g, code, f.tmp + 1) /\ f.tmp + 1 \in Nat
  BY <1>1, <1>4, <1>8 DEF RecodedAs
<1>12. Built(g, n + 1) /\ g.code = code /\ g.tmp = f.tmp + 1 /\ SameGraph(r, g)
  <2> DEFINE m == n + 1
             t == f.tmp + 1
  <2>1. m \in Nat /\ t \in Nat /\ Built(r, m) /\ code \in [1 .. m -> Instr]
        /\ RecodedAs(r, g, code, t)
    BY <1>4, <1>9, <1>11
  <2> HIDE DEF m, t
  <2>2. Built(g, m) /\ g.code = code /\ g.tmp = t /\ SameGraph(r, g)
    BY <2>1, Recoding
  <2> QED BY <2>2 DEF m, t
<1>13. LoadCode(f, n, g, i, k, slot)
  <2>1. g.code[n + 1] = ins
    BY <1>5, <1>6, <1>10, <1>12
  <2>2. g.code[i] = new
    BY <1>10, <1>12
  <2>3. \A a \in 1 .. n : a # i => g.code[a] = f.code[a]
    BY <1>5, <1>10, <1>12
  <2> QED BY <1>12, <2>1, <2>2, <2>3 DEF LoadCode, ins, new, src
<1>14. SameFlow(r, g, n + 1)
  <2>1. new.op = f.code[i].op /\ new.jump = f.code[i].jump
    BY <1>1 DEF new, Instr
  <2> QED BY <1>6, <1>10, <1>12, <2>1 DEF SameFlow
<1>15. Len(g.code) = n + 1
  BY <1>9, <1>12
<1> QED BY <1>4, <1>12, <1>13, <1>14, <1>15 DEF r, p, ins, SameGraph

\* What that changes
SameButLoad(f, n, g, i) ==
  /\ \A a \in 1 .. n : /\ g.code[a].op = f.code[a].op /\ g.code[a].jump = f.code[a].jump
                       /\ g.code[a].dst = f.code[a].dst
                       /\ DOMAIN g.code[a].src = DOMAIN f.code[a].src
                       /\ \A l \in DOMAIN f.code[a].src :
                            g.code[a].src[l] \in {f.code[a].src[l], f.tmp}
  /\ \A a \in 1 .. n : a # i => g.code[a].src = f.code[a].src
  /\ g.code[n + 1].op = "load" /\ g.code[n + 1].src = <<>> /\ g.code[n + 1].dst = f.tmp

\* A load leaves the operations and branches of the other instructions alone.
LEMMA LoadCodeSame ==
  ASSUME NEW n \in Nat, NEW f \in Fns(1 .. n), NEW i \in 1 .. n,
         NEW k \in DOMAIN f.code[i].src, NEW slot, NEW g, LoadCode(f, n, g, i, k, slot)
  PROVE  SameButLoad(f, n, g, i)
<1>1. \A a \in 1 .. n : f.code[a] \in Instr
  BY DEF Fns
<1>2. g.code[n + 1].op = "load" /\ g.code[n + 1].src = <<>> /\ g.code[n + 1].dst = f.tmp
  BY DEF LoadCode, LoadInstr, Ins
<1>3. ASSUME NEW a \in 1 .. n
      PROVE  /\ g.code[a].op = f.code[a].op /\ g.code[a].jump = f.code[a].jump
             /\ g.code[a].dst = f.code[a].dst
             /\ DOMAIN g.code[a].src = DOMAIN f.code[a].src
             /\ \A l \in DOMAIN f.code[a].src : g.code[a].src[l] \in {f.code[a].src[l], f.tmp}
             /\ a # i => g.code[a].src = f.code[a].src
  <2>1. CASE a = i
    <3> DEFINE x == f.code[i]
               src == [x.src EXCEPT ![k] = f.tmp]
    <3>1. x \in Instr /\ g.code[a] = [x EXCEPT !.src = src]
      BY <1>1, <2>1 DEF LoadCode
    <3>2. DOMAIN src = DOMAIN x.src /\ \A l \in DOMAIN x.src : src[l] \in {x.src[l], f.tmp}
      OBVIOUS
    <3>3. x = f.code[a]
      BY <2>1
    <3> HIDE DEF x, src
    <3>4. /\ g.code[a].op = x.op /\ g.code[a].jump = x.jump /\ g.code[a].dst = x.dst
          /\ g.code[a].src = src
      BY <3>1 DEF Instr
    <3> QED BY <2>1, <3>2, <3>3, <3>4
  <2>2. CASE a # i
    BY <2>2 DEF LoadCode
  <2> QED BY <2>1, <2>2
<1> QED BY <1>2, <1>3 DEF SameButLoad

\* A load keeps the function sound.
LEMMA LoadKeepsSound ==
  ASSUME NEW n, NEW f, Sound(f, n), NEW c \in 1 .. n, NEW i \in 1 .. n,
         NEW k \in DOMAIN f.code[i].src, NEW slot \in Slots,
         NEW g, g = LoadAt(f, c, i, k, slot)
  PROVE  Sound(g, n + 1)
<1>1. n \in Nat /\ Built(f, n) /\ f \in Fns(1 .. n) /\ f.tmp \in Nat
  BY DEF Sound, Built, Fns
<1>0. /\ Built(g, n + 1)
      /\ LoadCode(f, n, g, i, k, slot)
      /\ InsertedOrder(f.order, g.order, Pos(f, c), n + 1)
  BY <1>1, Loading
<1>7. Len(g.code) = n + 1
  BY <1>0, <1>1 DEF Built, Fns
<1>2. /\ Built(g, n + 1) /\ Len(g.code) = n + 1
      /\ LoadCode(f, n, g, i, k, slot)
      /\ InsertedOrder(f.order, g.order, Pos(f, c), n + 1)
  BY <1>0, <1>7
<1>8. SameButLoad(f, n, g, i)
  BY <1>1, <1>2, LoadCodeSame
<1>3. /\ \A a \in 1 .. n : /\ g.code[a].op = f.code[a].op /\ g.code[a].jump = f.code[a].jump
                           /\ g.code[a].dst = f.code[a].dst
                           /\ DOMAIN g.code[a].src = DOMAIN f.code[a].src
                           /\ \A l \in DOMAIN f.code[a].src :
                                g.code[a].src[l] \in {f.code[a].src[l], f.tmp}
      /\ \A a \in 1 .. n : a # i => g.code[a].src = f.code[a].src
      /\ g.code[n + 1].op = "load" /\ g.code[n + 1].src = <<>> /\ g.code[n + 1].dst = f.tmp
  BY <1>8 DEF SameButLoad
<1>4. BranchesIn(g, n + 1)
  <2>1. ASSUME NEW a \in 1 .. n + 1, g.code[a].op \in Branches PROVE g.code[a].jump \in 1 .. n + 1
    <3>1. a # n + 1
      BY <1>3, <2>1 DEF Branches
    <3>2. a \in 1 .. n
      BY <1>1, <3>1
    <3>3. f.code[a].jump \in 1 .. n
      BY <1>3, <2>1, <3>2 DEF Sound, BranchesIn
    <3>4. g.code[a].jump = f.code[a].jump
      BY <1>3, <3>2
    <3> QED BY <1>1, <3>3, <3>4
  <2> QED BY <2>1 DEF BranchesIn
<1>5. Bounded(g, n + 1)
  <2> DEFINE t == f.tmp
  <2>1. g.tmp = t + 1 /\ t \in Nat
    BY <1>1, <1>2 DEF LoadCode
  <2>2. ASSUME NEW a \in 1 .. n + 1
        PROVE  /\ \A l \in DOMAIN g.code[a].src : g.code[a].src[l] < t + 1
               /\ g.code[a].dst \in 0 .. t \cup {None}
    <3>1. CASE a = n + 1
      BY <1>3, <2>1, <3>1
    <3>2. CASE a # n + 1
      <4>1. a \in 1 .. n
        BY <1>1, <3>2
      <4>2. (\A l \in DOMAIN f.code[a].src : f.code[a].src[l] < t)
            /\ f.code[a].dst \in 0 .. t - 1 \cup {None}
        BY <4>1 DEF Sound, Bounded
      <4>3. g.code[a].dst \in 0 .. t \cup {None}
        BY <1>3, <2>1, <4>1, <4>2
      <4>4. ASSUME NEW l \in DOMAIN g.code[a].src PROVE g.code[a].src[l] < t + 1
        <5>1. l \in DOMAIN f.code[a].src /\ g.code[a].src[l] \in {f.code[a].src[l], t}
          BY <1>3, <4>1, <4>4
        <5>2. f.code[a].src[l] < t /\ f.code[a].src[l] \in Nat
          <6>1. f.code[a].src \in Seq(Nat)
            BY <1>1, <4>1 DEF Fns, Instr
          <6> QED BY <4>2, <5>1, <6>1
        <5> HIDE DEF t
        <5> QED BY <2>1, <5>1, <5>2
      <4> QED BY <4>3, <4>4
    <3> QED BY <3>1, <3>2
  <2> HIDE DEF t
  <2>3. g.tmp - 1 = t
    BY <2>1
  <2> QED BY <2>1, <2>2, <2>3 DEF Bounded
<1>6. Ended(g)
  <2> DEFINE last == Last(f.order)
  <2>1. Last(g.order) = last /\ last \in 1 .. n
    BY <1>1, <1>2, InsertedPlaces
  <2>2. f.code[last].src = <<>> /\ f.code[last].dst = None
    BY DEF Sound, Ended
  <2>3. last # i
    BY <2>2
  <2> HIDE DEF last
  <2> QED BY <1>3, <2>1, <2>2, <2>3 DEF Ended
<1> QED BY <1>1, <1>2, <1>4, <1>5, <1>6 DEF Sound

\* Only the branches of f are branches of g.
Flows(f, n, g, m) ==
  \A a \in 1 .. m :
    g.code[a].op \in Branches =>
      a \in 1 .. n /\ f.code[a].op \in Branches /\ g.code[a].jump = f.code[a].jump

\* What loads in front of c, for operands of i, make of f
LoadedFrom(f, n, c, i, g, m) ==
  /\ m \in Nat /\ n <= m /\ Sound(g, m)
  /\ Last(g.order) = Last(f.order)
  /\ c # Last(f.order) => NextOf(g, c) = NextOf(f, c)
  /\ Flows(f, n, g, m)
  /\ DOMAIN g.code[i].src = DOMAIN f.code[i].src
  /\ g.code[i].dst = f.code[i].dst /\ g.code[i].op = f.code[i].op
  /\ Exact(f, n) /\ (\A a \in 1 .. n : ~JumpsTo(f, a, c)) => Exact(g, m)

\* One more round of the loop over the operands.
LEMMA LoadStep ==
  ASSUME NEW n, NEW f, Sound(f, n), NEW c \in 1 .. n, NEW i \in 1 .. n,
         NEW k \in DOMAIN f.code[i].src, NEW slot \in Slots,
         NEW m, NEW g, LoadedFrom(f, n, c, i, g, m),
         NEW h, h = LoadAt(g, c, i, k, slot)
  PROVE  LoadedFrom(f, n, c, i, h, m + 1)
<1>1. m \in Nat /\ n <= m /\ Sound(g, m) /\ n \in Nat
  BY DEF LoadedFrom, Sound
<1>2. c \in 1 .. m /\ i \in 1 .. m /\ k \in DOMAIN g.code[i].src
  BY <1>1 DEF LoadedFrom
<1>3. Built(g, m) /\ g \in Fns(1 .. m)
  BY <1>1 DEF Sound, Built
<1>4. Sound(h, m + 1)
  BY <1>1, <1>2, LoadKeepsSound
<1> DEFINE ins == LoadInstr(g, slot)
           r == InsertInstr(g, Pos(g, c), ins)
<1>5. /\ Built(h, m + 1)
      /\ LoadCode(g, m, h, i, k, slot)
      /\ InsertedOrder(g.order, h.order, Pos(g, c), m + 1)
      /\ SameGraph(r, h) /\ SameFlow(r, h, m + 1)
  BY <1>1, <1>2, <1>3, Loading
<1> HIDE DEF r
<1>6. /\ \A a \in 1 .. m : /\ h.code[a].op = g.code[a].op /\ h.code[a].jump = g.code[a].jump
                           /\ h.code[a].dst = g.code[a].dst
                           /\ DOMAIN h.code[a].src = DOMAIN g.code[a].src
      /\ h.code[m + 1].op = "load"
  <2>1. SameButLoad(g, m, h, i)
    BY <1>1, <1>2, <1>3, <1>5, LoadCodeSame
  <2> QED BY <2>1 DEF SameButLoad
<1>7. /\ Last(h.order) = Last(g.order)
      /\ c # Last(g.order) => NextOf(h, c) = NextOf(g, c)
  BY <1>1, <1>2, <1>3, <1>5, InsertedPlaces
<1>8. Flows(f, n, h, m + 1)
  <2> SUFFICES ASSUME NEW a \in 1 .. m + 1, h.code[a].op \in Branches
               PROVE  a \in 1 .. n /\ f.code[a].op \in Branches /\ h.code[a].jump = f.code[a].jump
    BY DEF Flows
  <2>1. a # m + 1
    BY <1>6 DEF Branches
  <2>2. a \in 1 .. m
    BY <1>1, <2>1
  <2> QED BY <1>6, <2>2 DEF LoadedFrom, Flows
<1>9. ASSUME Exact(f, n), \A a \in 1 .. n : ~JumpsTo(f, a, c) PROVE Exact(h, m + 1)
  <2>1. Exact(g, m)
    BY <1>9 DEF LoadedFrom
  <2>2. \A a \in 1 .. m : ~JumpsTo(g, a, c)
    BY <1>9 DEF LoadedFrom, Flows, JumpsTo
  <2>3. g.order[Pos(g, c)] = c /\ Pos(g, c) \in DOMAIN g.order
    BY <1>1, <1>2, <1>3, OrderPlaces
  <2>4. ins \in Instr /\ ins.op \notin Branches
    BY <1>3, LoadInstrType DEF LoadInstr, Ins, Branches
  <2>5. BranchesIn(g, m)
    BY <1>1 DEF Sound
  <2> HIDE DEF ins
  <2>6. Exact(r, m + 1)
    <3> DEFINE p == Pos(g, c)
    <3>1. p \in DOMAIN g.order /\ \A a \in 1 .. m : ~JumpsTo(g, a, g.order[p])
      BY <2>2, <2>3
    <3> HIDE DEF p
    <3>2. Exact(InsertInstr(g, p, ins), m + 1)
      BY <1>1, <1>3, <2>1, <2>4, <2>5, <3>1, InsertKeepsExact
    <3> QED BY <3>2 DEF p, r
  <2> DEFINE l == m + 1
  <2>7. l \in Nat /\ Exact(r, l) /\ SameGraph(r, h) /\ SameFlow(r, h, l)
    BY <1>1, <1>5, <2>6
  <2> HIDE DEF l
  <2>8. Exact(h, l)
    BY <2>7, ExactKept
  <2> QED BY <2>8 DEF l
<1>10. n <= m + 1 /\ m + 1 \in Nat
  BY <1>1
<1>11. DOMAIN h.code[i].src = DOMAIN f.code[i].src
       /\ h.code[i].dst = f.code[i].dst /\ h.code[i].op = f.code[i].op
  BY <1>2, <1>6 DEF LoadedFrom
<1>12. /\ Last(h.order) = Last(f.order)
       /\ c # Last(f.order) => NextOf(h, c) = NextOf(f, c)
  BY <1>7 DEF LoadedFrom
<1> QED BY <1>4, <1>8, <1>9, <1>10, <1>11, <1>12 DEF LoadedFrom

\* One round of the loop over the operands of an instruction
LoadRound(f, j, g, k) ==
  IF k \in Loaded(f.code[instr], j) THEN LoadAt(g, cur, instr, k, Location(j)) ELSE g

\* The rounds of that loop, each starting from the one before.
LEMMA LoadRounds ==
  ASSUME NEW n, NEW f, Sound(f, n), cur \in 1 .. n, instr \in 1 .. n,
         NEW j, Location(j) \in Slots
  PROVE  LET len == Len(f.code[instr].src) IN
         /\ len \in Nat /\ DOMAIN f.code[instr].src = 1 .. len
         /\ \E loaded : /\ GenLoads(f, j) = loaded[len] /\ loaded[0] = f
                        /\ \A k \in 1 .. len : loaded[k] = LoadRound(f, j, loaded[k - 1], k)
<1> DEFINE x == f.code[instr]
           len == Len(x.src)
           S == {g \in UNION {Fns(1 .. m) : m \in Nat} : \E m : LoadedFrom(f, n, cur, instr, g, m)}
           One1(g, k) == LoadRound(f, j, g, k)
           step == [p \in S \X (1 .. len) |-> One1(p[1], p[2])]
           Solves(g) == g = [k \in 0 .. len |-> IF k = 0 THEN f ELSE One1(g[k - 1], k)]
           loaded == CHOOSE g : Solves(g)
<1>1. n \in Nat /\ Built(f, n) /\ f \in Fns(1 .. n)
  BY DEF Sound, Built
<1>2. x.src \in Seq(Nat) /\ len \in Nat /\ DOMAIN x.src = 1 .. len
  <2>1. x \in Instr
    BY <1>1 DEF Fns
  <2>2. x.src \in Seq(Nat)
    BY <2>1 DEF Instr
  <2> QED BY <2>2
<1>3. f \in S
  <2>1. n <= n
    BY <1>1
  <2>2. Flows(f, n, f, n)
    BY DEF Flows
  <2>3. LoadedFrom(f, n, cur, instr, f, n)
    BY <1>1, <2>1, <2>2 DEF LoadedFrom
  <2> QED BY <1>1, <2>3
<1>4. ASSUME NEW g \in S, NEW k \in 1 .. len PROVE One1(g, k) \in S
  <2>1. CASE k \in Loaded(x, j)
    <3>1. k \in DOMAIN f.code[instr].src
      BY <2>1 DEF Loaded
    <3>2. PICK m : LoadedFrom(f, n, cur, instr, g, m)
      OBVIOUS
    <3> DEFINE h == LoadAt(g, cur, instr, k, Location(j))
    <3>3. LoadedFrom(f, n, cur, instr, h, m + 1)
      BY <3>1, <3>2, LoadStep
    <3>4. h = One1(g, k)
      BY <2>1 DEF LoadRound
    <3> HIDE DEF h, One1
    <3>5. h \in Fns(1 .. m + 1) /\ m + 1 \in Nat
      BY <3>3 DEF LoadedFrom, Sound, Built
    <3>6. h \in S
      BY <3>3, <3>5
    <3> QED BY <3>4, <3>6
  <2>2. CASE k \notin Loaded(x, j)
    BY <2>2 DEF LoadRound
  <2> QED BY <2>1, <2>2
<1>5. GenLoads(f, j) = loaded[len]
  BY DEF GenLoads, LoadRound, gen_spill_load, LoadAt, LoadInstr
<1> HIDE DEF S, len, One1, x
<1>6. step \in Rounds(S, len)
  BY <1>4 DEF Rounds
<1>7. PICK g \in [0 .. len -> S] : Loop(g, f, len, step)
  <2>1. Loops(S, f, len, step) # {}
    <3> HIDE DEF step
    <3> QED BY <1>2, <1>3, <1>6, IterationExists
  <2> QED BY <2>1 DEF Loops
<1>8. Solves(g)
  <2>1. ASSUME NEW k \in 0 .. len
        PROVE  g[k] = IF k = 0 THEN f ELSE One1(g[k - 1], k)
    <3>1. CASE k = 0
      BY <1>7, <3>1 DEF Loop
    <3>2. CASE k # 0
      <4>1. k \in 1 .. len /\ g[k - 1] \in S
        BY <1>2, <3>2
      <4>2. g[k] = step[<<g[k - 1], k>>]
        BY <1>7, <3>2 DEF Loop
      <4> QED BY <3>2, <4>1, <4>2
    <3> QED BY <3>1, <3>2
  <2>2. g = [k \in 0 .. len |-> g[k]]
    OBVIOUS
  <2> QED BY <2>1, <2>2, Zenon
<1>9. Solves(loaded)
  <2> HIDE DEF Solves
  <2> QED BY <1>8
<1> HIDE DEF loaded
<1>10. loaded[0] = f /\ \A k \in 1 .. len : loaded[k] = One1(loaded[k - 1], k)
  BY <1>2, <1>9
<1> QED BY <1>2, <1>5, <1>10 DEF One1, len, x

\* The loop over the operands of an instruction
LEMMA LoadsFrom ==
  ASSUME NEW n, NEW f, Sound(f, n), cur \in 1 .. n, instr \in 1 .. n,
         NEW j, Location(j) \in Slots
  PROVE  /\ \E m : LoadedFrom(f, n, cur, instr, GenLoads(f, j), m)
         /\ Loaded(f.code[instr], j) = {} => GenLoads(f, j) = f
<1> DEFINE x == f.code[instr]
           len == Len(x.src)
<1>1. /\ len \in Nat /\ DOMAIN x.src = 1 .. len
      /\ \E loaded : /\ GenLoads(f, j) = loaded[len] /\ loaded[0] = f
                     /\ \A k \in 1 .. len : loaded[k] = LoadRound(f, j, loaded[k - 1], k)
  BY LoadRounds
<1>2. PICK loaded : /\ GenLoads(f, j) = loaded[len] /\ loaded[0] = f
                    /\ \A k \in 1 .. len : loaded[k] = LoadRound(f, j, loaded[k - 1], k)
  BY <1>1
<1> DEFINE From(g) == /\ \E m : LoadedFrom(f, n, cur, instr, g, m)
                      /\ Loaded(x, j) = {} => g = f
           T == {k \in 0 .. len : From(loaded[k])}
<1> HIDE DEF len
<1>3. From(f)
  <2>1. n \in Nat /\ n <= n
    BY DEF Sound
  <2>2. Flows(f, n, f, n)
    BY DEF Flows
  <2>3. LoadedFrom(f, n, cur, instr, f, n)
    BY <2>1, <2>2 DEF LoadedFrom
  <2> QED BY <2>3
<1>4. ASSUME NEW k \in 1 .. len, k - 1 \in T PROVE k \in T
  <2> DEFINE g == loaded[k - 1]
  <2>1. PICK m : LoadedFrom(f, n, cur, instr, g, m)
    BY <1>4
  <2>2. loaded[k] = LoadRound(f, j, g, k) /\ (Loaded(x, j) = {} => g = f)
    BY <1>2, <1>4
  <2> HIDE DEF g
  <2>3. CASE k \in Loaded(x, j)
    <3>1. k \in DOMAIN f.code[instr].src
      BY <2>3 DEF Loaded
    <3>2. loaded[k] = LoadAt(g, cur, instr, k, Location(j))
      BY <2>2, <2>3 DEF LoadRound
    <3>3. LoadedFrom(f, n, cur, instr, loaded[k], m + 1)
      BY <2>1, <3>1, <3>2, LoadStep
    <3> QED BY <1>1, <2>3, <3>3
  <2>4. CASE k \notin Loaded(x, j)
    <3>1. loaded[k] = g
      BY <2>2, <2>4 DEF LoadRound
    <3> QED BY <1>1, <2>1, <2>2, <3>1
  <2> QED BY <2>3, <2>4
<1>5. len \in T
  <2>1. 0 \in T
    BY <1>1, <1>2, <1>3 DEF len
  <2>2. 0 .. len \subseteq T
    <3> HIDE DEF T
    <3> QED BY <1>1, <1>4, <2>1, Upward DEF len
  <2> QED BY <1>1, <2>2 DEF len
<1> QED BY <1>2, <1>5

\* An instruction inserted anywhere that does not branch
LEMMA InsertKeepsSound ==
  ASSUME NEW n, NEW f, Sound(f, n), NEW p \in DOMAIN f.order,
         NEW ins \in Instr, ins.op \notin Branches,
         \A k \in DOMAIN ins.src : ins.src[k] < f.tmp, ins.dst = None,
         NEW g, g = InsertInstr(f, p, ins)
  PROVE  /\ Sound(g, n + 1)
         /\ Last(g.order) = Last(f.order) /\ Last(f.order) \in 1 .. n
         /\ InsertedOrder(f.order, g.order, p, n + 1)
<1>1. n \in Nat /\ Built(f, n) /\ f \in Fns(1 .. n) /\ f.tmp \in Nat
      /\ f.code \in [1 .. n -> Instr]
  BY DEF Sound, Built, Fns
<1>2. Built(g, n + 1) /\ g.code = Append(f.code, ins) /\ g.tmp = f.tmp
      /\ InsertedOrder(f.order, g.order, p, n + 1)
  BY <1>1, Inserting
<1>3. \A a \in 1 .. n : g.code[a] = f.code[a]
  BY <1>1, <1>2, AppendFn
<1>4. g.code[n + 1] = ins
  <2>1. Append(f.code, ins)[n + 1] = ins
    BY <1>1, AppendFn
  <2> QED BY <1>2, <2>1
<1>5. \A a \in 1 .. n + 1 : a # n + 1 => a \in 1 .. n
  BY <1>1
<1>6. Last(g.order) = Last(f.order) /\ Last(f.order) \in 1 .. n
  <2> DEFINE c == f.order[p]
  <2>1. c \in 1 .. n /\ Pos(f, c) = p
    BY <1>1, OrderPlaces
  <2> HIDE DEF c
  <2> QED BY <1>1, <1>2, <2>1, InsertedPlaces
<1>7. BranchesIn(g, n + 1)
  <2>1. ASSUME NEW a \in 1 .. n + 1, g.code[a].op \in Branches PROVE g.code[a].jump \in 1 .. n + 1
    <3>1. a \in 1 .. n
      BY <1>4, <1>5, <2>1
    <3>2. f.code[a].jump \in 1 .. n
      BY <1>3, <2>1, <3>1 DEF Sound, BranchesIn
    <3> QED BY <1>1, <1>3, <3>1, <3>2
  <2> QED BY <2>1 DEF BranchesIn
<1>8. Bounded(g, n + 1)
  <2>1. ASSUME NEW a \in 1 .. n + 1
        PROVE  /\ \A k \in DOMAIN g.code[a].src : g.code[a].src[k] < f.tmp
               /\ g.code[a].dst \in 0 .. f.tmp - 1 \cup {None}
    <3>1. CASE a = n + 1
      BY <1>4, <3>1
    <3>2. CASE a # n + 1
      BY <1>3, <1>5, <3>2 DEF Sound, Bounded
    <3> QED BY <3>1, <3>2
  <2> QED BY <1>2, <2>1 DEF Bounded
<1>9. Ended(g)
  BY <1>3, <1>6 DEF Sound, Ended
<1>10. Len(g.code) = n + 1
  BY <1>1, <1>2 DEF Built, Fns
<1> QED BY <1>1, <1>2, <1>6, <1>7, <1>8, <1>9, <1>10 DEF Sound

NoJump(f, n, c) == \A a \in 1 .. n : ~JumpsTo(f, a, c)

\* The store of a definition, behind c
LEMMA StoreStep ==
  ASSUME NEW n, NEW f, Sound(f, n), NEW c \in 1 .. n, NEW i, c # Last(f.order),
         NEW m, NEW g, LoadedFrom(f, n, c, i, g, m),
         NEW ins \in Instr, ins.op \notin Branches,
         \A k \in DOMAIN ins.src : ins.src[k] < g.tmp, ins.dst = None,
         NEW h, h = InsertInstr(g, Pos(g, c) + 1, ins)
  PROVE  /\ Sound(h, m + 1) /\ Last(h.order) = Last(f.order)
         /\ NextOf(h, c) = m + 1 /\ m + 1 # Last(h.order)
         /\ Exact(g, m) /\ NoJump(f, n, NextOf(f, c)) => Exact(h, m + 1)
<1> DEFINE q == Pos(g, c)
           p == q + 1
<1>1. /\ m \in Nat /\ n <= m /\ Sound(g, m) /\ n \in Nat /\ Built(g, m)
      /\ Last(g.order) = Last(f.order) /\ NextOf(g, c) = NextOf(f, c)
      /\ Flows(f, n, g, m) /\ BranchesIn(g, m)
  BY DEF LoadedFrom, Sound
<1>2. c \in 1 .. m
  BY <1>1
<1>3. /\ Len(g.order) \in Nat /\ DOMAIN g.order = 1 .. Len(g.order)
      /\ q \in 1 .. Len(g.order) /\ g.order[q] = c
      /\ \A l \in 1 .. Len(g.order) : g.order[l] \in 1 .. m /\ Pos(g, g.order[l]) = l
  BY <1>1, <1>2, OrderPlaces
<1>4. p \in DOMAIN g.order /\ g.order[p] = NextOf(g, c)
  <2>1. g.order[Len(g.order)] # c
    BY <1>1 DEF Last
  <2>2. q # Len(g.order)
    BY <1>3, <2>1
  <2>3. NextOf(g, c) = g.order[q + 1]
    BY DEF NextOf
  <2> QED BY <1>3, <2>2, <2>3
<1>5. h = InsertInstr(g, p, ins)
  OBVIOUS
<1> HIDE DEF p
<1>6. /\ Sound(h, m + 1) /\ Last(h.order) = Last(g.order) /\ Last(g.order) \in 1 .. m
      /\ InsertedOrder(g.order, h.order, p, m + 1)
  BY <1>1, <1>4, <1>5, InsertKeepsSound
<1>7. NextOf(h, c) = m + 1
  <2>1. Built(h, m + 1) /\ m + 1 \in Nat
    BY <1>1, <1>6 DEF Sound
  <2>2. \A l \in 1 .. Len(h.order) : Pos(h, h.order[l]) = l
    <3> DEFINE k == m + 1
    <3>1. k \in Nat /\ Built(h, k)
      BY <2>1
    <3> HIDE DEF k
    <3> QED BY <3>1, OrderPlaces
  <2>3. q \in 1 .. p - 1 /\ q \in 1 .. Len(h.order) /\ q + 1 = p
    BY <1>3, <1>6 DEF InsertedOrder, p
  <2>4. h.order[q] = c
    BY <1>3, <1>6, <2>3 DEF InsertedOrder
  <2>5. Pos(h, c) = q
    BY <2>2, <2>3, <2>4
  <2>6. h.order[p] = m + 1
    BY <1>6 DEF InsertedOrder
  <2>7. NextOf(h, c) = h.order[Pos(h, c) + 1]
    BY DEF NextOf
  <2> QED BY <2>3, <2>5, <2>6, <2>7
<1>8. m + 1 # Last(h.order)
  BY <1>1, <1>6
<1>9. ASSUME Exact(g, m), NoJump(f, n, NextOf(f, c)) PROVE Exact(h, m + 1)
  <2>1. \A a \in 1 .. m : ~JumpsTo(g, a, NextOf(f, c))
    BY <1>1, <1>9 DEF NoJump, JumpsTo, Flows
  <2>2. \A a \in 1 .. m : ~JumpsTo(g, a, g.order[p])
    BY <1>1, <1>4, <2>1
  <2> QED BY <1>1, <1>4, <1>5, <1>9, <2>2, InsertKeepsExact
<1> QED BY <1>1, <1>6, <1>7, <1>8, <1>9

\* A received argument is pushed.
LEMMA PushStep ==
  ASSUME NEW n, NEW f, Sound(f, n), NEW i \in 1 .. n, f.code[i].op \notin Branches,
         NEW ins \in Instr, ins.op \notin Branches, ins.src = <<>>, ins.dst = None,
         NEW h, h = [f EXCEPT !.code[i] = ins]
  PROVE  /\ Sound(h, n) /\ Last(h.order) = Last(f.order)
         /\ Exact(f, n) => Exact(h, n)
<1> DEFINE code == [f.code EXCEPT ![i] = ins]
<1>1. n \in Nat \ {0} /\ Built(f, n) /\ f \in Fns(1 .. n) /\ f.tmp \in Nat
      /\ f.code \in [1 .. n -> Instr]
  BY DEF Sound, Built, Fns
<1>2. code \in [1 .. n -> Instr] /\ code[i] = ins /\ \A a \in 1 .. n : a # i => code[a] = f.code[a]
  BY <1>1
<1>3. RecodedAs(f, h, code, f.tmp)
  BY <1>1 DEF RecodedAs, Fns
<1> HIDE DEF code
<1>4. Built(h, n) /\ h.code = code /\ h.tmp = f.tmp /\ SameGraph(f, h)
  BY <1>1, <1>2, <1>3, Recoding
<1>5. Last(h.order) = Last(f.order)
  BY <1>4 DEF SameGraph
<1>6. SameFlow(f, h, n)
  BY <1>2, <1>4 DEF SameFlow, Branches
<1>7. BranchesIn(h, n)
  BY <1>2, <1>4 DEF Sound, BranchesIn
<1>8. Bounded(h, n)
  <2>1. ASSUME NEW a \in 1 .. n
        PROVE  /\ \A k \in DOMAIN h.code[a].src : h.code[a].src[k] < f.tmp
               /\ h.code[a].dst \in 0 .. f.tmp - 1 \cup {None}
    <3>1. CASE a = i
      <4>1. h.code[a] = ins
        BY <1>2, <1>4, <3>1
      <4>2. DOMAIN ins.src = {}
        OBVIOUS
      <4> QED BY <4>1, <4>2
    <3>2. CASE a # i
      BY <1>2, <1>4, <3>2 DEF Sound, Bounded
    <3> QED BY <3>1, <3>2
  <2> QED BY <1>4, <2>1 DEF Bounded
<1>9. Ended(h)
  <2>1. Last(f.order) \in 1 .. n
    <3>1. /\ Pos(f, i) \in 1 .. Len(f.order) /\ Len(f.order) \in Nat
          /\ \A p \in 1 .. Len(f.order) : f.order[p] \in 1 .. n
      BY <1>1, OrderPlaces
    <3>2. Len(f.order) \in 1 .. Len(f.order)
      BY <3>1
    <3> QED BY <3>1, <3>2 DEF Last
  <2> QED BY <1>2, <1>4, <1>5, <2>1 DEF Sound, Ended
<1>10. Len(h.code) = n
  BY <1>1, <1>2, <1>4
<1> QED BY <1>1, <1>4, <1>5, <1>6, <1>7, <1>8, <1>9, <1>10, ExactKept DEF Sound

\* One round of the loop over the marked registers: the code, the graph, and
\* where the loop over the instructions goes on
Stores(f, j) == f.code[instr].dst = j /\ f.code[instr].op # "receive"

SpilledTo(f, n, j, h, m) ==
  /\ Sound(h, m) /\ n <= m
  /\ Last(h.order) = Last(f.order)
  /\ Stores(f, j) => NextOf(h, cur) \in 1 .. m /\ NextOf(h, cur) # Last(h.order)
  /\ /\ Exact(f, n)
     /\ Loaded(f.code[instr], j) # {} => NoJump(f, n, cur)
     /\ Stores(f, j) => NoJump(f, n, NextOf(f, cur))
     => Exact(h, m)

\* One marked register at one instruction: loads and store keep the function
\* sound, and exact unless one of them is put where a branch goes.
LEMMA SpillStep ==
  ASSUME NEW n, NEW f, Sound(f, n), cur \in 1 .. n, instr \in 1 .. n,
         cur = Last(f.order) => instr = cur,
         NEW j \in Nat, Location(j) \in Slots
  PROVE  \E m : SpilledTo(f, n, j, GenDef(GenLoads(f, j), j), m)
<1> DEFINE x == f.code[instr]
           g == GenLoads(f, j)
           h == GenDef(g, j)
<1>1. n \in Nat /\ Built(f, n) /\ f \in Fns(1 .. n) /\ Len(f.code) = n /\ Ended(f)
  BY DEF Sound, Built
<1>2. PICK m : LoadedFrom(f, n, cur, instr, g, m)
  BY LoadsFrom
<1>3. Loaded(x, j) = {} => g = f
  BY LoadsFrom
<1> HIDE DEF g
<1>4. /\ m \in Nat /\ n <= m /\ Sound(g, m) /\ Last(g.order) = Last(f.order)
      /\ g.code[instr].dst = x.dst /\ g.code[instr].op = x.op
  BY <1>2 DEF LoadedFrom
<1>5. Exact(f, n) /\ (Loaded(x, j) # {} => NoJump(f, n, cur)) => Exact(g, m)
  <2>1. CASE Loaded(x, j) = {}
    <3>1. m = n
      BY <1>1, <1>3, <1>4, <2>1 DEF Sound
    <3> QED BY <1>3, <2>1, <3>1
  <2>2. CASE Loaded(x, j) # {}
    BY <1>2, <2>2 DEF LoadedFrom, NoJump
  <2> QED BY <2>1, <2>2
<1>6. CASE x.dst # j
  <2>1. h = g /\ ~Stores(f, j)
    BY <1>4, <1>6 DEF GenDef, Stores
  <2> QED BY <1>4, <1>5, <2>1 DEF SpilledTo, g
<1>7. CASE x.dst = j /\ x.op = "receive"
  <2> DEFINE ins == [Ins("push_arg", <<>>, None, 0) EXCEPT !.slot = Location(j)]
  <2>1. ins \in Instr /\ ins.op \notin Branches /\ ins.src = <<>> /\ ins.dst = None
    <3>1. ins = [op |-> "push_arg", src |-> <<>>, dst |-> None, jump |-> 0, slot |-> Location(j)]
      BY DEF Ins
    <3>2. "push_arg" \in Ops /\ <<>> \in Seq(Nat) /\ "push_arg" \notin Branches
      BY DEF Ops, Branches
    <3> HIDE DEF ins
    <3> QED BY <3>1, <3>2 DEF Instr
  <2>2. h = [g EXCEPT !.code[instr] = ins]
    BY <1>4, <1>7 DEF GenDef, PushArg
  <2>3. instr \in 1 .. m /\ g.code[instr].op \notin Branches
    BY <1>1, <1>4, <1>7 DEF Branches
  <2> HIDE DEF ins, h
  <2>4. /\ Sound(h, m) /\ Last(h.order) = Last(g.order)
        /\ Exact(g, m) => Exact(h, m)
    BY <1>4, <2>1, <2>2, <2>3, PushStep
  <2>5. ~Stores(f, j)
    BY <1>7 DEF Stores
  <2> QED BY <1>4, <1>5, <2>4, <2>5 DEF SpilledTo, h, g
<1>8. CASE x.dst = j /\ x.op # "receive"
  <2> DEFINE ins == [Ins("store", <<j>>, None, 0) EXCEPT !.slot = Location(j)]
  <2>1. ins \in Instr /\ ins.op \notin Branches /\ ins.src = <<j>> /\ ins.dst = None
    <3>1. ins = [op |-> "store", src |-> <<j>>, dst |-> None, jump |-> 0, slot |-> Location(j)]
      BY DEF Ins
    <3>2. "store" \in Ops /\ <<j>> \in Seq(Nat) /\ "store" \notin Branches
      BY DEF Ops, Branches
    <3> HIDE DEF ins
    <3> QED BY <3>1, <3>2 DEF Instr
  <2>2. h = InsertInstr(g, Pos(g, cur) + 1, ins)
    BY <1>4, <1>8 DEF GenDef, gen_spill_store
  <2>3. cur # Last(f.order)
    BY <1>1, <1>8, ValAssumption DEF Ended
  <2>4. \A k \in DOMAIN ins.src : ins.src[k] < g.tmp
    <3>1. g.code[instr].dst \in 0 .. g.tmp - 1 \cup {None} /\ g.tmp \in Nat
      BY <1>1, <1>4 DEF Sound, Bounded, Built, Fns
    <3>2. j < g.tmp
      BY <1>4, <1>8, <3>1, ValAssumption
    <3> HIDE DEF ins
    <3> QED BY <2>1, <3>2
  <2> HIDE DEF ins, h
  <2>5. /\ Sound(h, m + 1) /\ Last(h.order) = Last(f.order)
        /\ NextOf(h, cur) = m + 1 /\ m + 1 # Last(h.order)
        /\ Exact(g, m) /\ NoJump(f, n, NextOf(f, cur)) => Exact(h, m + 1)
    BY <1>2, <2>1, <2>2, <2>3, <2>4, StoreStep
  <2>6. Stores(f, j)
    BY <1>8 DEF Stores
  <2>7. SpilledTo(f, n, j, h, m + 1)
    <3>1. n <= m + 1 /\ m + 1 \in 1 .. m + 1
      BY <1>1, <1>4
    <3> QED BY <1>5, <2>5, <2>6, <3>1 DEF SpilledTo
  <2> QED BY <2>7 DEF h, g
<1> QED BY <1>6, <1>7, <1>8

----------------------------------------------------------------------------
(* The inductive invariant *)

InfoOK ==
  /\ DOMAIN info \subseteq Nat
  /\ \A j \in DOMAIN info : info[j].var \in VarRegs \cup {None} /\ info[j].key \in Nat

\* In a pass gen_spill_code stands behind the last instruction only when it has
\* come to the end of the function.
WalkOK ==
  /\ {cur, instr, pc} \subseteq 1 .. Len(fn.code)
  /\ cur = Last(fn.order) => instr = cur

IInv ==
  /\ source \in Bodies
  /\ Sound(fn, Len(fn.code))
  /\ InfoOK
  /\ temps \in Seq([reg : Nat, pass : Nat]) /\ passes \in Nat
  /\ phase \in {"number", "spill", "run", "done"}
  /\ spill \subseteq DOMAIN info /\ todo \subseteq spill
  /\ phase # "spill" => todo = {}
  /\ WalkOK
  /\ odd \cap {"jumped", "joined"} = {} => Exact(fn, Len(fn.code))

\* The instructions of a sound function are 1 .. n.
LEMMA SoundIds ==
  ASSUME NEW n, NEW f, Sound(f, n)
  PROVE  Ids(f) = 1 .. n /\ Len(f.code) = n /\ n \in Nat \ {0} /\ Built(f, n)
BY DEF Sound, Built, Fns, Ids

\* temp_stack_location yields a place in the frame.
LEMMA LocationType ==
  ASSUME IInv, NEW j \in DOMAIN info
  PROVE  Location(j) \in Slots
<1>1. info[j].var \in VarRegs \cup {None} /\ info[j].key \in Nat
  BY DEF IInv, InfoOK
<1>2. VarRegs \subseteq Nat
  BY RegsAssumption DEF Sources
<1>3. CASE info[j].var # None
  BY <1>1, <1>2, <1>3 DEF Location, Slots
<1>4. CASE info[j].var = None
  <2> DEFINE key == info[j].key
             Found == {k \in DOMAIN temps : temps[k].reg = key}
  <2>1. Len(temps) \in Nat /\ DOMAIN temps = 1 .. Len(temps)
    BY DEF IInv
  <2>2. TempIndex(key) \in Nat
    <3>1. CASE \E k \in DOMAIN temps : temps[k].reg = key
      <4>1. Found \in SUBSET Nat /\ Found # {}
        BY <2>1, <3>1
      <4>2. PICK k \in Found : \A l \in Found : k <= l
        <5> HIDE DEF Found
        <5> QED BY <4>1, Least
      <4>3. ASSUME NEW l \in 1 .. k - 1 PROVE temps[l].reg # key
        BY <2>1, <4>2
      <4>4. \E q \in DOMAIN temps :
               temps[q].reg = key /\ \A l \in 1 .. q - 1 : temps[l].reg # key
        BY <4>2, <4>3
      <4> HIDE DEF key
      <4>5. TempIndex(key) \in DOMAIN temps
        BY <3>1, <4>4 DEF TempIndex
      <4> QED BY <2>1, <4>5
    <3>2. CASE ~ \E k \in DOMAIN temps : temps[k].reg = key
      BY <2>1, <3>2 DEF TempIndex
    <3> QED BY <3>1, <3>2
  <2> QED BY <1>4, <2>2 DEF Location, Slots
<1> QED BY <1>3, <1>4

\* The invariant implies type correctness.
LEMMA InvTypeOK == IInv => TypeOK
<1> SUFFICES ASSUME IInv PROVE TypeOK
  OBVIOUS
<1> DEFINE n == Len(fn.code)
<1>1. Sound(fn, n)
  BY DEF IInv
<1> HIDE DEF n
<1>2. Ids(fn) = 1 .. n /\ Built(fn, n)
  BY <1>1, SoundIds
<1>3. \A id \in 1 .. n :
        /\ \A r \in {fn.code[id].src[k] : k \in DOMAIN fn.code[id].src} : r < fn.tmp
        /\ fn.code[id].dst \in 0 .. fn.tmp - 1 \cup {None}
  BY <1>1 DEF Sound, Bounded
<1>4. DOMAIN fn.pred = 1 .. n /\ DOMAIN fn.succ = 1 .. n
  BY <1>2 DEF Built, Fns, Lists
<1>5. IsInjective(fn.order) /\ {fn.order[p] : p \in DOMAIN fn.order} = 1 .. n
  BY <1>2 DEF Built, Ordered
<1>6. cur \in 1 .. n /\ instr \in 1 .. n /\ pc \in 1 .. n
  BY DEF IInv, WalkOK, n
<1> QED BY <1>2, <1>3, <1>4, <1>5, <1>6 DEF IInv, TypeOK

\* The invariant implies that the two ends of every edge agree.
LEMMA InvPaired == IInv => EdgesPaired
<1> SUFFICES ASSUME IInv PROVE EdgesPaired
  OBVIOUS
<1>1. Ids(fn) = 1 .. Len(fn.code) /\ Built(fn, Len(fn.code))
  BY SoundIds DEF IInv
<1> QED BY <1>1 DEF Built, Paired, EdgesPaired

\* The invariant implies that the graph follows the code.
LEMMA InvFollows == IInv => GraphFollowsCode
<1> SUFFICES ASSUME IInv, odd \cap {"jumped", "joined"} = {}, NEW id \in Ids(fn)
             PROVE  {fn.succ[id][k] : k \in DOMAIN fn.succ[id]} = CodeSucc(fn, id)
  BY DEF GraphFollowsCode
<1> DEFINE n == Len(fn.code)
<1>1. Sound(fn, n) /\ Exact(fn, n)
  BY DEF IInv
<1> HIDE DEF n
<1>2. Ids(fn) = 1 .. n /\ Built(fn, n) /\ n \in Nat /\ BranchesIn(fn, n)
  BY <1>1, SoundIds DEF Sound
<1> QED BY <1>1, <1>2, ExactFollows

\* Steps that leave the function and the pass alone
LEMMA InvFrame ==
  ASSUME IInv, UNCHANGED <<source, fn, info, temps, passes, spill, todo, cur, instr, odd>>,
         phase' \in {"number", "spill", "run", "done"}, phase' # "spill" => todo = {},
         pc' \in Ids(fn)
  PROVE  IInv'
<1>1. Ids(fn) = 1 .. Len(fn.code)
  BY SoundIds DEF IInv
<1>2. InfoOK'
  BY DEF IInv, InfoOK
<1>3. WalkOK'
  BY <1>1 DEF IInv, WalkOK
<1> QED BY <1>2, <1>3 DEF IInv

\* SpillReg keeps the invariant.
LEMMA InvSpillReg ==
  ASSUME IInv, NEW j \in todo, SpillReg(j)
  PROVE  IInv'
<1> DEFINE n == Len(fn.code)
           h == GenDef(GenLoads(fn, j), j)
<1>1. Sound(fn, n) /\ cur \in 1 .. n /\ instr \in 1 .. n /\ pc \in 1 .. n
      /\ (cur = Last(fn.order) => instr = cur)
  BY DEF IInv, WalkOK
<1>2. j \in DOMAIN info /\ j \in Nat
  BY DEF IInv, InfoOK
<1>3. Location(j) \in Slots
  BY <1>2, LocationType
<1> HIDE DEF n
<1>4. PICK m : SpilledTo(fn, n, j, h, m)
  BY <1>1, <1>2, <1>3, SpillStep
<1>5. fn' = h
  BY DEF SpillReg
<1> HIDE DEF h
<1>6. Sound(fn', m) /\ Len(fn'.code) = m /\ n \in Nat /\ m \in Nat /\ n <= m
      /\ Last(fn'.order) = Last(fn.order)
  BY <1>1, <1>4, <1>5, SoundIds DEF SpilledTo
<1>7. WalkOK'
  <2>1. cur' = IF Stores(fn, j) THEN NextOf(fn', cur) ELSE cur
    BY DEF SpillReg, Stores
  <2>2. instr' = instr /\ pc' = pc
    BY DEF SpillReg, mach
  <2>3. instr \in 1 .. m /\ pc \in 1 .. m /\ cur \in 1 .. m
    BY <1>1, <1>6
  <2>4. CASE Stores(fn, j)
    BY <1>4, <1>5, <1>6, <2>1, <2>2, <2>3, <2>4 DEF SpilledTo, WalkOK
  <2>5. CASE ~Stores(fn, j)
    BY <1>1, <1>6, <2>1, <2>2, <2>3, <2>5 DEF WalkOK
  <2> QED BY <2>4, <2>5
<1>8. temps' \in Seq([reg : Nat, pass : Nat])
  <2>1. temps \in Seq([reg : Nat, pass : Nat]) /\ passes \in Nat /\ info[j].key \in Nat
    BY <1>2 DEF IInv, InfoOK
  <2> DEFINE S == [reg : Nat, pass : Nat]
             e == [reg |-> info[j].key, pass |-> passes]
  <2>2. temps' \in {temps, Append(temps, e)}
    BY DEF SpillReg, temp_stack_location
  <2>3. e \in S /\ temps \in Seq(S)
    BY <2>1
  <2> HIDE DEF e, S
  <2>4. temps' \in Seq(S)
    BY <2>2, <2>3
  <2> QED BY <2>4 DEF S
<1>9. ASSUME odd' \cap {"jumped", "joined"} = {} PROVE Exact(fn', m)
  <2>1. odd \cap {"jumped", "joined"} = {} /\ "jumped" \notin OddAt(j) /\ "joined" \notin OddAt(j)
    BY <1>9 DEF SpillReg
  <2>2. Exact(fn, n)
    BY <2>1 DEF IInv, n
  <2>3. Ids(fn) = 1 .. n
    BY <1>1, SoundIds
  <2>4. Loaded(fn.code[instr], j) # {} => NoJump(fn, n, cur)
    BY <2>1, <2>3 DEF OddAt, NoJump, JumpsTo
  <2>5. Stores(fn, j) => NoJump(fn, n, NextOf(fn, cur))
    BY <2>1, <2>3 DEF OddAt, NoJump, JumpsTo, Stores
  <2> QED BY <1>4, <1>5, <2>2, <2>4, <2>5 DEF SpilledTo
<1>10. InfoOK'
  BY DEF IInv, InfoOK, SpillReg
<1>11. source' = source /\ passes' = passes /\ phase' = phase /\ spill' = spill /\ info' = info
       /\ todo' \subseteq todo /\ phase = "spill"
  BY DEF SpillReg
<1> QED BY <1>6, <1>7, <1>8, <1>9, <1>10, <1>11 DEF IInv

\* NextInstr keeps the invariant.
LEMMA InvNextInstr ==
  ASSUME IInv, NextInstr
  PROVE  IInv'
<1> DEFINE n == Len(fn.code)
<1>1. Sound(fn, n) /\ cur \in 1 .. n /\ pc \in 1 .. n
  BY DEF IInv, WalkOK
<1> HIDE DEF n
<1>2. n \in Nat /\ Built(fn, n)
  BY <1>1, SoundIds
<1>3. NextOf(fn, cur) \in 1 .. n
  <2>1. /\ Len(fn.order) \in Nat /\ Pos(fn, cur) \in 1 .. Len(fn.order)
        /\ fn.order[Pos(fn, cur)] = cur
        /\ \A p \in 1 .. Len(fn.order) : fn.order[p] \in 1 .. n
    BY <1>1, <1>2, OrderPlaces
  <2>2. Pos(fn, cur) # Len(fn.order)
    BY <2>1 DEF NextInstr, Last
  <2>3. Pos(fn, cur) + 1 \in 1 .. Len(fn.order)
    BY <2>1, <2>2
  <2> QED BY <2>1, <2>3 DEF NextOf
<1>4. WalkOK'
  BY <1>1, <1>3 DEF NextInstr, mach, WalkOK, n
<1>5. InfoOK'
  BY DEF IInv, InfoOK, NextInstr
<1> QED BY <1>4, <1>5 DEF IInv, NextInstr

----------------------------------------------------------------------------
(* The registers are numbered *)

Has(list, x) == \E k \in DOMAIN list : list[k] = x

Holds(list, other) == \A k \in DOMAIN other : Has(list, other[k])

\* An appended element is in the list, with all that was.
LEMMA AppendHas ==
  ASSUME NEW S, NEW list \in Seq(S), NEW e \in S
  PROVE  /\ Append(list, e) \in Seq(S) /\ Has(Append(list, e), e)
         /\ \A x : Has(list, x) => Has(Append(list, e), x)
<1> DEFINE t == Append(list, e)
           n == Len(list)
<1>1. t \in Seq(S) /\ n \in Nat /\ DOMAIN t = 1 .. n + 1 /\ DOMAIN list = 1 .. n
      /\ t[n + 1] = e /\ \A k \in 1 .. n : t[k] = list[k]
  OBVIOUS
<1> HIDE DEF t, n
<1>2. n + 1 \in DOMAIN t /\ \A k \in 1 .. n : k \in DOMAIN t
  BY <1>1
<1>3. Has(t, e)
  BY <1>1, <1>2 DEF Has
<1>4. \A x : Has(list, x) => Has(t, x)
  BY <1>1, <1>2 DEF Has
<1> QED BY <1>1, <1>3, <1>4 DEF t

\* ig_build_graph loses no register that it has or that it comes across.
LEMMA AddMissingHolds ==
  ASSUME NEW found \in Seq(Nat), NEW ops \in Seq(Nat)
  PROVE  /\ AddMissing(found, ops) \in Seq(Nat)
         /\ Holds(AddMissing(found, ops), found) /\ Holds(AddMissing(found, ops), ops)
<1> DEFINE len == Len(ops)
           S == {l \in Seq(Nat) : Holds(l, found)}
           More(l, k) == IF Contains(l, ops[k]) THEN l ELSE Append(l, ops[k])
           step == [p \in S \X (1 .. len) |-> More(p[1], p[2])]
           Solves(g) == g = [k \in 0 .. len |-> IF k = 0 THEN found ELSE More(g[k - 1], k)]
           with == CHOOSE g : Solves(g)
<1>1. len \in Nat /\ DOMAIN ops = 1 .. len /\ \A k \in 1 .. len : ops[k] \in Nat
  OBVIOUS
<1>2. found \in S
  BY DEF Holds, Has
<1>3. ASSUME NEW l \in S, NEW k \in 1 .. len
      PROVE  /\ More(l, k) \in S /\ Has(More(l, k), ops[k])
             /\ \A x : Has(l, x) => Has(More(l, k), x)
  <2>1. l \in Seq(Nat) /\ ops[k] \in Nat
    BY <1>1
  <2>2. CASE Contains(l, ops[k])
    <3>1. Has(l, ops[k])
      BY <2>1, <2>2 DEF Contains, Has
    <3> QED BY <2>2, <3>1
  <2>3. CASE ~Contains(l, ops[k])
    <3> DEFINE t == Append(l, ops[k])
    <3>1. t \in Seq(Nat) /\ Has(t, ops[k]) /\ \A x : Has(l, x) => Has(t, x)
      BY <2>1, AppendHas
    <3>2. More(l, k) = t
      BY <2>3
    <3> HIDE DEF t, More
    <3>3. Holds(t, found)
      BY <3>1 DEF Holds
    <3> QED BY <3>1, <3>2, <3>3
  <2> QED BY <2>2, <2>3
<1>4. AddMissing(found, ops) = with[len]
  BY DEF AddMissing
<1> HIDE DEF S, len, More
<1>5. step \in Rounds(S, len)
  BY <1>3 DEF Rounds
<1>6. PICK g \in [0 .. len -> S] : Loop(g, found, len, step)
  <2>1. Loops(S, found, len, step) # {}
    <3> HIDE DEF step
    <3> QED BY <1>1, <1>2, <1>5, IterationExists
  <2> QED BY <2>1 DEF Loops
<1>7. Solves(g)
  <2>1. ASSUME NEW k \in 0 .. len
        PROVE  g[k] = IF k = 0 THEN found ELSE More(g[k - 1], k)
    <3>1. CASE k = 0
      BY <1>6, <3>1 DEF Loop
    <3>2. CASE k # 0
      <4>1. k \in 1 .. len /\ g[k - 1] \in S
        BY <1>1, <3>2
      <4>2. g[k] = step[<<g[k - 1], k>>]
        BY <1>6, <3>2 DEF Loop
      <4> QED BY <3>2, <4>1, <4>2
    <3> QED BY <3>1, <3>2
  <2>2. g = [k \in 0 .. len |-> g[k]]
    OBVIOUS
  <2> QED BY <2>1, <2>2, Zenon
<1>8. Solves(with)
  <2> HIDE DEF Solves
  <2> QED BY <1>7
<1> HIDE DEF with
<1>9. with[0] = found /\ \A k \in 1 .. len : with[k] = More(with[k - 1], k)
  BY <1>1, <1>8
<1>10. with[len] \in S /\ \A l \in 1 .. len : Has(with[len], ops[l])
  <2> DEFINE T == {k \in 0 .. len : with[k] \in S /\ \A l \in 1 .. k : Has(with[k], ops[l])}
  <2>1. 0 \in T
    BY <1>1, <1>2, <1>9
  <2>2. ASSUME NEW k \in 1 .. len, k - 1 \in T PROVE k \in T
    <3>1. with[k - 1] \in S /\ \A l \in 1 .. k - 1 : Has(with[k - 1], ops[l])
      BY <2>2
    <3>2. with[k] = More(with[k - 1], k)
      BY <1>9
    <3>3. with[k] \in S /\ Has(with[k], ops[k]) /\ \A x : Has(with[k - 1], x) => Has(with[k], x)
      BY <1>3, <3>1, <3>2
    <3>4. ASSUME NEW l \in 1 .. k PROVE Has(with[k], ops[l])
      <4>1. l = k \/ l \in 1 .. k - 1
        BY <1>1
      <4> QED BY <3>1, <3>3, <4>1
    <3> QED BY <1>1, <3>3, <3>4
  <2>3. 0 .. len \subseteq T
    <3> HIDE DEF T
    <3> QED BY <1>1, <2>1, <2>2, Upward
  <2> QED BY <1>1, <2>3
<1> QED BY <1>1, <1>4, <1>10 DEF S, Holds

\* The operands of an instruction are its sources and its destination.
LEMMA OperandsIn ==
  ASSUME NEW i \in Instr
  PROVE  /\ Operands(i) \in Seq(Nat)
         /\ i.dst # None => Has(Operands(i), i.dst)
         /\ Holds(Operands(i), i.src)
<1> DEFINE src == i.src
           n == Len(src)
<1>1. src \in Seq(Nat) /\ i.dst \in Nat \cup {None} /\ n \in Nat /\ DOMAIN src = 1 .. n
  BY DEF Instr
<1>2. CASE i.dst = None
  <2>1. Operands(i) = <<>> \o src
    BY <1>2 DEF Operands
  <2> HIDE DEF src, n
  <2>2. <<>> \o src = src
    BY <1>1
  <2> QED BY <1>1, <1>2, <2>1, <2>2 DEF Has, Holds, src
<1>3. CASE i.dst # None
  <2> DEFINE d == <<i.dst>>
             t == d \o src
  <2>1. Operands(i) = t
    BY <1>3 DEF Operands
  <2>2. d \in Seq(Nat) /\ Len(d) = 1 /\ d[1] = i.dst
    BY <1>1, <1>3
  <2> HIDE DEF d, src, n
  <2>3. /\ t \in Seq(Nat) /\ Len(t) = Len(d) + Len(src)
        /\ \A k \in 1 .. Len(d) + Len(src) : t[k] = IF k <= Len(d) THEN d[k] ELSE src[k - Len(d)]
    BY <1>1, <2>2, ConcatProperties
  <2> HIDE DEF t
  <2>4. DOMAIN t = 1 .. n + 1 /\ t[1] = i.dst
    <3>1. Len(d) + Len(src) = n + 1 /\ 1 \in 1 .. n + 1
      BY <1>1, <2>2 DEF n
    <3> QED BY <2>2, <2>3, <3>1
  <2>5. ASSUME NEW k \in 1 .. n PROVE k + 1 \in 1 .. n + 1 /\ t[k + 1] = src[k]
    <3>1. k + 1 \in 1 .. Len(d) + Len(src) /\ ~(k + 1 <= Len(d)) /\ (k + 1) - Len(d) = k
          /\ k + 1 \in 1 .. n + 1
      BY <1>1, <2>2 DEF n
    <3> QED BY <2>3, <3>1
  <2>6. 1 \in 1 .. n + 1
    BY <1>1
  <2>7. Has(t, i.dst)
    BY <2>4, <2>6 DEF Has
  <2>8. Holds(t, src)
    BY <1>1, <2>4, <2>5 DEF Has, Holds
  <2> QED BY <2>1, <2>3, <2>7, <2>8 DEF src
<1> QED BY <1>2, <1>3

\* Every register of the function is among those numbered.
LEMMA SymRegsHold ==
  ASSUME NEW n \in Nat, NEW f, Len(f.code) = n, f.code \in [1 .. n -> Instr]
  PROVE  /\ SymRegs(f) \in Seq(Nat)
         /\ \A a \in 1 .. n : Holds(SymRegs(f), Operands(f.code[a]))
<1> DEFINE S == Seq(Nat)
           More(l, a) == AddMissing(l, Operands(f.code[a]))
           step == [p \in S \X (1 .. n) |-> More(p[1], p[2])]
           Solves(g) == g = [a \in 0 .. n |-> IF a = 0 THEN <<>> ELSE More(g[a - 1], a)]
           upTo == CHOOSE g : Solves(g)
<1>1. <<>> \in S
  OBVIOUS
<1>2. ASSUME NEW l \in S, NEW a \in 1 .. n
      PROVE  /\ More(l, a) \in S /\ Holds(More(l, a), l)
             /\ Holds(More(l, a), Operands(f.code[a]))
  <2> DEFINE ops == Operands(f.code[a])
  <2>1. f.code[a] \in Instr
    OBVIOUS
  <2>2. ops \in Seq(Nat)
    BY <2>1, OperandsIn
  <2> HIDE DEF ops
  <2>3. /\ AddMissing(l, ops) \in Seq(Nat)
        /\ Holds(AddMissing(l, ops), l) /\ Holds(AddMissing(l, ops), ops)
    BY <2>2, AddMissingHolds
  <2> QED BY <2>3 DEF ops
<1>3. SymRegs(f) = upTo[n]
  BY DEF SymRegs
<1> HIDE DEF S, More
<1>4. step \in Rounds(S, n)
  BY <1>2 DEF Rounds
<1>5. PICK g \in [0 .. n -> S] : Loop(g, <<>>, n, step)
  <2>1. Loops(S, <<>>, n, step) # {}
    <3> HIDE DEF step
    <3> QED BY <1>1, <1>4, IterationExists
  <2> QED BY <2>1 DEF Loops
<1>6. Solves(g)
  <2>1. ASSUME NEW a \in 0 .. n
        PROVE  g[a] = IF a = 0 THEN <<>> ELSE More(g[a - 1], a)
    <3>1. CASE a = 0
      BY <1>5, <3>1 DEF Loop
    <3>2. CASE a # 0
      <4>1. a \in 1 .. n /\ g[a - 1] \in S
        BY <3>2
      <4>2. g[a] = step[<<g[a - 1], a>>]
        BY <1>5, <3>2 DEF Loop
      <4> QED BY <3>2, <4>1, <4>2
    <3> QED BY <3>1, <3>2
  <2>2. g = [a \in 0 .. n |-> g[a]]
    OBVIOUS
  <2> QED BY <2>1, <2>2, Zenon
<1>7. Solves(upTo)
  <2> HIDE DEF Solves
  <2> QED BY <1>6
<1> HIDE DEF upTo
<1>8. upTo[0] = <<>> /\ \A a \in 1 .. n : upTo[a] = More(upTo[a - 1], a)
  BY <1>7
<1>9. upTo[n] \in S /\ \A b \in 1 .. n : Holds(upTo[n], Operands(f.code[b]))
  <2> DEFINE T == {a \in 0 .. n : upTo[a] \in S
                                  /\ \A b \in 1 .. a : Holds(upTo[a], Operands(f.code[b]))}
  <2>1. 0 \in T
    BY <1>1, <1>8
  <2>2. ASSUME NEW a \in 1 .. n, a - 1 \in T PROVE a \in T
    <3>1. upTo[a - 1] \in S /\ \A b \in 1 .. a - 1 : Holds(upTo[a - 1], Operands(f.code[b]))
      BY <2>2
    <3>2. upTo[a] = More(upTo[a - 1], a)
      BY <1>8
    <3>3. upTo[a] \in S /\ Holds(upTo[a], upTo[a - 1]) /\ Holds(upTo[a], Operands(f.code[a]))
      BY <1>2, <3>1, <3>2
    <3>4. ASSUME NEW b \in 1 .. a PROVE Holds(upTo[a], Operands(f.code[b]))
      <4>1. b = a \/ b \in 1 .. a - 1
        OBVIOUS
      <4>2. b \in 1 .. a - 1 => Holds(upTo[a], Operands(f.code[b]))
        BY <3>1, <3>3, ZenonT(30) DEF Holds, Has
      <4> QED BY <3>3, <4>1, <4>2
    <3> QED BY <3>3, <3>4
  <2>3. 0 .. n \subseteq T
    <3> HIDE DEF T
    <3> QED BY <2>1, <2>2, Upward
  <2> QED BY <2>3
<1> QED BY <1>3, <1>9 DEF S

\* ig_sym_reg numbers the registers of the list from zero.
LEMMA SymRegType ==
  ASSUME NEW regs \in Seq(Nat), NEW r, Has(regs, r)
  PROVE  SymReg(regs, r) \in 0 .. Len(regs) - 1
<1> DEFINE k == CHOOSE k \in DOMAIN regs : regs[k] = r
<1>1. k \in DOMAIN regs
  BY DEF Has
<1> HIDE DEF k
<1>2. k \in 1 .. Len(regs) /\ Len(regs) \in Nat
  BY <1>1
<1> QED BY <1>2 DEF SymReg, k

\* What SymInstr makes of an instruction
RenumberedAs(i, regs, j) ==
  /\ j \in Instr /\ j.op = i.op /\ j.jump = i.jump
  /\ \A k \in DOMAIN j.src : j.src[k] \in 0 .. Len(regs) - 1
  /\ j.dst \in 0 .. Len(regs) - 1 \cup {None}
  /\ i.dst = None => j.dst = None
  /\ i.src = <<>> => j.src = <<>>

\* An instruction after mir_to_sym_lir, when all its registers are in the list.
LEMMA Renumbering ==
  ASSUME NEW i \in Instr, NEW regs \in Seq(Nat), Holds(regs, Operands(i))
  PROVE  RenumberedAs(i, regs, SymInstr(i, regs))
<1> DEFINE src == [k \in DOMAIN i.src |-> SymReg(regs, i.src[k])]
           dst == IF i.dst = None THEN None ELSE SymReg(regs, i.dst)
           j == SymInstr(i, regs)
<1>1. i.src \in Seq(Nat) /\ i.dst \in Nat \cup {None}
  BY DEF Instr
<1>2. \A x : Has(Operands(i), x) => Has(regs, x)
  BY DEF Has, Holds
<1>3. \A k \in DOMAIN i.src : SymReg(regs, i.src[k]) \in 0 .. Len(regs) - 1
  <2> TAKE k \in DOMAIN i.src
  <2>1. Has(regs, i.src[k])
    BY <1>2, OperandsIn DEF Holds
  <2> QED BY <2>1, SymRegType
<1>4. dst \in 0 .. Len(regs) - 1 \cup {None}
  <2>1. CASE i.dst # None
    <3>1. Has(regs, i.dst)
      BY <1>2, <2>1, OperandsIn
    <3> QED BY <2>1, <3>1, SymRegType
  <2> QED BY <2>1
<1>5. src \in Seq(Nat) /\ DOMAIN src = DOMAIN i.src /\ Len(src) = Len(i.src)
  <2> DEFINE n == Len(i.src)
  <2>1. n \in Nat /\ DOMAIN i.src = 1 .. n
    BY <1>1
  <2>2. \A k \in 1 .. n : SymReg(regs, i.src[k]) \in Nat
    BY <1>3, <2>1
  <2> HIDE DEF n
  <2>3. src = [k \in 1 .. n |-> SymReg(regs, i.src[k])]
    BY <2>1
  <2>4. src \in [1 .. n -> Nat]
    BY <2>2, <2>3
  <2> HIDE DEF src
  <2>5. src \in Seq(Nat) /\ DOMAIN src = 1 .. n /\ Len(src) = n
    BY <2>1, <2>4
  <2> QED BY <2>1, <2>5 DEF n
<1>6. \A k \in DOMAIN src : src[k] \in 0 .. Len(regs) - 1
  BY <1>3
<1>7. j = [i EXCEPT !.src = src, !.dst = dst]
  BY DEF SymInstr, Instr
<1>8. Len(regs) \in Nat
  OBVIOUS
<1>9. i.src = <<>> => src = <<>>
  OBVIOUS
<1>10. i.dst = None => dst = None
  OBVIOUS
<1> HIDE DEF src, dst, j
<1>11. dst \in Nat \cup {None}
  BY <1>4, <1>8
<1>12. j \in Instr /\ j.op = i.op /\ j.jump = i.jump /\ j.src = src /\ j.dst = dst
  BY <1>5, <1>7, <1>11 DEF Instr
<1> QED BY <1>4, <1>6, <1>9, <1>10, <1>12 DEF RenumberedAs, j

\* Numbering the registers anew keeps the function sound and its graph exact.
LEMMA NumberedSound ==
  ASSUME NEW n, NEW f, Sound(f, n), NEW g, g = Numbered(f, SymRegs(f))
  PROVE  /\ Sound(g, n) /\ Last(g.order) = Last(f.order)
         /\ SymRegs(f) \in Seq(Nat)
         /\ Exact(f, n) => Exact(g, n)
<1> DEFINE regs == SymRegs(f)
           code == [a \in 1 .. n |-> SymInstr(f.code[a], regs)]
           tmp == IF f.tmp < Len(regs) THEN Len(regs) ELSE f.tmp
<1>1. n \in Nat \ {0} /\ Built(f, n) /\ f.code \in [1 .. n -> Instr] /\ f.tmp \in Nat
      /\ Len(f.code) = n /\ f \in Fns(1 .. n)
  BY DEF Sound, Built, Fns
<1>2. regs \in Seq(Nat) /\ \A a \in 1 .. n : Holds(regs, Operands(f.code[a]))
  BY <1>1, SymRegsHold
<1>3. RecodedAs(f, g, code, tmp)
  <2>1. Ids(f) = 1 .. n
    BY <1>1 DEF Ids
  <2> HIDE DEF regs
  <2>2. g = [f EXCEPT !.code = [a \in Ids(f) |-> SymInstr(f.code[a], regs)],
                      !.tmp = IF f.tmp < Len(regs) THEN Len(regs) ELSE f.tmp]
    BY DEF Numbered, regs
  <2> QED BY <1>1, <2>1, <2>2 DEF RecodedAs, Fns
<1> HIDE DEF regs
<1>4. \A a \in 1 .. n : RenumberedAs(f.code[a], regs, code[a])
  <2> TAKE a \in 1 .. n
  <2> DEFINE x == f.code[a]
  <2>1. x \in Instr /\ Holds(regs, Operands(x))
    BY <1>1, <1>2
  <2>2. code[a] = SymInstr(x, regs)
    OBVIOUS
  <2> HIDE DEF x, code
  <2> QED BY <1>2, <2>1, <2>2, Renumbering DEF x
<1>5. code \in [1 .. n -> Instr]
  BY <1>4 DEF RenumberedAs
<1>6. tmp \in Nat /\ Len(regs) \in Nat /\ Len(regs) <= tmp /\ f.tmp <= tmp
  BY <1>1, <1>2
<1> HIDE DEF code, tmp
<1>7. Built(g, n) /\ g.code = code /\ g.tmp = tmp /\ SameGraph(f, g)
  BY <1>1, <1>3, <1>5, <1>6, Recoding
<1>8. SameFlow(f, g, n)
  BY <1>4, <1>7 DEF SameFlow, RenumberedAs
<1>9. Last(g.order) = Last(f.order)
  BY <1>7 DEF SameGraph
<1>10. BranchesIn(g, n)
  BY <1>4, <1>7 DEF RenumberedAs, BranchesIn, Sound
<1>11. Bounded(g, n)
  <2>1. ASSUME NEW a \in 1 .. n
        PROVE  /\ \A k \in DOMAIN g.code[a].src : g.code[a].src[k] < tmp
               /\ g.code[a].dst \in 0 .. tmp - 1 \cup {None}
    <3>1. /\ \A k \in DOMAIN g.code[a].src : g.code[a].src[k] \in 0 .. Len(regs) - 1
          /\ g.code[a].dst \in 0 .. Len(regs) - 1 \cup {None}
      BY <1>4, <1>7 DEF RenumberedAs
    <3> QED BY <1>6, <3>1
  <2> QED BY <1>7, <2>1 DEF Bounded
<1>12. Ended(g)
  <2>1. Last(f.order) \in 1 .. n
    <3>1. 1 \in 1 .. n
      BY <1>1
    <3>2. /\ Pos(f, 1) \in 1 .. Len(f.order) /\ Len(f.order) \in Nat
          /\ \A p \in 1 .. Len(f.order) : f.order[p] \in 1 .. n
      BY <1>1, <3>1, OrderPlaces
    <3>3. Len(f.order) \in 1 .. Len(f.order)
      BY <3>2
    <3> QED BY <3>2, <3>3 DEF Last
  <2>2. RenumberedAs(f.code[Last(f.order)], regs, g.code[Last(g.order)])
    BY <1>4, <1>7, <1>9, <2>1
  <2> QED BY <2>2 DEF RenumberedAs, Ended, Sound
<1>13. Len(g.code) = n
  BY <1>1, <1>5, <1>7
<1>14. Exact(f, n) => Exact(g, n)
  BY <1>1, <1>7, <1>8, ExactKept
<1> QED BY <1>1, <1>2, <1>7, <1>9, <1>10, <1>11, <1>12, <1>13, <1>14 DEF Sound, regs

\* NumberRegs keeps the invariant.
LEMMA InvNumberRegs ==
  ASSUME IInv, NumberRegs
  PROVE  IInv'
<1> DEFINE n == Len(fn.code)
           regs == SymRegs(fn)
<1>1. Sound(fn, n)
  BY DEF IInv
<1>2. fn' = Numbered(fn, regs)
      /\ info' = [k \in 0 .. Len(regs) - 1 |-> [var |-> VarOf(regs[k + 1]), key |-> regs[k + 1]]]
  BY DEF NumberRegs
<1> HIDE DEF n
<1>3. /\ Sound(fn', n) /\ Last(fn'.order) = Last(fn.order)
      /\ regs \in Seq(Nat)
      /\ Exact(fn, n) => Exact(fn', n)
  BY <1>1, <1>2, NumberedSound
<1> HIDE DEF regs
<1>4. Len(fn'.code) = n /\ n \in Nat \ {0}
  BY <1>3, SoundIds
<1>5. InfoOK'
  <2>1. Len(regs) \in Nat /\ DOMAIN info' = 0 .. Len(regs) - 1
    BY <1>2, <1>3
  <2>2. ASSUME NEW k \in 0 .. Len(regs) - 1
        PROVE  info'[k].var \in VarRegs \cup {None} /\ info'[k].key \in Nat
    <3>1. k + 1 \in DOMAIN regs /\ regs[k + 1] \in Nat
      BY <1>3, <2>1
    <3>2. VarOf(regs[k + 1]) \in VarRegs \cup {None}
      BY DEF VarOf, IInv, InfoOK
    <3>3. info'[k] = [var |-> VarOf(regs[k + 1]), key |-> regs[k + 1]]
      BY <1>2
    <3> QED BY <3>1, <3>2, <3>3
  <2> QED BY <2>1, <2>2 DEF InfoOK
<1>6. source' = source /\ temps' = temps /\ odd' = odd /\ pc' = pc /\ spill' \subseteq DOMAIN info'
  BY DEF NumberRegs
<1>7. pc \in 1 .. n /\ instr \in 1 .. n /\ cur \in 1 .. n
      /\ (cur = Last(fn.order) => instr = cur) /\ phase = "number" /\ todo = {} /\ passes \in Nat
  BY DEF IInv, WalkOK, NumberRegs, n
<1>8. /\ WalkOK' /\ passes' \in Nat /\ todo' \subseteq spill'
      /\ phase' \in {"number", "spill", "run", "done"} /\ (phase' # "spill" => todo' = {})
  <2>1. CASE spill' # {}
    <3>1. phase' = "spill" /\ passes' = passes + 1 /\ cur' = 1 /\ instr' = 1 /\ todo' = spill'
      BY <2>1 DEF NumberRegs
    <3>2. 1 \in 1 .. n
      BY <1>4
    <3> QED BY <1>4, <1>6, <1>7, <3>1, <3>2 DEF WalkOK
  <2>2. CASE spill' = {}
    <3>1. phase' = "run" /\ passes' = passes /\ cur' = cur /\ instr' = instr /\ todo' = todo
      BY <2>2 DEF NumberRegs
    <3> QED BY <1>3, <1>4, <1>6, <1>7, <3>1 DEF WalkOK
  <2> QED BY <2>1, <2>2
<1>9. odd' \cap {"jumped", "joined"} = {} => Exact(fn', n)
  BY <1>3, <1>6 DEF IInv, n
<1> QED BY <1>3, <1>4, <1>5, <1>6, <1>8, <1>9 DEF IInv

----------------------------------------------------------------------------
(* The graph is built *)

\* The edges of the first k instructions
BuiltUpTo(f, g, n, k) ==
  \A a, b \in 1 .. n :
    Count(g.succ[a], b) = IF a <= k THEN One(FallsTo(f, a, b)) + One(JumpsTo(f, a, b)) ELSE 0

InOrder(f, n) == f.order \in Seq(1 .. n) /\ Len(f.order) = n /\ \A a \in 1 .. n : f.order[a] = a

\* In a list in order of creation each instruction stands before the next.
LEMMA InOrderBefore ==
  ASSUME NEW n \in Nat, NEW f, InOrder(f, n), NEW a \in 1 .. n, NEW b \in 1 .. n
  PROVE  Before(f.order, a, b) <=> a # n /\ b = a + 1
<1>1. Before(f.order, a, b) <=> \E p \in 1 .. n - 1 : f.order[p] = a /\ f.order[p + 1] = b
  BY DEF Before, InOrder
<1>2. \A p \in 1 .. n - 1 : p \in 1 .. n /\ p + 1 \in 1 .. n
  OBVIOUS
<1>3. \A p \in 1 .. n - 1 : f.order[p] = p /\ f.order[p + 1] = p + 1
  BY <1>2 DEF InOrder
<1>4. a # n <=> a \in 1 .. n - 1
  OBVIOUS
<1> QED BY <1>1, <1>3, <1>4

\* An edge that is there if C holds
EdgeIf(f, g, N, c, d, C) ==
  \A a, b \in N : Count(g.succ[a], b) = Count(f.succ[a], b) + One(C /\ a = c /\ b = d)

\* An edge that is added only on a condition.
LEMMA MaybeEdge ==
  ASSUME NEW N, NEW f \in Fns(N), Paired(f, N), NEW c \in N, NEW d, NEW C \in BOOLEAN,
         C => d \in N,
         NEW g, g = IF C THEN mcfg_add_edge(f, c, d) ELSE f
  PROVE  g \in Fns(N) /\ SameList(f, g) /\ Paired(g, N) /\ EdgeIf(f, g, N, c, d, C)
<1>1. CASE C
  <2>1. g = mcfg_add_edge(f, c, d) /\ d \in N
    BY <1>1
  <2>2. g \in Fns(N) /\ SameList(f, g) /\ OneMore(f, g, N, c, d)
    BY <2>1, AddEdge
  <2>3. Paired(g, N)
    BY <2>2 DEF Paired, OneMore
  <2>4. EdgeIf(f, g, N, c, d, C)
    BY <1>1, <2>2 DEF EdgeIf, OneMore, One
  <2> QED BY <2>2, <2>3, <2>4
<1>2. CASE ~C
  <2>1. g = f
    BY <1>2
  <2>2. \A a, b \in N : Count(f.succ[a], b) \in Nat
    BY PlacesFinite DEF Fns, Lists
  <2>3. EdgeIf(f, f, N, c, d, C)
    BY <1>2, <2>2 DEF EdgeIf, One
  <2> QED BY <2>1, <2>3 DEF SameList
<1> QED BY <1>1, <1>2

\* One round of the second loop of mcfg_build_func.
LEMMA EdgeStep ==
  ASSUME NEW n \in Nat, NEW f, Len(f.code) = n, InOrder(f, n), BranchesIn(f, n),
         NEW g \in Fns(1 .. n), Paired(g, 1 .. n), SameList(f, g), NEW k \in 1 .. n,
         BuiltUpTo(f, g, n, k - 1),
         NEW h, h = EdgesOf(g, k)
  PROVE  h \in Fns(1 .. n) /\ Paired(h, 1 .. n) /\ SameList(f, h) /\ BuiltUpTo(f, h, n, k)
<1> DEFINE N == 1 .. n
           falls == ~(g.code[k].op = "jump" \/ k = n)
           jumps == g.code[k].op \in Branches
           m == IF falls THEN mcfg_add_edge(g, k, k + 1) ELSE g
           to == g.code[k].jump
<1>1. g.code = f.code /\ g.order = f.order /\ Len(g.code) = n
  BY DEF SameList
<1>2. (falls => k + 1 \in N) /\ (jumps => to \in N) /\ k \in N
  BY <1>1 DEF BranchesIn
<1>3. \A b \in N : (FallsTo(f, k, b) <=> falls /\ b = k + 1) /\ (JumpsTo(f, k, b) <=> jumps /\ b = to)
  <2> TAKE b \in N
  <2>1. Before(f.order, k, b) <=> k # n /\ b = k + 1
    BY InOrderBefore
  <2> QED BY <1>1, <2>1 DEF FallsTo, JumpsTo
<1>4. h = IF jumps THEN mcfg_add_edge(m, k, to) ELSE m
  BY <1>1 DEF EdgesOf
<1>5. falls \in BOOLEAN /\ jumps \in BOOLEAN
  OBVIOUS
<1> DEFINE next == k + 1
<1>6. m = IF falls THEN mcfg_add_edge(g, k, next) ELSE g
  OBVIOUS
<1>7. falls => next \in N
  BY <1>2
<1>8. g \in Fns(N) /\ Paired(g, N)
  OBVIOUS
<1> HIDE DEF falls, jumps, to, m, next, N
<1>9. m \in Fns(N) /\ SameList(g, m) /\ Paired(m, N) /\ EdgeIf(g, m, N, k, next, falls)
  BY <1>2, <1>5, <1>6, <1>7, <1>8, MaybeEdge
<1>10. h \in Fns(N) /\ SameList(m, h) /\ Paired(h, N) /\ EdgeIf(m, h, N, k, to, jumps)
  BY <1>2, <1>4, <1>5, <1>9, MaybeEdge
<1>11. SameList(f, h)
  BY <1>9, <1>10 DEF SameList
<1>12. BuiltUpTo(f, h, n, k)
  <2> SUFFICES ASSUME NEW a \in N, NEW b \in N
               PROVE  Count(h.succ[a], b)
                        = IF a <= k THEN One(FallsTo(f, a, b)) + One(JumpsTo(f, a, b)) ELSE 0
    BY DEF BuiltUpTo, N
  <2>1. Count(h.succ[a], b) = Count(m.succ[a], b) + One(jumps /\ a = k /\ b = to)
    BY <1>10 DEF EdgeIf
  <2>2. Count(m.succ[a], b) = Count(g.succ[a], b) + One(falls /\ a = k /\ b = next)
    BY <1>9 DEF EdgeIf
  <2>3. Count(g.succ[a], b)
          = IF a <= k - 1 THEN One(FallsTo(f, a, b)) + One(JumpsTo(f, a, b)) ELSE 0
    BY DEF BuiltUpTo, N
  <2>4. a \in Nat /\ k \in Nat
    BY DEF N
  <2>5. CASE a = k
    <3>1. Count(g.succ[a], b) = 0
      BY <2>3, <2>4, <2>5
    <3>2. (FallsTo(f, a, b) <=> falls /\ b = next) /\ (JumpsTo(f, a, b) <=> jumps /\ b = to)
      BY <1>3, <2>5 DEF next
    <3>3. One(FallsTo(f, a, b)) = One(falls /\ a = k /\ b = next)
          /\ One(JumpsTo(f, a, b)) = One(jumps /\ a = k /\ b = to)
      BY <2>5, <3>2 DEF One
    <3>4. One(falls /\ a = k /\ b = next) \in Nat /\ One(jumps /\ a = k /\ b = to) \in Nat
      BY DEF One
    <3> QED BY <2>1, <2>2, <2>4, <2>5, <3>1, <3>3, <3>4
  <2>6. CASE a # k
    <3>1. One(falls /\ a = k /\ b = next) = 0 /\ One(jumps /\ a = k /\ b = to) = 0
      BY <2>6 DEF One
    <3>2. Count(g.succ[a], b) \in Nat
      BY <1>8, PlacesFinite DEF Fns, Lists
    <3>3. a <= k <=> a <= k - 1
      BY <2>4, <2>6
    <3>4. Count(h.succ[a], b) = Count(g.succ[a], b)
      BY <2>1, <2>2, <3>1, <3>2
    <3> QED BY <2>3, <3>3, <3>4
  <2> QED BY <2>5, <2>6
<1> QED BY <1>10, <1>11, <1>12 DEF N

\* Functions before the graph has edges, or before it has all nodes
Bare(f) ==
  [code : {f.code}, order : {f.order}, tmp : {f.tmp},
   pred : Seq({<<>>}), succ : Seq({<<>>})]

\* One round of its first loop.
LEMMA NodeStep ==
  ASSUME NEW f, NEW g \in Bare(f)
  PROVE  /\ mcfg_add_node(g) \in Bare(f)
         /\ Len(mcfg_add_node(g).pred) = Len(g.pred) + 1
         /\ Len(mcfg_add_node(g).succ) = Len(g.succ) + 1
<1> DEFINE pred == Append(g.pred, <<>>)
           succ == Append(g.succ, <<>>)
           S == Seq({<<>>})
<1>1. pred \in S /\ Len(pred) = Len(g.pred) + 1 /\ succ \in S /\ Len(succ) = Len(g.succ) + 1
  BY DEF Bare
<1>2. mcfg_add_node(g) = [g EXCEPT !.pred = pred, !.succ = succ]
  BY DEF mcfg_add_node
<1>3. g \in [code : {f.code}, order : {f.order}, tmp : {f.tmp}, pred : S, succ : S]
  BY DEF Bare
<1> HIDE DEF pred, succ
<1>4. pred \in S /\ succ \in S
  BY <1>1
<1> HIDE DEF S
<1>5. /\ mcfg_add_node(g) \in [code : {f.code}, order : {f.order}, tmp : {f.tmp}, pred : S, succ : S]
      /\ mcfg_add_node(g).pred = pred /\ mcfg_add_node(g).succ = succ
  BY <1>2, <1>3, <1>4
<1> QED BY <1>1, <1>5 DEF Bare, S

NodesUpTo(f, g, k) == g \in Bare(f) /\ Len(g.pred) = k /\ Len(g.succ) = k

\* The first loop of mcfg_build_func
LEMMA NodesBuilt ==
  ASSUME NEW n \in Nat, NEW f, Len(f.code) = n, NodesUpTo(f, f, 0)
  PROVE  \E g : /\ NodesUpTo(f, g, n)
                /\ mcfg_build_func(f) =
                     LET edges[k \in 0 .. Len(f.code)] ==
                           IF k = 0 THEN g ELSE EdgesOf(edges[k - 1], k)
                     IN  edges[Len(f.code)]
<1> DEFINE S == Bare(f)
           step == [p \in S \X (1 .. n) |-> mcfg_add_node(p[1])]
           Solves(g) == g = [k \in 0 .. n |-> IF k = 0 THEN f ELSE mcfg_add_node(g[k - 1])]
           nodes == CHOOSE g : Solves(g)
<1>1. f \in S
  BY DEF NodesUpTo
<1>2. \A g \in S : mcfg_add_node(g) \in S
  BY NodeStep
<1>3. mcfg_build_func(f) =
        LET edges[k \in 0 .. Len(f.code)] ==
              IF k = 0 THEN nodes[n] ELSE EdgesOf(edges[k - 1], k)
        IN  edges[Len(f.code)]
  BY ZenonT(40) DEF mcfg_build_func
<1> HIDE DEF S
<1>4. step \in Rounds(S, n)
  BY <1>2 DEF Rounds
<1>5. PICK g \in [0 .. n -> S] : Loop(g, f, n, step)
  <2>1. Loops(S, f, n, step) # {}
    <3> HIDE DEF step
    <3> QED BY <1>1, <1>4, IterationExists
  <2> QED BY <2>1 DEF Loops
<1>6. Solves(g)
  <2>1. ASSUME NEW k \in 0 .. n
        PROVE  g[k] = IF k = 0 THEN f ELSE mcfg_add_node(g[k - 1])
    <3>1. CASE k = 0
      BY <1>5, <3>1 DEF Loop
    <3>2. CASE k # 0
      <4>1. k \in 1 .. n /\ g[k - 1] \in S
        BY <3>2
      <4>2. g[k] = step[<<g[k - 1], k>>]
        BY <1>5, <3>2 DEF Loop
      <4> QED BY <3>2, <4>1, <4>2
    <3> QED BY <3>1, <3>2
  <2>2. g = [k \in 0 .. n |-> g[k]]
    OBVIOUS
  <2> QED BY <2>1, <2>2, Zenon
<1>7. Solves(nodes)
  <2> HIDE DEF Solves
  <2> QED BY <1>6
<1> HIDE DEF nodes
<1>8. nodes[0] = f /\ \A k \in 1 .. n : nodes[k] = mcfg_add_node(nodes[k - 1])
  BY <1>7
<1>9. NodesUpTo(f, nodes[n], n)
  <2> DEFINE T == {k \in 0 .. n : NodesUpTo(f, nodes[k], k)}
  <2>1. 0 \in T
    BY <1>8
  <2>2. ASSUME NEW k \in 1 .. n, k - 1 \in T PROVE k \in T
    <3>1. NodesUpTo(f, nodes[k - 1], k - 1) /\ nodes[k] = mcfg_add_node(nodes[k - 1])
      BY <1>8, <2>2
    <3>2. /\ nodes[k] \in Bare(f)
          /\ Len(nodes[k].pred) = (k - 1) + 1 /\ Len(nodes[k].succ) = (k - 1) + 1
      BY <3>1, NodeStep DEF NodesUpTo
    <3> QED BY <3>2 DEF NodesUpTo
  <2>3. 0 .. n \subseteq T
    <3> HIDE DEF T
    <3> QED BY <2>1, <2>2, Upward
  <2> QED BY <2>3
<1> QED BY <1>3, <1>9

\* The nodes have no edges yet.
LEMMA NodesMean ==
  ASSUME NEW n \in Nat, NEW f, f.code \in [1 .. n -> Instr], f.order \in Seq(1 .. n), f.tmp \in Nat,
         NEW g, NodesUpTo(f, g, n)
  PROVE  g \in Fns(1 .. n) /\ Paired(g, 1 .. n) /\ SameList(f, g) /\ BuiltUpTo(f, g, n, 0)
<1> DEFINE N == 1 .. n
<1>1. g \in Bare(f) /\ Len(g.pred) = n /\ Len(g.succ) = n
  BY DEF NodesUpTo
<1>2. g.pred \in Seq({<<>>}) /\ g.succ \in Seq({<<>>})
      /\ g.code = f.code /\ g.order = f.order /\ g.tmp = f.tmp
  BY <1>1 DEF Bare
<1>3. ASSUME NEW L \in Seq({<<>>}), Len(L) = n
      PROVE  L \in Lists(N) /\ \A a \in N : L[a] = <<>>
  <2>1. DOMAIN L = N /\ L \in [N -> {<<>>}] /\ <<>> \in Seq(N)
    BY <1>3
  <2> HIDE DEF N
  <2>2. L \in [N -> Seq(N)] /\ \A a \in N : L[a] = <<>>
    BY <2>1
  <2> QED BY <2>2 DEF Lists
<1>4. /\ g.pred \in Lists(N) /\ g.succ \in Lists(N)
      /\ \A a \in N : g.pred[a] = <<>> /\ g.succ[a] = <<>>
  BY <1>1, <1>2, <1>3
<1>5. \A b : Count(<<>>, b) = 0
  <2> TAKE b
  <2>1. <<>> \in Seq({}) /\ ~ \E k \in DOMAIN <<>> : <<>>[k] = b
    OBVIOUS
  <2> QED BY <2>1, CountPositive
<1>6. g \in Fns(N)
  <2>1. g \in [code : {f.code}, order : {f.order}, tmp : {f.tmp},
               pred : Seq({<<>>}), succ : Seq({<<>>})]
    BY <1>1 DEF Bare
  <2>2. f.code \in [N -> Instr] /\ f.order \in Seq(N)
    OBVIOUS
  <2> HIDE DEF N
  <2> QED BY <1>4, <2>1, <2>2 DEF Fns
<1>7. Paired(g, N)
  BY <1>4, <1>5 DEF Paired
<1>8. BuiltUpTo(f, g, n, 0)
  <2>1. ASSUME NEW a \in 1 .. n, NEW b \in 1 .. n
        PROVE  Count(g.succ[a], b) = 0 /\ ~(a <= 0)
    BY <1>4, <1>5
  <2> QED BY <2>1 DEF BuiltUpTo
<1>9. SameList(f, g)
  BY <1>2 DEF SameList
<1> QED BY <1>6, <1>7, <1>8, <1>9

\* mcfg_build_func makes a graph that is exact and whose ends agree.
LEMMA BuildMeans ==
  ASSUME NEW n \in Nat, NEW f, Len(f.code) = n, f.code \in [1 .. n -> Instr], f.tmp \in Nat,
         InOrder(f, n), BranchesIn(f, n), NodesUpTo(f, f, 0),
         NEW h, h = mcfg_build_func(f)
  PROVE  Built(h, n) /\ SameList(f, h) /\ Exact(h, n)
<1> DEFINE N == 1 .. n
<1>1. PICK base : /\ NodesUpTo(f, base, n)
                  /\ h = LET edges[k \in 0 .. Len(f.code)] ==
                               IF k = 0 THEN base ELSE EdgesOf(edges[k - 1], k)
                         IN  edges[Len(f.code)]
  <2>1. PICK g : /\ NodesUpTo(f, g, n)
                 /\ mcfg_build_func(f) =
                      LET edges[k \in 0 .. Len(f.code)] ==
                            IF k = 0 THEN g ELSE EdgesOf(edges[k - 1], k)
                      IN  edges[Len(f.code)]
    BY NodesBuilt
  <2> QED BY <2>1, Zenon
<1>2. base \in Fns(N) /\ Paired(base, N) /\ SameList(f, base) /\ BuiltUpTo(f, base, n, 0)
  <2>1. f.order \in Seq(1 .. n)
    BY DEF InOrder
  <2> QED BY <1>1, <2>1, NodesMean
<1> DEFINE S(k) == {g \in Fns(N) : Paired(g, N) /\ SameList(f, g) /\ BuiltUpTo(f, g, n, k)}
           U == {g \in Fns(N) : Paired(g, N) /\ SameList(f, g)}
           \* the rounds as far as they come in order
           Round(g, k) == IF g \in S(k - 1) THEN EdgesOf(g, k) ELSE base
           step == [p \in U \X (1 .. n) |-> Round(p[1], p[2])]
           Solves(g) == g = [k \in 0 .. n |-> IF k = 0 THEN base ELSE EdgesOf(g[k - 1], k)]
           edges == CHOOSE g : Solves(g)
<1>3. base \in U /\ base \in S(0)
  BY <1>2
<1>4. ASSUME NEW k \in 1 .. n, NEW g \in S(k - 1)
      PROVE  EdgesOf(g, k) \in S(k) /\ EdgesOf(g, k) \in U
  <2> DEFINE e == EdgesOf(g, k)
  <2>1. /\ g \in Fns(1 .. n) /\ Paired(g, 1 .. n) /\ SameList(f, g) /\ BuiltUpTo(f, g, n, k - 1)
    OBVIOUS
  <2>2. e \in Fns(1 .. n) /\ Paired(e, 1 .. n) /\ SameList(f, e) /\ BuiltUpTo(f, e, n, k)
    <3> HIDE DEF e
    <3>1. e = EdgesOf(g, k)
      BY DEF e
    <3> QED BY <2>1, <3>1, EdgeStep
  <2> HIDE DEF e
  <2> QED BY <2>2 DEF e
<1>5. h = edges[n]
  BY <1>1, Zenon
<1>6. ASSUME NEW g \in U, NEW k \in 1 .. n PROVE Round(g, k) \in U
  <2>1. CASE g \in S(k - 1)
    BY <1>4, <2>1
  <2>2. CASE g \notin S(k - 1)
    BY <1>3, <2>2
  <2> QED BY <2>1, <2>2
<1> HIDE DEF S, U
<1>7. step \in Rounds(U, n)
  BY <1>6 DEF Rounds
<1>8. PICK g \in [0 .. n -> U] : Loop(g, base, n, step)
  <2>1. Loops(U, base, n, step) # {}
    <3> HIDE DEF step
    <3> QED BY <1>3, <1>7, IterationExists
  <2> QED BY <2>1 DEF Loops
<1>9. g[0] = base /\ \A k \in 1 .. n : g[k] = Round(g[k - 1], k)
  <2>1. ASSUME NEW k \in 1 .. n PROVE g[k] = Round(g[k - 1], k)
    <3>1. k - 1 \in 0 .. n /\ k \in 0 .. n /\ k # 0
      OBVIOUS
    <3>2. g[k] = step[<<g[k - 1], k>>]
      BY <1>8, <3>1 DEF Loop
    <3>3. g[k - 1] \in U
      BY <3>1
    <3> QED BY <3>2, <3>3
  <2>2. g[0] = base
    BY <1>8 DEF Loop
  <2> QED BY <2>1, <2>2
<1>10. \A k \in 0 .. n : g[k] \in S(k)
  <2> DEFINE T == {k \in 0 .. n : g[k] \in S(k)}
  <2>1. 0 \in T
    BY <1>3, <1>9
  <2>2. ASSUME NEW k \in 1 .. n, k - 1 \in T PROVE k \in T
    <3>1. g[k - 1] \in S(k - 1)
      BY <2>2
    <3>2. g[k] = EdgesOf(g[k - 1], k)
      BY <1>9, <3>1
    <3> QED BY <1>4, <3>1, <3>2
  <2>3. 0 .. n \subseteq T
    <3> HIDE DEF T
    <3> QED BY <2>1, <2>2, Upward
  <2> QED BY <2>3
<1>11. Solves(g)
  <2>1. ASSUME NEW k \in 0 .. n
        PROVE  g[k] = IF k = 0 THEN base ELSE EdgesOf(g[k - 1], k)
    <3>1. CASE k = 0
      BY <1>9, <3>1
    <3>2. CASE k # 0
      <4>1. k \in 1 .. n /\ k - 1 \in 0 .. n
        BY <3>2
      <4>2. g[k - 1] \in S(k - 1)
        BY <1>10, <4>1
      <4> QED BY <1>9, <3>2, <4>1, <4>2
    <3> QED BY <3>1, <3>2
  <2>2. g = [k \in 0 .. n |-> g[k]]
    OBVIOUS
  <2> QED BY <2>1, <2>2, Zenon
<1>12. Solves(edges)
  <2> HIDE DEF Solves
  <2> QED BY <1>11
<1> HIDE DEF edges
<1>13. edges[0] = base /\ \A k \in 1 .. n : edges[k] = EdgesOf(edges[k - 1], k)
  BY <1>12
<1>14. edges[n] \in S(n)
  <2> DEFINE T == {k \in 0 .. n : edges[k] \in S(k)}
  <2>1. 0 \in T
    BY <1>3, <1>13
  <2>2. \A k \in 1 .. n : k - 1 \in T => k \in T
    BY <1>4, <1>13
  <2>3. 0 .. n \subseteq T
    <3> HIDE DEF T
    <3> QED BY <2>1, <2>2, Upward
  <2> QED BY <2>3
<1>15. h \in Fns(N) /\ Paired(h, N) /\ SameList(f, h) /\ BuiltUpTo(f, h, n, n)
  BY <1>5, <1>14 DEF S
<1>16. Ordered(h, N)
  <2>1. h.order = f.order
    BY <1>15 DEF SameList
  <2>2. f.order \in Seq(N) /\ DOMAIN f.order = N /\ \A a \in N : f.order[a] = a
    BY DEF InOrder
  <2> QED BY <2>1, <2>2 DEF Ordered, IsInjective
<1>17. Exact(h, n)
  <2> SUFFICES ASSUME NEW a \in 1 .. n, NEW b \in 1 .. n
               PROVE  Count(h.succ[a], b) = One(FallsTo(h, a, b)) + One(JumpsTo(h, a, b))
    BY DEF Exact
  <2>1. Count(h.succ[a], b) = One(FallsTo(f, a, b)) + One(JumpsTo(f, a, b))
    BY <1>15 DEF BuiltUpTo
  <2>2. FallsTo(h, a, b) <=> FallsTo(f, a, b)
    BY <1>15 DEF FallsTo, SameList
  <2>3. JumpsTo(h, a, b) <=> JumpsTo(f, a, b)
    BY <1>15 DEF JumpsTo, SameList
  <2> QED BY <2>1, <2>2, <2>3 DEF One
<1> QED BY <1>15, <1>16, <1>17 DEF Built

----------------------------------------------------------------------------
(* The theorems *)

\* There is a greatest register of the source, so tr_alloc starts above all.
LEMMA TopSource ==
  \E m \in Nat : /\ m = (CHOOSE r \in Sources : \A q \in Sources : q <= r)
                 /\ \A q \in Sources : q <= m
<1>1. Sources \in SUBSET Nat /\ IsFiniteSet(Sources) /\ Sources # {}
  BY RegsAssumption
<1>2. \E m \in Sources : \A i \in Sources : i <= m
  BY <1>1, Greatest
<1> QED BY <1>1, <1>2

\* The instructions of a body are those of a function without its graph.
LEMMA ListedCode ==
  ASSUME NEW b \in Bodies
  PROVE  LET f == Listed(b)
             n == Len(b) + 2 IN
         /\ n \in Nat \ {0, 1} /\ Len(f.code) = n /\ f.code \in [1 .. n -> Instr]
         /\ f.tmp \in Nat
         /\ InOrder(f, n) /\ NodesUpTo(f, f, 0) /\ BranchesIn(f, n) /\ Bounded(f, n)
         /\ f.code[n].src = <<>> /\ f.code[n].dst = None
         /\ f.code[1] = Frame /\ f.code[n] = Frame
         /\ \A k \in 1 .. Len(b) : f.code[k + 1] = b[k]
         /\ \A q \in Sources : q < f.tmp
<1> DEFINE code == <<Frame>> \o b \o <<Frame>>
           order == [id \in DOMAIN code |-> id]
           f == Listed(b)
           n == Len(b) + 2
           len == Len(b)
<1>1. PICK m \in Nat : /\ m = (CHOOSE r \in Sources : \A q \in Sources : q <= r)
                       /\ \A q \in Sources : q <= m
  BY TopSource
<1>2. f = [code |-> code, order |-> order, pred |-> <<>>, succ |-> <<>>, tmp |-> 1 + m]
  BY <1>1 DEF Listed
<1>3. f.code = code /\ f.order = order /\ f.pred = <<>> /\ f.succ = <<>> /\ f.tmp = 1 + m
  BY <1>2
<1>4. /\ len \in Nat /\ DOMAIN b = 1 .. len
      /\ \A k \in 1 .. len : b[k] \in [op : SourceOps, src : Seq(Sources),
                                       dst : Sources \cup {None}, jump : Nat, slot : {None}]
      /\ \A k \in 1 .. len : b[k].op \in Branches => b[k].jump \in 1 .. n
  <2> DEFINE I == [op : SourceOps, src : Seq(Sources), dst : Sources \cup {None},
                   jump : Nat, slot : {None}]
  <2>1. b \in Seq(I) /\ \A k \in DOMAIN b : b[k].op \in Branches => b[k].jump \in 1 .. n
    BY BodiesAssumption
  <2> HIDE DEF n, I
  <2>2. len \in Nat /\ DOMAIN b = 1 .. len
    BY <2>1
  <2>3. \A k \in 1 .. len : b[k] \in I
    BY <2>1, <2>2, ElementOfSeq
  <2> QED BY <2>1, <2>2, <2>3 DEF I
<1>5. Frame \in Instr /\ Frame.src = <<>> /\ Frame.dst = None /\ Frame.op \notin Branches
  BY DEF Frame, Ins, Instr, Ops, Slots, Branches
<1>6. ASSUME NEW k \in 1 .. len
      PROVE  /\ b[k] \in Instr
             /\ \A l \in DOMAIN b[k].src : b[k].src[l] < 1 + m
             /\ b[k].dst \in 0 .. (1 + m) - 1 \cup {None}
  <2> DEFINE x == b[k]
  <2>1. /\ x \in [op : SourceOps, src : Seq(Sources), dst : Sources \cup {None},
                  jump : Nat, slot : {None}]
    BY <1>4
  <2> HIDE DEF x
  <2>2. Sources \subseteq Nat
    BY RegsAssumption
  <2>3. Seq(Sources) \subseteq Seq(Nat)
    BY <2>2, SeqMonotonic
  <2>4. SourceOps \subseteq Ops /\ None \in Slots
    BY DEF Ops, Slots
  <2>5. x \in Instr
    BY <2>1, <2>2, <2>3, <2>4 DEF Instr
  <2>6. \A l \in DOMAIN x.src : x.src[l] \in Sources
    <3>1. x.src \in Seq(Sources)
      BY <2>1
    <3> QED BY <3>1, ElementOfSeq
  <2>7. \A q \in Sources : q \in Nat /\ q < 1 + m /\ q \in 0 .. (1 + m) - 1
    BY <1>1, <2>2
  <2>8. x.dst \in Sources \cup {None}
    BY <2>1
  <2> QED BY <2>5, <2>6, <2>7, <2>8 DEF x
<1> HIDE DEF code, order, f, n, len
<1>7. /\ Len(code) = n /\ n = len + 2 /\ DOMAIN code = 1 .. n
      /\ code[1] = Frame /\ code[n] = Frame
      /\ \A k \in 1 .. len : code[k + 1] = b[k]
  <2> DEFINE I == Instr
             d == <<Frame>>
             t == d \o b
             s == t \o d
  <2>1. b \in Seq(I) /\ d \in Seq(I) /\ Len(d) = 1 /\ d[1] = Frame
    <3>1. b = [k \in 1 .. len |-> b[k]] /\ b \in [1 .. len -> I]
      <4>1. b = [k \in DOMAIN b |-> b[k]]
        BY BodiesAssumption
      <4> QED BY <1>4, <1>6, <4>1
    <3>2. b \in Seq(I)
      <4>1. \A k \in 1 .. len : b[k] \in I
        BY <1>6
      <4> QED BY <1>4, <3>1, SeqDef
    <3> QED BY <1>5, <3>2
  <2>2. code = s
    BY DEF code
  <2> HIDE DEF d, I
  <2>3. /\ t \in Seq(I) /\ Len(t) = Len(d) + Len(b)
        /\ \A k \in 1 .. Len(d) + Len(b) : t[k] = IF k <= Len(d) THEN d[k] ELSE b[k - Len(d)]
    BY <2>1, ConcatProperties
  <2> HIDE DEF t
  <2>4. /\ s \in Seq(I) /\ Len(s) = Len(t) + Len(d)
        /\ \A k \in 1 .. Len(t) + Len(d) : s[k] = IF k <= Len(t) THEN t[k] ELSE d[k - Len(t)]
    <3>1. t \in Seq(I) /\ d \in Seq(I)
      BY <2>1, <2>3
    <3> QED BY <3>1, ConcatProperties
  <2> HIDE DEF s
  <2>5. Len(b) = len /\ n = len + 2 /\ Len(t) = len + 1 /\ Len(s) = n
    BY <1>4, <2>1, <2>3, <2>4 DEF n, len
  <2>6. DOMAIN s = 1 .. n
    BY <2>4, <2>5
  <2>7. s[1] = Frame
    <3>1. 1 \in 1 .. Len(t) + Len(d) /\ 1 <= Len(t) /\ 1 \in 1 .. Len(d) + Len(b) /\ 1 <= Len(d)
      BY <1>4, <2>1, <2>5
    <3> QED BY <2>1, <2>3, <2>4, <3>1
  <2>8. s[n] = Frame
    <3>1. n \in 1 .. Len(t) + Len(d) /\ ~(n <= Len(t)) /\ n - Len(t) = 1
      BY <1>4, <2>1, <2>5
    <3> QED BY <2>1, <2>4, <3>1
  <2>9. ASSUME NEW k \in 1 .. len PROVE s[k + 1] = b[k]
    <3>1. k + 1 \in 1 .. Len(t) + Len(d) /\ k + 1 <= Len(t) /\ k + 1 \in 1 .. Len(d) + Len(b)
          /\ ~(k + 1 <= Len(d)) /\ (k + 1) - Len(d) = k
      BY <1>4, <2>1, <2>5
    <3> QED BY <2>3, <2>4, <3>1
  <2> QED BY <2>2, <2>5, <2>6, <2>7, <2>8, <2>9
<1>8. ASSUME NEW a \in 1 .. n PROVE code[a] = Frame \/ \E k \in 1 .. len : code[a] = b[k]
  <2>1. CASE a = 1 \/ a = n
    BY <1>7, <2>1
  <2>2. CASE ~(a = 1 \/ a = n)
    <3>1. a - 1 \in 1 .. len /\ (a - 1) + 1 = a
      BY <1>4, <1>7, <2>2
    <3>2. code[(a - 1) + 1] = b[a - 1]
      BY <1>7, <3>1
    <3> QED BY <3>1, <3>2
  <2> QED BY <2>1, <2>2
<1>9. code \in [1 .. n -> Instr]
  <2>1. \A a \in 1 .. n : code[a] \in Instr
    BY <1>5, <1>6, <1>8
  <2>2. code = [a \in 1 .. n |-> code[a]]
    <3>1. code = [a \in DOMAIN code |-> code[a]]
      <4>1. <<Frame>> \in Seq(Instr)
        BY <1>5
      <4> QED BY DEF code
    <3> QED BY <1>7, <3>1
  <2> QED BY <2>1, <2>2
<1>10. n \in Nat \ {0, 1}
  BY <1>4, <1>7
<1>11. InOrder(f, n)
  <2>1. order = [a \in 1 .. n |-> a]
    BY <1>7 DEF order
  <2>2. order \in Seq(1 .. n) /\ Len(order) = n /\ \A a \in 1 .. n : order[a] = a
    BY <1>10, <2>1
  <2> QED BY <1>3, <2>2 DEF InOrder
<1>12. NodesUpTo(f, f, 0)
  <2> DEFINE S == Seq({<<>>})
  <2>1. <<>> \in S /\ Len(<<>>) = 0
    OBVIOUS
  <2> HIDE DEF S
  <2>2. f \in [code : {code}, order : {order}, tmp : {1 + m}, pred : S, succ : S]
    BY <1>2, <2>1
  <2> QED BY <1>3, <2>1, <2>2 DEF NodesUpTo, Bare, S
<1>13. BranchesIn(f, n)
  <2>1. ASSUME NEW a \in 1 .. n, code[a].op \in Branches PROVE code[a].jump \in 1 .. n
    BY <1>4, <1>5, <1>8, <2>1
  <2> QED BY <1>3, <2>1 DEF BranchesIn
<1>14. Bounded(f, n)
  <2>1. ASSUME NEW a \in 1 .. n
        PROVE  /\ \A l \in DOMAIN code[a].src : code[a].src[l] < 1 + m
               /\ code[a].dst \in 0 .. (1 + m) - 1 \cup {None}
    <3>1. CASE code[a] = Frame
      <4>1. DOMAIN Frame.src = {}
        BY <1>5
      <4> QED BY <1>5, <3>1, <4>1
    <3>2. CASE \E k \in 1 .. len : code[a] = b[k]
      BY <1>6, <3>2
    <3> QED BY <1>8, <3>1, <3>2
  <2> QED BY <1>3, <2>1 DEF Bounded
<1>15. Len(f.code) = n /\ f.code \in [1 .. n -> Instr] /\ f.tmp \in Nat
       /\ f.code[n].src = <<>> /\ f.code[n].dst = None
  BY <1>1, <1>3, <1>5, <1>7, <1>9
<1>16. /\ f.code[1] = Frame /\ f.code[n] = Frame
       /\ \A k \in 1 .. len : f.code[k + 1] = b[k]
  BY <1>3, <1>7
<1>17. \A q \in Sources : q < f.tmp
  <2>1. Sources \subseteq Nat /\ f.tmp = 1 + m
    BY <1>3, RegsAssumption
  <2> QED BY <1>1, <2>1
<1> QED BY <1>10, <1>11, <1>12, <1>13, <1>14, <1>15, <1>16, <1>17 DEF f, n, len

\* The invariant holds initially.
LEMMA InvInit == Init => IInv
<1> SUFFICES ASSUME Init PROVE IInv
  OBVIOUS
<1> DEFINE f == Listed(source)
           n == Len(source) + 2
<1>1. source \in Bodies /\ fn = mcfg_build_func(f)
  BY DEF Init
<1>2. /\ n \in Nat \ {0, 1} /\ Len(f.code) = n /\ f.code \in [1 .. n -> Instr]
      /\ f.tmp \in Nat
      /\ InOrder(f, n) /\ NodesUpTo(f, f, 0) /\ BranchesIn(f, n) /\ Bounded(f, n)
      /\ f.code[n].src = <<>> /\ f.code[n].dst = None
  BY <1>1, ListedCode
<1> HIDE DEF f, n
<1>3. Built(fn, n) /\ SameList(f, fn) /\ Exact(fn, n)
  BY <1>1, <1>2, BuildMeans
<1>4. Len(fn.code) = n /\ BranchesIn(fn, n) /\ Bounded(fn, n)
  BY <1>2, <1>3 DEF SameList, BranchesIn, Bounded
<1>5. Ended(fn)
  <2>1. Last(fn.order) = n
    BY <1>2, <1>3 DEF SameList, InOrder, Last
  <2> QED BY <1>2, <1>3, <2>1 DEF SameList, Ended
<1>6. Sound(fn, Len(fn.code)) /\ Exact(fn, Len(fn.code))
  BY <1>2, <1>3, <1>4, <1>5 DEF Sound
<1>7. InfoOK
  <2>1. Sources \subseteq Nat
    BY RegsAssumption
  <2>2. info = [r \in Sources |-> [var |-> IF r \in VarRegs THEN r ELSE None, key |-> r]]
    BY DEF Init
  <2> QED BY <2>1, <2>2 DEF InfoOK
<1>8. WalkOK
  <2>1. cur = 1 /\ instr = 1 /\ pc = 1 /\ 1 \in 1 .. n
    BY <1>2 DEF Init
  <2> QED BY <1>4, <2>1 DEF WalkOK
<1>9. /\ temps = <<>> /\ passes = 0 /\ phase = "number" /\ spill = {} /\ todo = {}
  BY DEF Init
<1>10. temps \in Seq([reg : Nat, pass : Nat])
  BY <1>9
<1> QED BY <1>1, <1>6, <1>7, <1>8, <1>9, <1>10 DEF IInv

\* Every step keeps the invariant.
LEMMA InvNext == IInv /\ [Next]_vars => IInv'
<1> SUFFICES ASSUME IInv, [Next]_vars PROVE IInv'
  OBVIOUS
<1>1. pc \in Ids(fn) /\ CodeSucc(fn, pc) \subseteq Ids(fn)
  <2>1. Ids(fn) = 1 .. Len(fn.code)
    BY SoundIds DEF IInv
  <2> QED BY <2>1 DEF IInv, WalkOK, CodeSucc
<1>2. CASE NumberRegs
  BY <1>2, InvNumberRegs
<1>3. CASE \E j \in todo : SpillReg(j)
  BY <1>3, InvSpillReg
<1>4. CASE NextInstr
  BY <1>4, InvNextInstr
<1>5. CASE PassEnd
  BY <1>1, <1>5, InvFrame DEF PassEnd, alloc, mach
<1>6. CASE RunLoad
  BY <1>1, <1>6, InvFrame DEF RunLoad, At, Follow, alloc, mach, IInv
<1>7. CASE RunStore
  BY <1>1, <1>7, InvFrame DEF RunStore, At, Follow, alloc, mach, IInv
<1>8. CASE RunPushArg
  BY <1>1, <1>8, InvFrame DEF RunPushArg, At, Follow, alloc, mach, IInv
<1>9. CASE RunDef
  BY <1>1, <1>9, InvFrame DEF RunDef, At, Follow, alloc, mach, IInv
<1>10. CASE RunOther
  BY <1>1, <1>10, InvFrame DEF RunOther, At, Follow, alloc, mach, IInv
<1>11. CASE RunEnd
  BY <1>1, <1>11, InvFrame DEF RunEnd, alloc, mach, IInv
<1>12. CASE UNCHANGED vars
  BY <1>1, <1>12, InvFrame DEF vars, alloc, mach, IInv
<1> QED BY <1>2, <1>3, <1>4, <1>5, <1>6, <1>7, <1>8, <1>9, <1>10, <1>11, <1>12 DEF Next

\* The strengthening holds in every state.
THEOREM Inductive == Spec => []IInv
BY InvInit, InvNext, PTL DEF Spec

\* Every register of the code is one that has been handed out, and the list
\* holds every instruction once, whatever was spilled.
THEOREM TypeCorrect == Spec => []TypeOK
BY Inductive, InvTypeOK, PTL

\* The arrays of successors and of predecessors always hold the same edges,
\* though the loop of mcfg_insert_node counts up while it takes elements away
\* from the array it reads.
THEOREM EdgesStayPaired == Spec => []EdgesPaired
BY Inductive, InvPaired, PTL

\* As long as nothing is inserted in front of an instruction that a branch goes
\* to, the graph that gen_spill_code leaves behind is that of the code.
THEOREM GraphStaysWithCode == Spec => []GraphFollowsCode
BY Inductive, InvFollows, PTL

----------------------------------------------------------------------------
(* What registers and homes hold: the relation between the function as it   *)
(* was before allocation and the function in the middle of a pass            *)

Goes(f, a, b) == FallsTo(f, a, b) \/ JumpsTo(f, a, b)

\* A home is a variable, or a temporary of one pass.
Homes == Nat \X Nat

Entry(tm, l) == IF l[1] = "var" THEN <<l[2], 0>> ELSE <<tm[l[2]].reg, tm[l[2]].pass>>

\* What a pass knows: the source, its registers, its number and the registers
\* marked in it
Pass == [src |-> source, info |-> info, passes |-> passes,
         spill |-> IF phase = "spill" THEN spill ELSE {}]

VarIn(e, x) == IF x \in DOMAIN e.info THEN e.info[x].var ELSE None

HomeIn(e, x) ==
  IF e.info[x].var # None THEN <<e.info[x].var, 0>> ELSE <<e.info[x].key, e.passes>>

Originals(e) == 2 .. Len(e.src) + 1

Was(e, a) == e.src[a - 1]

Received(e, x) == \E k \in DOMAIN e.src : e.src[k].op = "receive" /\ e.src[k].dst = VarIn(e, x)

\* Source registers q such that on entry to instruction a, register x or home h
\* holds the value assigned to q last
RegFacts == [Nat -> [Nat -> SUBSET Sources]]
MemFacts == [Nat -> [Homes -> SUBSET Sources]]

\* The pairs of U and D are the instructions and registers whose uses, or
\* definition, gen_spill_code has yet to come to: the value is taken from the
\* home, and given to it, as if the load and the store were there.
Known(e, U, R, M, a, x, q) ==
  IF <<a, x>> \in U THEN q \in M[a][HomeIn(e, x)] ELSE q \in R[a][x]

Writes(i) == i.op = "load" \/ (i.op \in {"op", "call", "receive"} /\ i.dst # None)

\* Instructions that assign to a register of the source
Gives(i) == i.op = "push_arg" \/ (i.op \in {"op", "call", "receive"} /\ i.dst # None)

Written(e, f, tm, U, R, M, a, q) ==
  LET i == f.code[a] IN
  IF i.op = "load" THEN q \in M[a][Entry(tm, i.slot)]
  ELSE IF i.op = "store" THEN Known(e, U, R, M, a, i.src[1], q)
  ELSE q = Was(e, a).dst

Unchanged(e, f, a, q) == Gives(f.code[a]) => q # Was(e, a).dst

RegAfter(e, f, tm, U, D, R, M, a, x, q) ==
  LET i == f.code[a] IN
  IF Writes(i) /\ x = i.dst
    THEN Written(e, f, tm, U, R, M, a, q) /\ ~(i.op = "receive" /\ <<a, x>> \in D)
    ELSE q \in R[a][x] /\ Unchanged(e, f, a, q)

ToHome(e, f, tm, D, a, h) ==
  LET i == f.code[a] IN
  \/ i.op \in {"store", "push_arg"} /\ h = Entry(tm, i.slot)
  \/ Writes(i) /\ <<a, i.dst>> \in D /\ h = HomeIn(e, i.dst)

MemAfter(e, f, tm, U, D, R, M, a, h, q) ==
  IF ToHome(e, f, tm, D, a, h) THEN Written(e, f, tm, U, R, M, a, q)
  ELSE q \in M[a][h] /\ Unchanged(e, f, a, q)

\* What is known in front of an instruction holds behind all that lead to it.
Flow(e, f, tm, U, D, R, M) ==
  \A a, b \in Ids(f) : Goes(f, a, b) =>
    /\ \A x \in Nat : \A q \in R[b][x] : RegAfter(e, f, tm, U, D, R, M, a, x, q)
    /\ \A h \in Homes : \A q \in M[b][h] : MemAfter(e, f, tm, U, D, R, M, a, h, q)

\* Each operand of an instruction of the source has its value.
OperandsKnown(e, f, U, R, M) ==
  \A a \in Originals(e) : f.code[a].op # "push_arg" =>
    /\ \A k \in DOMAIN f.code[a].src : Known(e, U, R, M, a, f.code[a].src[k], Was(e, a).src[k])
    /\ f.code[a].op = "reg_store" => Known(e, U, R, M, a, f.code[a].dst, Was(e, a).dst)

\* What is stored to the home of a variable is its value.
StoresKnown(e, f, tm, U, R, M) ==
  \A a \in Ids(f) : f.code[a].op = "store" =>
    \A v \in VarRegs : Entry(tm, f.code[a].slot) = <<v, 0>> =>
      Known(e, U, R, M, a, f.code[a].src[1], v)

\* A register that is not an argument still holds what its home holds.
InBoth(e, f, R, M) ==
  \A x \in DOMAIN e.info, a \in Ids(f) :
    ~Received(e, x) /\ (e.info[x].var # None \/ x \in e.spill) => M[a][HomeIn(e, x)] \subseteq R[a][x]

\* The register and the home of a variable hold values of that variable only.
Owned(e, f, R, M) ==
  \A a \in Ids(f) :
    /\ \A x \in Nat : \A q \in R[a][x] : VarIn(e, x) \in {None, q} /\ x < f.tmp
    /\ \A r, p \in Nat : \A q \in M[a][<<r, p>>] : (p = 0 => r = q) /\ p <= e.passes

\* An argument of the source is received, or pushed to the home of its variable.
AsReceived(e, f, tm, a) ==
  /\ Was(e, a).op = "receive" /\ f.code[a].op = "push_arg" /\ f.code[a].src = <<>>
  /\ f.code[a].dst = None
  /\ f.code[a].slot \in Locations(tm) /\ Entry(tm, f.code[a].slot) = <<Was(e, a).dst, 0>>

AsWas(e, f, a) ==
  LET i == f.code[a]
      s == Was(e, a)
  IN  /\ i.op = s.op /\ i.jump = s.jump
      /\ DOMAIN i.src = DOMAIN s.src
      /\ \A k \in DOMAIN i.src : VarIn(e, i.src[k]) \in {None, s.src[k]}
      /\ i.dst = None <=> s.dst = None
      /\ i.dst # None => VarIn(e, i.dst) \in {None, s.dst}
      /\ i.op = "receive" => VarIn(e, i.dst) = s.dst

\* A load goes to a temporary, a store takes one register.
AsSpilled(e, f, tm, a) ==
  LET i == f.code[a]
  IN  /\ i.slot \in Locations(tm)
      /\ \/ i.op = "load" /\ i.src = <<>> /\ i.dst # None /\ VarIn(e, i.dst) = None
         \/ i.op = "store" /\ DOMAIN i.src = {1} /\ i.dst = None

\* The instructions of the source are there in their order, between them loads
\* and stores.
Shape(e, f, tm) ==
  /\ Len(e.src) + 2 <= Len(f.code) /\ f.order[1] = 1
  /\ \A a \in {1, Len(e.src) + 2} :
       f.code[a].op = "frame" /\ f.code[a].src = <<>> /\ f.code[a].dst = None
  /\ \A a \in Originals(e) : AsWas(e, f, a) \/ AsReceived(e, f, tm, a)
  /\ \A a \in Len(e.src) + 3 .. Len(f.code) : AsSpilled(e, f, tm, a)
  /\ \A a, b \in 1 .. Len(e.src) + 2 : a < b => Pos(f, a) < Pos(f, b)

PassOK(e) ==
  /\ e.src \in Bodies /\ e.passes \in Nat
  /\ DOMAIN e.info \subseteq Nat
  /\ \A x \in DOMAIN e.info : e.info[x].var \in VarRegs \cup {None} /\ e.info[x].key \in Nat
  /\ \A x, y \in DOMAIN e.info :
       e.info[x].key = e.info[y].key \/ (e.info[x].var # None /\ e.info[x].var = e.info[y].var)
         => x = y
  /\ e.spill \subseteq DOMAIN e.info /\ (e.spill # {} => e.passes # 0)

\* A temporary has at most one place in the frame.
PlacesOK(e, tm) ==
  /\ tm \in Seq([reg : Nat, pass : Nat])
  /\ \A k, l \in DOMAIN tm : tm[k].reg = tm[l].reg => k = l
  /\ \A k \in DOMAIN tm : tm[k].pass \in 1 .. e.passes

\* An argument that is marked is still to be pushed.
ReceivesLeft(e, f, D) ==
  \A a \in Originals(e) :
    f.code[a].op = "receive" /\ f.code[a].dst \in e.spill => <<a, f.code[a].dst>> \in D

\* The code, the frame and what is left to do in this pass fit together.
Fits(e, f, tm, U, D) ==
  /\ PassOK(e) /\ PlacesOK(e, tm) /\ Shape(e, f, tm)
  /\ \A x \in DOMAIN e.info : x < f.tmp
  /\ U \subseteq Ids(f) \X e.spill /\ D \subseteq Ids(f) \X e.spill
  /\ ReceivesLeft(e, f, D)

\* R and M describe a function in the middle of a pass.
Describes(e, f, tm, U, D, R, M) ==
  /\ R \in RegFacts /\ M \in MemFacts
  /\ Flow(e, f, tm, U, D, R, M)
  /\ OperandsKnown(e, f, U, R, M) /\ StoresKnown(e, f, tm, U, R, M)
  /\ InBoth(e, f, R, M) /\ Owned(e, f, R, M)

\* The home of a register of the pass.
LEMMA HomeType ==
  ASSUME NEW e, PassOK(e), NEW x \in DOMAIN e.info
  PROVE  /\ HomeIn(e, x) \in Homes
         /\ e.info[x].var # None => HomeIn(e, x) = <<e.info[x].var, 0>>
         /\ e.info[x].var = None => HomeIn(e, x) = <<e.info[x].key, e.passes>>
         /\ VarIn(e, x) = e.info[x].var
<1>1. e.passes \in Nat /\ e.info[x].var \in VarRegs \cup {None} /\ e.info[x].key \in Nat
  BY DEF PassOK
<1>2. VarRegs \subseteq Nat
  BY RegsAssumption DEF Sources
<1> QED BY <1>1, <1>2 DEF HomeIn, Homes, VarIn

\* In a pass that spills, different registers have different homes.
LEMMA HomesApart ==
  ASSUME NEW e, PassOK(e), e.passes # 0, NEW x \in DOMAIN e.info, NEW y \in DOMAIN e.info,
         HomeIn(e, x) = HomeIn(e, y)
  PROVE  x = y
<1>1. e.info[x].var # None => HomeIn(e, x) = <<e.info[x].var, 0>>
  BY HomeType
<1>2. e.info[y].var # None => HomeIn(e, y) = <<e.info[y].var, 0>>
  BY HomeType
<1>3. e.info[x].var = None => HomeIn(e, x) = <<e.info[x].key, e.passes>>
  BY HomeType
<1>4. e.info[y].var = None => HomeIn(e, y) = <<e.info[y].key, e.passes>>
  BY HomeType
<1>5. e.info[x].key = e.info[y].key \/ (e.info[x].var # None /\ e.info[x].var = e.info[y].var)
  BY <1>1, <1>2, <1>3, <1>4
<1> QED BY <1>5 DEF PassOK

\* What a place in the frame stands for.
LEMMA EntryType ==
  ASSUME NEW e, NEW tm, PlacesOK(e, tm), NEW l \in Locations(tm)
  PROVE  /\ Entry(tm, l) \in Homes
         /\ l[1] = "var" => l = <<"var", l[2]>> /\ l[2] \in VarRegs /\ Entry(tm, l) = <<l[2], 0>>
         /\ l[1] # "var" => /\ l = <<"temp", l[2]>> /\ l[2] \in DOMAIN tm
                            /\ Entry(tm, l) = <<tm[l[2]].reg, tm[l[2]].pass>>
                            /\ tm[l[2]].pass \in 1 .. e.passes /\ tm[l[2]].reg \in Nat
<1>1. VarRegs \subseteq Nat
  BY RegsAssumption DEF Sources
<1>2. DOMAIN tm = 1 .. Len(tm) /\ Len(tm) \in Nat
  BY DEF PlacesOK
<1>3. \A k \in DOMAIN tm : tm[k] \in [reg : Nat, pass : Nat]
  BY <1>2, ElementOfSeq DEF PlacesOK
<1>4. CASE \E v \in VarRegs : l = <<"var", v>>
  <2>1. PICK v \in VarRegs : l = <<"var", v>>
    BY <1>4
  <2>2. l[1] = "var" /\ l[2] = v
    BY <2>1
  <2> QED BY <1>1, <2>1, <2>2 DEF Entry, Homes
<1>5. CASE \E k \in DOMAIN tm : l = <<"temp", k>>
  <2>1. PICK k \in DOMAIN tm : l = <<"temp", k>>
    BY <1>5
  <2>2. l[1] = "temp" /\ l[2] = k
    BY <2>1
  <2>3. tm[k].reg \in Nat /\ tm[k].pass \in Nat /\ tm[k].pass \in 1 .. e.passes
    BY <1>3 DEF PlacesOK
  <2> QED BY <2>1, <2>2, <2>3 DEF Entry, Homes
<1> QED BY <1>4, <1>5 DEF Locations

\* Two places stand for different homes.
LEMMA EntriesApart ==
  ASSUME NEW e, NEW tm, PlacesOK(e, tm), NEW l \in Locations(tm), NEW m \in Locations(tm),
         Entry(tm, l) = Entry(tm, m)
  PROVE  l = m
<1>1. l[1] = "var" => l = <<"var", l[2]>> /\ l[2] \in VarRegs /\ Entry(tm, l) = <<l[2], 0>>
  BY EntryType
<1>2. m[1] = "var" => m = <<"var", m[2]>> /\ m[2] \in VarRegs /\ Entry(tm, m) = <<m[2], 0>>
  BY EntryType
<1>3. l[1] # "var" => /\ l = <<"temp", l[2]>> /\ l[2] \in DOMAIN tm
                      /\ Entry(tm, l) = <<tm[l[2]].reg, tm[l[2]].pass>>
                      /\ tm[l[2]].pass \in 1 .. e.passes
  BY EntryType
<1>4. m[1] # "var" => /\ m = <<"temp", m[2]>> /\ m[2] \in DOMAIN tm
                      /\ Entry(tm, m) = <<tm[m[2]].reg, tm[m[2]].pass>>
                      /\ tm[m[2]].pass \in 1 .. e.passes
  BY EntryType
<1>5. \A p \in 1 .. e.passes : p # 0
  BY DEF PlacesOK
<1>6. l[1] = "var" <=> m[1] = "var"
  BY <1>1, <1>2, <1>3, <1>4, <1>5
<1>7. l[1] # "var" => tm[l[2]].reg = tm[m[2]].reg
  BY <1>3, <1>4, <1>6
<1>8. l[2] = m[2]
  <2>1. CASE l[1] = "var"
    BY <1>1, <1>2, <1>6, <2>1
  <2>2. CASE l[1] # "var"
    BY <1>3, <1>4, <1>6, <1>7, <2>2 DEF PlacesOK
  <2> QED BY <2>1, <2>2
<1> QED BY <1>1, <1>2, <1>3, <1>4, <1>6, <1>8

\* What the assumption says of one instruction of the source
BodyInstr(b, k) ==
  /\ b[k].op \in SourceOps /\ b[k].jump \in Nat /\ b[k].slot = None
  /\ b[k].src \in Seq(Sources)
  /\ b[k].dst \in Sources \cup {None}
  /\ \A l \in DOMAIN b[k].src : b[k].src[l] \in Sources
  /\ b[k].op \in Branches => b[k].dst = None
  /\ b[k].op = "reg_store" => b[k].dst # None
  /\ b[k].op = "receive" =>
       /\ b[k].src = <<>> /\ b[k].dst \in VarRegs
       /\ \A i \in 1 .. k - 1 :
            b[k].dst # b[i].dst /\ \A l \in DOMAIN b[i].src : b[i].src[l] # b[k].dst

\* The instructions of a function.
LEMMA BodyFacts ==
  ASSUME NEW b \in Bodies
  PROVE  /\ Len(b) \in Nat /\ DOMAIN b = 1 .. Len(b)
         /\ \A k \in 1 .. Len(b) : BodyInstr(b, k)
<1> DEFINE I == [op : SourceOps, src : Seq(Sources), dst : Sources \cup {None},
                 jump : Nat, slot : {None}]
<1>1. b \in Seq(I)
  BY BodiesAssumption
<1>2. Len(b) \in Nat /\ DOMAIN b = 1 .. Len(b)
  <2> HIDE DEF I
  <2> QED BY <1>1
<1>3. \A k \in 1 .. Len(b) : b[k] \in I
  <2> HIDE DEF I
  <2> QED BY <1>1, <1>2, ElementOfSeq
<1>4. ASSUME NEW k \in 1 .. Len(b) PROVE BodyInstr(b, k)
  <2>1. b[k] \in I /\ k \in DOMAIN b
    BY <1>2, <1>3
  <2>2. \A l \in DOMAIN b[k].src : b[k].src[l] \in Sources
    <3>1. b[k].src \in Seq(Sources)
      BY <2>1
    <3> QED BY <3>1, ElementOfSeq
  <2>3. /\ b[k].op \in Branches => b[k].dst = None
        /\ b[k].op = "reg_store" => b[k].dst # None
        /\ b[k].op = "receive" =>
             /\ b[k].src = <<>> /\ b[k].dst \in VarRegs
             /\ \A i \in 1 .. k - 1 :
                  b[k].dst # b[i].dst /\ \A l \in DOMAIN b[i].src : b[i].src[l] # b[k].dst
    BY <2>1, BodiesAssumption
  <2> QED BY <2>1, <2>2, <2>3 DEF BodyInstr
<1> QED BY <1>2, <1>4

----------------------------------------------------------------------------
(* One instruction more in the list *)

\* g is f with instruction n + 1 at place p of the list; no other instruction
\* branches elsewhere than before.
WithNew(f, n, g, p) ==
  /\ Sound(f, n) /\ Sound(g, n + 1) /\ p \in DOMAIN f.order
  /\ InsertedOrder(f.order, g.order, p, n + 1)
  /\ \A a \in 1 .. n : g.code[a].op = f.code[a].op /\ g.code[a].jump = f.code[a].jump
  /\ g.code[n + 1].op \notin Branches

\* Where control goes from and to the new instruction.
LEMMA NewGoes ==
  ASSUME NEW n, NEW f, NEW g, NEW p, WithNew(f, n, g, p),
         NEW a \in 1 .. n + 1, NEW b \in 1 .. n + 1, Goes(g, a, b)
  PROVE  \/ a = n + 1 /\ b = f.order[p]
         \/ a \in 1 .. n /\ b = n + 1 /\ FallsTo(f, a, f.order[p])
         \/ /\ a \in 1 .. n /\ b \in 1 .. n /\ Goes(f, a, b)
            /\ b = f.order[p] => JumpsTo(f, a, b)
<1>1. n \in Nat /\ Built(f, n) /\ Built(g, n + 1) /\ BranchesIn(f, n) /\ p \in DOMAIN f.order
      /\ InsertedOrder(f.order, g.order, p, n + 1)
  BY DEF WithNew, Sound
<1>2. f.order \in Seq(1 .. n) /\ IsInjective(f.order) /\ g.order \in Seq(1 .. n + 1)
  BY <1>1 DEF Built, Fns, Ordered
<1>3. Before(g.order, a, b) <=> \/ a = n + 1 /\ b = f.order[p]
                                \/ a # n + 1 /\ b = n + 1 /\ Before(f.order, a, f.order[p])
                                \/ /\ a # n + 1 /\ b # n + 1 /\ b # f.order[p]
                                   /\ Before(f.order, a, b)
  BY <1>1, <1>2, InsertedBefore
<1>4. \A c \in 1 .. n + 1 : c # n + 1 => c \in 1 .. n
  BY <1>1
<1>5. CASE JumpsTo(g, a, b)
  <2>1. a \in 1 .. n
    BY <1>4, <1>5 DEF JumpsTo, WithNew
  <2>2. JumpsTo(f, a, b)
    BY <1>5, <2>1 DEF JumpsTo, WithNew
  <2>3. b \in 1 .. n
    BY <1>1, <2>1, <2>2 DEF JumpsTo, BranchesIn
  <2> QED BY <2>1, <2>2, <2>3 DEF Goes
<1>6. CASE FallsTo(g, a, b)
  <2>1. g.code[a].op # "jump" /\ Before(g.order, a, b)
    BY <1>6 DEF FallsTo
  <2>2. a \in 1 .. n => f.code[a].op # "jump"
    BY <2>1 DEF WithNew
  <2> QED BY <1>3, <1>4, <2>1, <2>2 DEF FallsTo, Goes
<1> QED BY <1>5, <1>6 DEF Goes

\* The places of the other instructions.
LEMMA NewPos ==
  ASSUME NEW n, NEW f, NEW g, NEW p, WithNew(f, n, g, p)
  PROVE  /\ Pos(g, n + 1) = p /\ p \in Nat \ {0}
         /\ \A a \in 1 .. n :
              /\ Pos(f, a) \in Nat \ {0}
              /\ Pos(g, a) = IF Pos(f, a) < p THEN Pos(f, a) ELSE Pos(f, a) + 1
<1>1. n \in Nat /\ Built(f, n) /\ Built(g, n + 1) /\ p \in DOMAIN f.order
      /\ InsertedOrder(f.order, g.order, p, n + 1)
  BY DEF WithNew, Sound
<1> DEFINE m == Len(f.order)
<1>2. /\ m \in Nat /\ DOMAIN f.order = 1 .. m
      /\ \A a \in 1 .. n : Pos(f, a) \in 1 .. m /\ f.order[Pos(f, a)] = a
  BY <1>1, OrderPlaces
<1> HIDE DEF m
<1>3. Len(g.order) = m + 1 /\ \A i \in 1 .. m + 1 : Pos(g, g.order[i]) = i
  <2> DEFINE k == n + 1
  <2>1. k \in Nat /\ Built(g, k)
    BY <1>1
  <2> HIDE DEF k
  <2>2. \A i \in 1 .. Len(g.order) : Pos(g, g.order[i]) = i
    BY <2>1, OrderPlaces
  <2> QED BY <1>1, <2>2 DEF InsertedOrder, m
<1>4. p \in 1 .. m
  BY <1>1, <1>2
<1>5. Pos(g, n + 1) = p
  <2>1. g.order[p] = n + 1 /\ p \in 1 .. m + 1
    BY <1>1, <1>2, <1>4 DEF InsertedOrder
  <2> QED BY <1>3, <2>1
<1>6. ASSUME NEW a \in 1 .. n
      PROVE  Pos(g, a) = IF Pos(f, a) < p THEN Pos(f, a) ELSE Pos(f, a) + 1
  <2> DEFINE q == Pos(f, a)
  <2>1. q \in 1 .. m /\ f.order[q] = a
    BY <1>2
  <2> HIDE DEF q
  <2>2. CASE q < p
    <3>1. q \in 1 .. p - 1 /\ q \in 1 .. m + 1
      BY <1>2, <1>4, <2>1, <2>2
    <3>2. g.order[q] = a
      BY <1>1, <2>1, <3>1 DEF InsertedOrder
    <3> QED BY <1>3, <2>2, <3>1, <3>2 DEF q
  <2>3. CASE ~(q < p)
    <3>1. q + 1 \in p + 1 .. m + 1 /\ q + 1 \in 1 .. m + 1 /\ (q + 1) - 1 = q
      BY <1>2, <1>4, <2>1, <2>3
    <3>2. g.order[q + 1] = a
      BY <1>1, <2>1, <3>1 DEF InsertedOrder, m
    <3> QED BY <1>3, <2>3, <3>1, <3>2 DEF q
  <2> QED BY <2>2, <2>3 DEF q
<1> QED BY <1>2, <1>4, <1>5, <1>6

\* An instruction does not stand before itself.
LEMMA FallsOn ==
  ASSUME NEW n, NEW f, Sound(f, n), NEW a \in 1 .. n, NEW b \in 1 .. n, FallsTo(f, a, b)
  PROVE  a # b /\ a # Last(f.order) /\ b = NextOf(f, a)
<1>1. n \in Nat /\ Built(f, n)
  BY DEF Sound
<1>2. a # Last(f.order) /\ b = NextOf(f, a)
  BY <1>1, BeforeNext DEF FallsTo
<1>3. /\ \A p \in 1 .. Len(f.order) : Pos(f, f.order[p]) = p
      /\ Len(f.order) \in Nat
  BY <1>1, OrderPlaces
<1>4. PICK p \in 1 .. Len(f.order) - 1 : f.order[p] = a /\ f.order[p + 1] = b
  BY DEF FallsTo, Before
<1>5. p \in 1 .. Len(f.order) /\ p + 1 \in 1 .. Len(f.order) /\ p # p + 1
  BY <1>3, <1>4
<1> QED BY <1>2, <1>3, <1>4, <1>5

\* What is known of an instruction that an insertion leaves in place
StillThere(e, f, tm, g, tm2) ==
  /\ \A a \in {1, Len(e.src) + 2} : g.code[a] = f.code[a]
  /\ \A a \in Originals(e) : AsWas(e, g, a) \/ AsReceived(e, g, tm2, a)
  /\ \A a \in Len(e.src) + 3 .. Len(f.code) : AsSpilled(e, g, tm2, a)

\* An inserted load or store keeps the instructions of the source in their order.
LEMMA NewShape ==
  ASSUME NEW n, NEW f, NEW g, NEW p, WithNew(f, n, g, p), p # 1,
         NEW e, PassOK(e), NEW tm, NEW tm2, Shape(e, f, tm), StillThere(e, f, tm, g, tm2),
         AsSpilled(e, g, tm2, n + 1)
  PROVE  Shape(e, g, tm2)
<1>1. n \in Nat /\ Len(f.code) = n /\ Len(g.code) = n + 1
  BY DEF WithNew, Sound
<1>2. Len(e.src) \in Nat
  BY BodyFacts DEF PassOK
<1>3. Len(e.src) + 2 <= n
  BY <1>1 DEF Shape
<1>4. g.order[1] = 1
  <2>1. p \in Nat \ {0, 1}
    BY NewPos
  <2>2. 1 \in 1 .. p - 1
    BY <2>1
  <2> QED BY <2>2 DEF WithNew, InsertedOrder, Shape
<1>5. \A a \in {1, Len(e.src) + 2} :
        g.code[a].op = "frame" /\ g.code[a].src = <<>> /\ g.code[a].dst = None
  BY DEF StillThere, Shape
<1>6. ASSUME NEW a \in Len(e.src) + 3 .. Len(g.code) PROVE AsSpilled(e, g, tm2, a)
  <2>1. a = n + 1 \/ a \in Len(e.src) + 3 .. Len(f.code)
    BY <1>1, <1>2, <1>6
  <2> QED BY <2>1 DEF StillThere
<1>7. ASSUME NEW a \in 1 .. Len(e.src) + 2, NEW b \in 1 .. Len(e.src) + 2, a < b
      PROVE  Pos(g, a) < Pos(g, b)
  <2>1. a \in 1 .. n /\ b \in 1 .. n
    BY <1>1, <1>2, <1>3, <1>7
  <2>2. Pos(f, a) < Pos(f, b)
    BY <1>7 DEF Shape
  <2>3. p \in Nat /\ Pos(f, a) \in Nat /\ Pos(f, b) \in Nat
        /\ Pos(g, a) = (IF Pos(f, a) < p THEN Pos(f, a) ELSE Pos(f, a) + 1)
        /\ Pos(g, b) = (IF Pos(f, b) < p THEN Pos(f, b) ELSE Pos(f, b) + 1)
    BY <2>1, NewPos
  <2> QED BY <2>2, <2>3
<1> QED BY <1>1, <1>2, <1>3, <1>4, <1>5, <1>6, <1>7 DEF Shape, StillThere

\* The instruction is the same but for its operands and its place in the frame.
SameThere(f, tm, g, tm2, a) ==
  /\ g.code[a].op = f.code[a].op /\ g.code[a].dst = f.code[a].dst
  /\ f.code[a].op \in {"load", "store", "push_arg"} =>
       Entry(tm2, g.code[a].slot) = Entry(tm, f.code[a].slot)

\* Behind an instruction that is the same, what held in front of it carries over.
LEMMA AfterSame ==
  ASSUME NEW e, NEW f, NEW tm, NEW U, NEW D, NEW R, NEW M,
         NEW g, NEW tm2, NEW V, NEW E, NEW S, NEW N,
         NEW a, NEW q, SameThere(f, tm, g, tm2, a),
         f.code[a].op = "store" =>
           (Known(e, U, R, M, a, f.code[a].src[1], q) => Known(e, V, S, N, a, g.code[a].src[1], q)),
         <<a, f.code[a].dst>> \in D <=> <<a, f.code[a].dst>> \in E,
         \A h \in Homes : q \in M[a][h] => q \in N[a][h],
         f.code[a].op = "load" => Entry(tm, f.code[a].slot) \in Homes
  PROVE  /\ \A x : RegAfter(e, f, tm, U, D, R, M, a, x, q) /\ (q \in R[a][x] => q \in S[a][x])
                     => RegAfter(e, g, tm2, V, E, S, N, a, x, q)
         /\ \A h \in Homes : MemAfter(e, f, tm, U, D, R, M, a, h, q)
                     => MemAfter(e, g, tm2, V, E, S, N, a, h, q)
<1>1. Written(e, f, tm, U, R, M, a, q) => Written(e, g, tm2, V, S, N, a, q)
  BY DEF SameThere, Written
<1>2. Writes(g.code[a]) <=> Writes(f.code[a])
  BY DEF SameThere, Writes
<1>3. Unchanged(e, g, a, q) <=> Unchanged(e, f, a, q)
  BY DEF SameThere, Gives, Unchanged
<1>4. \A h : ToHome(e, g, tm2, E, a, h) <=> ToHome(e, f, tm, D, a, h)
  BY <1>2 DEF SameThere, ToHome, Writes
<1>5. g.code[a].op = f.code[a].op /\ g.code[a].dst = f.code[a].dst
  BY DEF SameThere
<1>6. \A x : RegAfter(e, f, tm, U, D, R, M, a, x, q) /\ (q \in R[a][x] => q \in S[a][x])
               => RegAfter(e, g, tm2, V, E, S, N, a, x, q)
  BY <1>1, <1>2, <1>3, <1>5 DEF RegAfter
<1>7. \A h \in Homes : MemAfter(e, f, tm, U, D, R, M, a, h, q)
               => MemAfter(e, g, tm2, V, E, S, N, a, h, q)
  BY <1>1, <1>3, <1>4 DEF MemAfter
<1> QED BY <1>6, <1>7

----------------------------------------------------------------------------
(* A load in front of an instruction *)

\* The instructions of a sound function.
LEMMA SoundCode ==
  ASSUME NEW n, NEW f, Sound(f, n)
  PROVE  /\ n \in Nat \ {0} /\ Ids(f) = 1 .. n /\ Len(f.code) = n /\ f.tmp \in Nat
         /\ \A a \in 1 .. n : /\ f.code[a] \in Instr
                              /\ f.code[a].src \in Seq(Nat) /\ f.code[a].dst \in Nat \cup {None}
                              /\ \A l \in DOMAIN f.code[a].src : f.code[a].src[l] \in Nat
<1>1. n \in Nat \ {0} /\ Ids(f) = 1 .. n /\ Len(f.code) = n /\ Built(f, n)
  BY SoundIds
<1>2. f.tmp \in Nat /\ \A a \in 1 .. n : f.code[a] \in Instr
  BY <1>1 DEF Built, Fns
<1>3. ASSUME NEW a \in 1 .. n
      PROVE  /\ f.code[a].src \in Seq(Nat) /\ f.code[a].dst \in Nat \cup {None}
             /\ \A l \in DOMAIN f.code[a].src : f.code[a].src[l] \in Nat
  <2>1. f.code[a].src \in Seq(Nat) /\ f.code[a].dst \in Nat \cup {None}
    BY <1>2 DEF Instr
  <2> QED BY <2>1, ElementOfSeq
<1> QED BY <1>1, <1>2, <1>3

\* The instruction, its loaded operand, and the load in front of it
NewLoad(f, n, g, c, k, slot) ==
  /\ WithNew(f, n, g, Pos(f, c)) /\ f.order[Pos(f, c)] = c
  /\ g.tmp = f.tmp + 1
  /\ g.code[n + 1].op = "load" /\ g.code[n + 1].src = <<>> /\ g.code[n + 1].dst = f.tmp
  /\ g.code[n + 1].slot = slot
  /\ \A a \in 1 .. n : a # c => g.code[a] = f.code[a]
  /\ g.code[c].op = f.code[c].op /\ g.code[c].dst = f.code[c].dst
  /\ g.code[c].jump = f.code[c].jump /\ g.code[c].slot = f.code[c].slot
  /\ DOMAIN g.code[c].src = DOMAIN f.code[c].src
  /\ \A l \in DOMAIN f.code[c].src :
       g.code[c].src[l] = IF l = k THEN f.tmp ELSE f.code[c].src[l]

\* That is what gen_spill_load makes.
LEMMA LoadIsNew ==
  ASSUME NEW n, NEW f, Sound(f, n), NEW c \in 1 .. n, NEW k \in DOMAIN f.code[c].src,
         NEW slot \in Slots, NEW g, g = LoadAt(f, c, c, k, slot)
  PROVE  NewLoad(f, n, g, c, k, slot)
<1>1. n \in Nat /\ Built(f, n) /\ f \in Fns(1 .. n) /\ f.code[c] \in Instr
  BY SoundCode DEF Sound, Built
<1>2. Sound(g, n + 1)
  BY LoadKeepsSound
<1>3. LoadCode(f, n, g, c, k, slot) /\ InsertedOrder(f.order, g.order, Pos(f, c), n + 1)
  BY <1>1, Loading
<1>4. SameButLoad(f, n, g, c)
  BY <1>1, <1>3, LoadCodeSame
<1>5. Pos(f, c) \in DOMAIN f.order /\ f.order[Pos(f, c)] = c
  BY <1>1, OrderPlaces
<1>6. WithNew(f, n, g, Pos(f, c))
  <2>1. g.code[n + 1].op \notin Branches
    BY <1>4 DEF SameButLoad, Branches
  <2> QED BY <1>2, <1>3, <1>4, <1>5, <2>1 DEF WithNew, SameButLoad
<1>7. g.code[n + 1].slot = slot
  <2>1. g.code[n + 1] = LoadInstr(f, slot)
    BY <1>3 DEF LoadCode
  <2>2. LoadInstr(f, slot).slot = slot
    BY DEF LoadInstr, Ins
  <2> QED BY <2>1, <2>2
<1>8. /\ g.code[c].slot = f.code[c].slot
      /\ \A l \in DOMAIN f.code[c].src :
           g.code[c].src[l] = IF l = k THEN f.tmp ELSE f.code[c].src[l]
  <2> DEFINE x == f.code[c]
             src == [x.src EXCEPT ![k] = f.tmp]
  <2>1. x \in Instr /\ g.code[c] = [x EXCEPT !.src = src]
    BY <1>1, <1>3 DEF LoadCode
  <2>2. \A l \in DOMAIN x.src : src[l] = IF l = k THEN f.tmp ELSE x.src[l]
    OBVIOUS
  <2>3. x = f.code[c]
    OBVIOUS
  <2> HIDE DEF x, src
  <2>4. g.code[c].slot = x.slot /\ g.code[c].src = src
    BY <2>1 DEF Instr
  <2> QED BY <2>2, <2>3, <2>4
<1> QED BY <1>3, <1>4, <1>5, <1>6, <1>7, <1>8 DEF NewLoad, LoadCode, SameButLoad

\* Where operands are read: an instruction of the source, or a store
LEMMA ReaderIs ==
  ASSUME NEW n, NEW f, Sound(f, n), NEW e, NEW tm, PassOK(e), Shape(e, f, tm),
         NEW c \in 1 .. n, NEW k \in DOMAIN f.code[c].src
  PROVE  \/ c \in Originals(e) /\ AsWas(e, f, c)
         \/ /\ c \in Len(e.src) + 3 .. Len(f.code) /\ AsSpilled(e, f, tm, c)
            /\ f.code[c].op = "store" /\ k = 1
<1>1. Len(f.code) = n /\ Len(e.src) \in Nat /\ n \in Nat
  BY SoundCode, BodyFacts DEF PassOK
<1>2. f.code[c].src # <<>>
  OBVIOUS
<1>3. \/ c \in {1, Len(e.src) + 2} \/ c \in Originals(e) \/ c \in Len(e.src) + 3 .. Len(f.code)
  BY <1>1 DEF Originals
<1>4. c \notin {1, Len(e.src) + 2}
  BY <1>2 DEF Shape
<1>5. c \in Originals(e) => AsWas(e, f, c)
  BY <1>2 DEF Shape, AsReceived
<1>6. c \in Len(e.src) + 3 .. Len(f.code) =>
        AsSpilled(e, f, tm, c) /\ f.code[c].op = "store" /\ k = 1
  BY <1>2 DEF Shape, AsSpilled
<1> QED BY <1>3, <1>4, <1>5, <1>6

\* The registers of the pass are smaller than those the pool hands out.
LEMMA FreshReg ==
  ASSUME NEW e, NEW f, NEW tm, NEW U, NEW D, Fits(e, f, tm, U, D), f.tmp \in Nat
  PROVE  /\ f.tmp \notin DOMAIN e.info /\ VarIn(e, f.tmp) = None /\ f.tmp \notin e.spill
         /\ \A a : <<a, f.tmp>> \notin U
<1>1. \A x \in DOMAIN e.info : x < f.tmp /\ x \in Nat
  BY DEF Fits, PassOK
<1>2. f.tmp \notin DOMAIN e.info
  BY <1>1
<1> QED BY <1>2 DEF VarIn, Fits, PassOK

\* With the load the function still fits its pass.
LEMMA LoadFits ==
  ASSUME NEW n, NEW f, NEW g, NEW c \in 1 .. n, NEW k \in DOMAIN f.code[c].src, NEW slot,
         NewLoad(f, n, g, c, k, slot),
         NEW e, NEW tm, NEW U, NEW D, Fits(e, f, tm, U, D), slot \in Locations(tm)
  PROVE  Fits(e, g, tm, U, D)
<1>1. Sound(f, n) /\ Sound(g, n + 1)
  BY DEF NewLoad, WithNew
<1>2. n \in Nat /\ Ids(f) = 1 .. n /\ Len(f.code) = n /\ f.tmp \in Nat
  BY <1>1, SoundCode
<1>3. Ids(g) = 1 .. n + 1
  <2> DEFINE m == n + 1
  <2>1. Sound(g, m)
    BY <1>1
  <2> HIDE DEF m
  <2>2. Ids(g) = 1 .. m
    BY <2>1, SoundCode
  <2> QED BY <2>2 DEF m
<1>4. PassOK(e) /\ PlacesOK(e, tm) /\ Shape(e, f, tm)
  BY DEF Fits
<1>5. VarIn(e, f.tmp) = None
  BY <1>2, FreshReg
<1>6. Len(e.src) \in Nat /\ Len(e.src) + 2 <= n
  BY <1>2, <1>4, BodyFacts DEF PassOK, Shape
<1>7. \/ c \in Originals(e) /\ AsWas(e, f, c)
      \/ /\ c \in Len(e.src) + 3 .. Len(f.code) /\ AsSpilled(e, f, tm, c)
         /\ f.code[c].op = "store" /\ k = 1
  BY <1>1, <1>4, ReaderIs
<1>8. c \notin {1, Len(e.src) + 2}
  <2>1. c # 1 /\ c # Len(e.src) + 2
    BY <1>2, <1>6, <1>7 DEF Originals
  <2> QED BY <2>1
<1>9. ASSUME NEW a \in Originals(e) PROVE AsWas(e, g, a) \/ AsReceived(e, g, tm, a)
  <2>1. CASE a = c
    <3>1. AsWas(e, f, a) /\ a = c
      BY <1>6, <1>7, <2>1 DEF Originals
    <3>2. VarIn(e, f.tmp) = None
      BY <1>5
    <3> QED BY <3>1, <3>2 DEF AsWas, NewLoad
  <2>2. CASE a # c
    <3>1. g.code[a] = f.code[a]
      BY <1>2, <1>6, <2>2 DEF NewLoad, Originals
    <3>2. AsWas(e, f, a) \/ AsReceived(e, f, tm, a)
      BY <1>4 DEF Shape
    <3> QED BY <3>1, <3>2 DEF AsWas, AsReceived
  <2> QED BY <2>1, <2>2
<1>10. ASSUME NEW a \in Len(e.src) + 3 .. Len(f.code) PROVE AsSpilled(e, g, tm, a)
  <2>1. a \in 1 .. n /\ AsSpilled(e, f, tm, a)
    BY <1>2, <1>4, <1>6 DEF Shape
  <2>2. CASE a = c
    <3>1. f.code[a].op = "store"
      BY <1>6, <1>7, <2>2 DEF Originals
    <3> QED BY <2>1, <2>2, <3>1 DEF AsSpilled, NewLoad
  <2>3. CASE a # c
    BY <2>1, <2>3 DEF AsSpilled, NewLoad
  <2> QED BY <2>2, <2>3
<1>11. StillThere(e, f, tm, g, tm)
  <2>1. \A a \in {1, Len(e.src) + 2} : g.code[a] = f.code[a]
    BY <1>2, <1>6, <1>8 DEF NewLoad
  <2> QED BY <1>9, <1>10, <2>1 DEF StillThere
<1>12. AsSpilled(e, g, tm, n + 1)
  BY <1>2, <1>5, ValAssumption DEF NewLoad, AsSpilled
<1>13. Pos(f, c) # 1
  <2>1. f.order[Pos(f, c)] = c /\ f.order[1] = 1
    BY <1>4 DEF NewLoad, Shape
  <2> QED BY <1>8, <2>1
<1>14. Shape(e, g, tm)
  BY <1>4, <1>11, <1>12, <1>13, NewShape DEF NewLoad
<1>15. \A x \in DOMAIN e.info : x < g.tmp
  <2>1. \A x \in DOMAIN e.info : x < f.tmp /\ x \in Nat
    BY DEF Fits, PassOK
  <2> QED BY <1>2, <2>1 DEF NewLoad
<1>16. U \subseteq Ids(g) \X e.spill /\ D \subseteq Ids(g) \X e.spill
  <2>1. Ids(f) \subseteq Ids(g)
    BY <1>2, <1>3
  <2> QED BY <2>1 DEF Fits
<1>17. ReceivesLeft(e, g, D)
  <2> SUFFICES ASSUME NEW a \in Originals(e), g.code[a].op = "receive", g.code[a].dst \in e.spill
               PROVE  <<a, g.code[a].dst>> \in D
    BY DEF ReceivesLeft
  <2>1. a \in 1 .. n
    BY <1>2, <1>6 DEF Originals
  <2>2. g.code[a].op = f.code[a].op /\ g.code[a].dst = f.code[a].dst
    BY <2>1 DEF NewLoad
  <2> QED BY <2>2 DEF Fits, ReceivesLeft
<1> QED BY <1>4, <1>14, <1>15, <1>16, <1>17 DEF Fits

\* An operation tells where an instruction comes from.
LEMMA Kinds ==
  ASSUME NEW n, NEW f, Sound(f, n), NEW e, NEW tm, PassOK(e), PlacesOK(e, tm), Shape(e, f, tm),
         NEW a \in 1 .. n
  PROVE  /\ f.code[a].op \in {"load", "store"} =>
              /\ a \in Len(e.src) + 3 .. Len(f.code) /\ AsSpilled(e, f, tm, a)
              /\ f.code[a].op = "store" => 1 \in DOMAIN f.code[a].src
         /\ f.code[a].op = "push_arg" => a \in Originals(e) /\ AsReceived(e, f, tm, a)
         /\ f.code[a].op \in {"load", "store", "push_arg"} =>
              f.code[a].slot \in Locations(tm) /\ Entry(tm, f.code[a].slot) \in Homes
         /\ f.code[a].op \in SourceOps => a \in Originals(e) /\ AsWas(e, f, a)
         /\ a \in Originals(e) => a - 1 \in 1 .. Len(e.src) /\ BodyInstr(e.src, a - 1)
         /\ f.code[a].op \in SourceOps \cup {"load", "store", "push_arg", "frame"}
         /\ Len(e.src) \in Nat /\ Originals(e) \subseteq 1 .. n
<1>1. Len(f.code) = n /\ Len(e.src) \in Nat /\ n \in Nat /\ Len(e.src) + 2 <= n
  BY SoundCode, BodyFacts DEF PassOK, Shape
<1>2. a \in {1, Len(e.src) + 2} \/ a \in Originals(e) \/ a \in Len(e.src) + 3 .. Len(f.code)
  BY <1>1 DEF Originals
<1>3. a \in {1, Len(e.src) + 2} => f.code[a].op = "frame"
  BY DEF Shape
<1>4. a \in Originals(e) => a - 1 \in 1 .. Len(e.src) /\ BodyInstr(e.src, a - 1)
  <2>1. a \in Originals(e) => a - 1 \in 1 .. Len(e.src)
    BY <1>1 DEF Originals
  <2> QED BY <2>1, BodyFacts DEF PassOK
<1>5. a \in Originals(e) =>
        \/ f.code[a].op \in SourceOps /\ AsWas(e, f, a)
        \/ f.code[a].op = "push_arg" /\ AsReceived(e, f, tm, a)
  BY <1>4 DEF Shape, AsWas, AsReceived, BodyInstr, Was
<1>6. a \in Len(e.src) + 3 .. Len(f.code) =>
        /\ f.code[a].op \in {"load", "store"} /\ AsSpilled(e, f, tm, a)
        /\ f.code[a].op = "store" => 1 \in DOMAIN f.code[a].src
  BY DEF Shape, AsSpilled
<1>7. /\ f.code[a].op \in {"load", "store"} => a \in Len(e.src) + 3 .. Len(f.code)
      /\ f.code[a].op \in SourceOps \cup {"push_arg"} => a \in Originals(e)
      /\ f.code[a].op \in SourceOps \cup {"load", "store", "push_arg", "frame"}
  BY <1>2, <1>3, <1>5, <1>6 DEF SourceOps, Branches
<1>8. f.code[a].op \in {"load", "store", "push_arg"} => f.code[a].slot \in Locations(tm)
  BY <1>5, <1>6, <1>7 DEF AsReceived, AsSpilled, SourceOps, Branches
<1>9. f.code[a].op \in {"load", "store", "push_arg"} => Entry(tm, f.code[a].slot) \in Homes
  BY <1>8, EntryType
<1>10. Originals(e) \subseteq 1 .. n
  BY <1>1 DEF Originals
<1>11. /\ f.code[a].op \in SourceOps => AsWas(e, f, a)
       /\ f.code[a].op = "push_arg" => AsReceived(e, f, tm, a)
  BY <1>5, <1>7 DEF SourceOps, Branches
<1> QED BY <1>1, <1>4, <1>6, <1>7, <1>8, <1>9, <1>10, <1>11

\* What is known with the load: in front of it what was known in front of the
\* instruction, behind it also what the new register holds.
RegWithLoad(e, n, c, t, j, R, M) ==
  [a \in Nat |-> IF a = n + 1 THEN R[c]
                 ELSE IF a = c THEN [x \in Nat |-> IF x = t THEN M[c][HomeIn(e, j)] ELSE R[c][x]]
                 ELSE R[a]]
MemWithLoad(n, c, M) == [a \in Nat |-> IF a = n + 1 THEN M[c] ELSE M[a]]

\* The values are still known with the load.
LEMMA LoadDescribed ==
  ASSUME NEW n, NEW f, NEW g, NEW c \in 1 .. n, NEW k \in DOMAIN f.code[c].src, NEW slot,
         NewLoad(f, n, g, c, k, slot), NoJump(f, n, c),
         NEW e, NEW tm, NEW U, NEW D, Fits(e, f, tm, U, D), slot \in Locations(tm),
         NEW R, NEW M, Describes(e, f, tm, U, D, R, M),
         NEW j, <<c, j>> \in U, f.code[c].src[k] = j, Entry(tm, slot) = HomeIn(e, j)
  PROVE  Describes(e, g, tm, U, D, RegWithLoad(e, n, c, f.tmp, j, R, M), MemWithLoad(n, c, M))
<1> DEFINE t == f.tmp
           S == RegWithLoad(e, n, c, t, j, R, M)
           N == MemWithLoad(n, c, M)
<1>1. Sound(f, n) /\ Sound(g, n + 1) /\ WithNew(f, n, g, Pos(f, c)) /\ f.order[Pos(f, c)] = c
  BY DEF NewLoad, WithNew
<1>2. n \in Nat /\ Ids(f) = 1 .. n /\ Len(f.code) = n /\ t \in Nat
      /\ \A a \in 1 .. n : /\ f.code[a].dst \in Nat \cup {None}
                           /\ \A l \in DOMAIN f.code[a].src : f.code[a].src[l] \in Nat
  BY <1>1, SoundCode
<1>3. Ids(g) = 1 .. n + 1
  <2> DEFINE m == n + 1
  <2>1. Sound(g, m)
    BY <1>1
  <2> HIDE DEF m
  <2>2. Ids(g) = 1 .. m
    BY <2>1, SoundCode
  <2> QED BY <2>2 DEF m
<1>4. PassOK(e) /\ PlacesOK(e, tm) /\ Shape(e, f, tm)
  BY DEF Fits
<1>5. /\ t \notin DOMAIN e.info /\ VarIn(e, t) = None /\ \A a : <<a, t>> \notin U
  BY <1>2, FreshReg
<1>6. R \in RegFacts /\ M \in MemFacts /\ Flow(e, f, tm, U, D, R, M)
      /\ OperandsKnown(e, f, U, R, M) /\ StoresKnown(e, f, tm, U, R, M)
      /\ InBoth(e, f, R, M) /\ Owned(e, f, R, M)
  BY DEF Describes
<1>7. j \in DOMAIN e.info /\ HomeIn(e, j) \in Homes
  <2>1. j \in e.spill
    BY DEF Fits
  <2>2. j \in DOMAIN e.info
    BY <1>4, <2>1 DEF PassOK
  <2> QED BY <1>4, <2>2, HomeType
<1>8. M[c][HomeIn(e, j)] \in SUBSET Sources /\ c \in Nat
  BY <1>2, <1>6, <1>7 DEF MemFacts
<1>9. /\ S[n + 1] = R[c] /\ N[n + 1] = M[c]
      /\ \A a \in 1 .. n : N[a] = M[a]
      /\ \A a \in 1 .. n : a # c => S[a] = R[a]
      /\ S[c] = [x \in Nat |-> IF x = t THEN M[c][HomeIn(e, j)] ELSE R[c][x]]
  BY <1>2 DEF RegWithLoad, MemWithLoad
<1>10. S \in RegFacts /\ N \in MemFacts
  <2>1. R[c] \in [Nat -> SUBSET Sources] /\ M[c] \in [Homes -> SUBSET Sources]
    BY <1>6, <1>8 DEF RegFacts, MemFacts
  <2>2. [x \in Nat |-> IF x = t THEN M[c][HomeIn(e, j)] ELSE R[c][x]] \in [Nat -> SUBSET Sources]
    BY <1>8, <2>1
  <2> QED BY <1>6, <2>1, <2>2 DEF RegFacts, MemFacts, RegWithLoad, MemWithLoad
<1> HIDE DEF S, N, t
<1>11. \A a \in 1 .. n : R[a][t] = {}
  <2>1. \A a \in 1 .. n : \A q \in R[a][t] : t < t
    BY <1>2, <1>6 DEF Owned, t
  <2> QED BY <1>2, <2>1
<1>12. /\ S[c][t] = M[c][HomeIn(e, j)]
       /\ \A x \in Nat : x # t => S[c][x] = R[c][x]
  BY <1>2, <1>9
<1>13. \A a \in 1 .. n : \A x \in Nat : R[a][x] \subseteq S[a][x] /\ (x # t => S[a][x] = R[a][x])
  BY <1>9, <1>11, <1>12
<1>14. \A a \in 1 .. n : \A x \in Nat : \A q : Known(e, U, R, M, a, x, q) => Known(e, U, S, N, a, x, q)
  BY <1>9, <1>13 DEF Known
<1>15. ASSUME NEW a \in 1 .. n, NEW l \in DOMAIN f.code[a].src, NEW q,
              Known(e, U, R, M, a, f.code[a].src[l], q)
       PROVE  Known(e, U, S, N, a, g.code[a].src[l], q)
  <2>1. CASE a = c /\ l = k
    <3>1. g.code[a].src[l] = t /\ q \in M[c][HomeIn(e, j)]
      BY <1>15, <2>1 DEF NewLoad, Known, t
    <3> QED BY <1>5, <1>12, <2>1, <3>1 DEF Known
  <2>2. CASE ~(a = c /\ l = k)
    <3>1. g.code[a].src[l] = f.code[a].src[l]
      BY <2>2 DEF NewLoad
    <3> QED BY <1>2, <1>14, <1>15, <3>1
  <2> QED BY <2>1, <2>2
<1>16. ASSUME NEW a \in 1 .. n, f.code[a].op \in {"load", "store"}
       PROVE  /\ f.code[a].slot \in Locations(tm) /\ Entry(tm, f.code[a].slot) \in Homes
              /\ f.code[a].op = "store" => 1 \in DOMAIN f.code[a].src
  BY <1>1, <1>4, <1>16, Kinds
<1>17. ASSUME NEW a \in 1 .. n
       PROVE  /\ g.code[a].op = f.code[a].op /\ g.code[a].dst = f.code[a].dst
              /\ g.code[a].slot = f.code[a].slot /\ DOMAIN g.code[a].src = DOMAIN f.code[a].src
  BY DEF NewLoad
<1>18. ASSUME NEW a \in 1 .. n, NEW q
       PROVE  /\ \A x \in Nat : RegAfter(e, f, tm, U, D, R, M, a, x, q)
                           => RegAfter(e, g, tm, U, D, S, N, a, x, q)
              /\ \A h \in Homes : MemAfter(e, f, tm, U, D, R, M, a, h, q)
                           => MemAfter(e, g, tm, U, D, S, N, a, h, q)
  <2>1. SameThere(f, tm, g, tm, a)
    BY <1>17 DEF SameThere
  <2>2. f.code[a].op = "store" =>
          (Known(e, U, R, M, a, f.code[a].src[1], q) => Known(e, U, S, N, a, g.code[a].src[1], q))
    BY <1>15, <1>16
  <2>3. /\ \A h \in Homes : q \in M[a][h] => q \in N[a][h]
        /\ <<a, f.code[a].dst>> \in D <=> <<a, f.code[a].dst>> \in D
    BY <1>9
  <2>4. f.code[a].op = "load" => Entry(tm, f.code[a].slot) \in Homes
    BY <1>16
  <2>5. /\ \A x : RegAfter(e, f, tm, U, D, R, M, a, x, q) /\ (q \in R[a][x] => q \in S[a][x])
                     => RegAfter(e, g, tm, U, D, S, N, a, x, q)
        /\ \A h \in Homes : MemAfter(e, f, tm, U, D, R, M, a, h, q)
                     => MemAfter(e, g, tm, U, D, S, N, a, h, q)
    BY <2>1, <2>2, <2>3, <2>4, AfterSame
  <2> QED BY <1>13, <2>5
<1>19. /\ ~Gives(g.code[n + 1]) /\ Writes(g.code[n + 1]) /\ g.code[n + 1].op = "load"
       /\ g.code[n + 1].dst = t /\ g.code[n + 1].slot = slot
  BY DEF NewLoad, Gives, Writes, t
<1>20. Flow(e, g, tm, U, D, S, N)
  <2> SUFFICES ASSUME NEW a \in 1 .. n + 1, NEW b \in 1 .. n + 1, Goes(g, a, b)
               PROVE  /\ \A x \in Nat : \A q \in S[b][x] : RegAfter(e, g, tm, U, D, S, N, a, x, q)
                      /\ \A h \in Homes : \A q \in N[b][h] : MemAfter(e, g, tm, U, D, S, N, a, h, q)
    BY <1>3 DEF Flow
  <2>1. \/ a = n + 1 /\ b = c
        \/ a \in 1 .. n /\ b = n + 1 /\ FallsTo(f, a, c)
        \/ /\ a \in 1 .. n /\ b \in 1 .. n /\ Goes(f, a, b) /\ (b = c => JumpsTo(f, a, b))
    BY <1>1, NewGoes
  <2>2. \A y \in 1 .. n : Goes(f, a, y) /\ a \in 1 .. n =>
           /\ \A x \in Nat : \A q \in R[y][x] : RegAfter(e, f, tm, U, D, R, M, a, x, q)
           /\ \A h \in Homes : \A q \in M[y][h] : MemAfter(e, f, tm, U, D, R, M, a, h, q)
    BY <1>2, <1>6 DEF Flow
  <2>3. CASE a = n + 1 /\ b = c
    <3>1. ASSUME NEW x \in Nat, NEW q \in S[c][x]
          PROVE  RegAfter(e, g, tm, U, D, S, N, n + 1, x, q)
      <4>1. CASE x = t
        <5>1. Written(e, g, tm, U, S, N, n + 1, q)
          BY <1>9, <1>12, <1>19, <3>1, <4>1 DEF Written
        <5> QED BY <1>19, <4>1, <5>1 DEF RegAfter
      <4>2. CASE x # t
        <5>1. q \in S[n + 1][x]
          BY <1>9, <1>12, <3>1, <4>2
        <5> QED BY <1>19, <4>2, <5>1 DEF RegAfter, Unchanged
      <4> QED BY <4>1, <4>2
    <3>2. ASSUME NEW h \in Homes, NEW q \in N[c][h]
          PROVE  MemAfter(e, g, tm, U, D, S, N, n + 1, h, q)
      <4>1. q \in N[n + 1][h]
        BY <1>9, <3>2
      <4>2. \A y : <<n + 1, y>> \notin D
        <5>1. D \subseteq (1 .. n) \X e.spill
          BY <1>2 DEF Fits
        <5> QED BY <1>2, <5>1
      <4>3. ~ToHome(e, g, tm, D, n + 1, h)
        BY <1>19, <4>2 DEF ToHome
      <4> QED BY <1>19, <4>1, <4>3 DEF MemAfter, Unchanged
    <3> QED BY <2>3, <3>1, <3>2
  <2>4. CASE a \in 1 .. n /\ b = n + 1 /\ FallsTo(f, a, c)
    <3>1. Goes(f, a, c)
      BY <2>4 DEF Goes
    <3> QED BY <1>9, <1>18, <2>2, <2>4, <3>1
  <2>5. CASE a \in 1 .. n /\ b \in 1 .. n /\ Goes(f, a, b) /\ (b = c => JumpsTo(f, a, b))
    <3>1. b # c
      BY <2>5 DEF NoJump
    <3>2. S[b] = R[b] /\ N[b] = M[b]
      BY <1>9, <2>5, <3>1
    <3> QED BY <1>18, <2>2, <2>5, <3>2
  <2> QED BY <2>1, <2>3, <2>4, <2>5
<1>21. OperandsKnown(e, g, U, S, N)
  <2> SUFFICES ASSUME NEW a \in Originals(e), g.code[a].op # "push_arg"
               PROVE  /\ \A l \in DOMAIN g.code[a].src :
                           Known(e, U, S, N, a, g.code[a].src[l], Was(e, a).src[l])
                      /\ g.code[a].op = "reg_store" =>
                           Known(e, U, S, N, a, g.code[a].dst, Was(e, a).dst)
    BY DEF OperandsKnown
  <2>1. a \in 1 .. n
    <3>1. Len(e.src) \in Nat /\ Len(e.src) + 2 <= n
      BY <1>2, <1>4, BodyFacts DEF PassOK, Shape
    <3> QED BY <1>2, <3>1 DEF Originals
  <2>2. /\ \A l \in DOMAIN f.code[a].src :
             Known(e, U, R, M, a, f.code[a].src[l], Was(e, a).src[l])
        /\ f.code[a].op = "reg_store" => Known(e, U, R, M, a, f.code[a].dst, Was(e, a).dst)
    BY <1>6, <1>17, <2>1 DEF OperandsKnown
  <2>3. f.code[a].op = "reg_store" => f.code[a].dst \in Nat
    <3>1. ASSUME f.code[a].op = "reg_store" PROVE f.code[a].dst # None
      <4>1. AsWas(e, f, a)
        BY <1>4, <3>1 DEF Shape, AsReceived
      <4>2. a - 1 \in 1 .. Len(e.src)
        BY <1>4, BodyFacts DEF Originals, PassOK
      <4>3. Was(e, a).op = "reg_store" => Was(e, a).dst # None
        BY <1>4, <4>2, BodyFacts DEF PassOK, BodyInstr, Was
      <4> QED BY <3>1, <4>1, <4>3 DEF AsWas
    <3> QED BY <1>2, <2>1, <3>1
  <2> QED BY <1>14, <1>15, <1>17, <2>1, <2>2, <2>3
<1>22. StoresKnown(e, g, tm, U, S, N)
  <2> SUFFICES ASSUME NEW a \in 1 .. n + 1, g.code[a].op = "store",
                      NEW v \in VarRegs, Entry(tm, g.code[a].slot) = <<v, 0>>
               PROVE  Known(e, U, S, N, a, g.code[a].src[1], v)
    BY <1>3 DEF StoresKnown
  <2>1. a \in 1 .. n
    <3>1. a # n + 1
      BY <1>19
    <3> QED BY <1>2, <3>1
  <2>2. f.code[a].op = "store" /\ Entry(tm, f.code[a].slot) = <<v, 0>>
    BY <1>17, <2>1
  <2>3. Known(e, U, R, M, a, f.code[a].src[1], v)
    BY <1>2, <1>6, <2>1, <2>2 DEF StoresKnown
  <2> QED BY <1>15, <1>16, <2>1, <2>2, <2>3
<1>23. InBoth(e, g, S, N)
  <2> SUFFICES ASSUME NEW x \in DOMAIN e.info, NEW a \in 1 .. n + 1,
                      ~Received(e, x), e.info[x].var # None \/ x \in e.spill
               PROVE  N[a][HomeIn(e, x)] \subseteq S[a][x]
    BY <1>3 DEF InBoth
  <2>1. \A b \in 1 .. n : M[b][HomeIn(e, x)] \subseteq R[b][x]
    BY <1>2, <1>6 DEF InBoth
  <2>2. x \in Nat /\ x # t
    BY <1>4, <1>5 DEF PassOK
  <2>3. a = n + 1 \/ a \in 1 .. n
    BY <1>2
  <2> QED BY <1>9, <1>13, <2>1, <2>2, <2>3
<1>24. Owned(e, g, S, N)
  <2>1. g.tmp = t + 1
    BY DEF NewLoad, t
  <2>2. \A a \in 1 .. n :
          /\ \A x \in Nat : \A q \in R[a][x] : VarIn(e, x) \in {None, q} /\ x < t
          /\ \A r, p \in Nat : \A q \in M[a][<<r, p>>] : (p = 0 => r = q) /\ p <= e.passes
    BY <1>2, <1>6 DEF Owned, t
  <2>3. ASSUME NEW a \in 1 .. n + 1, NEW x \in Nat, NEW q \in S[a][x]
        PROVE  VarIn(e, x) \in {None, q} /\ x < t + 1
    <3>1. CASE x = t /\ a = c
      BY <1>2, <1>5, <3>1
    <3>2. CASE ~(x = t /\ a = c)
      <4>1. \E b \in 1 .. n : q \in R[b][x]
        <5>1. a = n + 1 \/ a \in 1 .. n
          BY <1>2
        <5> QED BY <1>9, <1>12, <2>3, <3>2, <5>1
      <4>2. VarIn(e, x) \in {None, q} /\ x < t
        BY <2>2, <4>1
      <4> QED BY <1>2, <4>2
    <3> QED BY <3>1, <3>2
  <2>4. ASSUME NEW a \in 1 .. n + 1, NEW r \in Nat, NEW p \in Nat, NEW q \in N[a][<<r, p>>]
        PROVE  (p = 0 => r = q) /\ p <= e.passes
    <3>1. \E b \in 1 .. n : q \in M[b][<<r, p>>]
      <4>1. a = n + 1 \/ a \in 1 .. n
        BY <1>2
      <4> QED BY <1>9, <2>4, <4>1
    <3> QED BY <2>2, <3>1
  <2> QED BY <1>3, <2>1, <2>3, <2>4 DEF Owned
<1> QED BY <1>10, <1>20, <1>21, <1>22, <1>23, <1>24 DEF Describes, S, N, t

----------------------------------------------------------------------------
(* The loads of an instruction *)

\* What loads in front of c, for its operands, make of f
LoadsKept(e, f, n, tm, U, D, c, g, m) ==
  /\ m \in Nat /\ n <= m /\ Sound(g, m) /\ NoJump(g, m, c)
  /\ Fits(e, g, tm, U, D) /\ \E R, M : Describes(e, g, tm, U, D, R, M)
  /\ f.tmp <= g.tmp
  /\ \A a \in 1 .. n : a # c => g.code[a] = f.code[a]
  /\ g.code[c].op = f.code[c].op /\ g.code[c].dst = f.code[c].dst
  /\ DOMAIN g.code[c].src = DOMAIN f.code[c].src
  /\ \A a \in 1 .. n : Pos(g, a) > Pos(g, c) <=> Pos(f, a) > Pos(f, c)
  /\ \A a \in n + 1 .. m : Pos(g, a) < Pos(g, c)

\* The use of j at c is still to be loaded, from this place.
Fetches(e, tm, U, c, j, slot) ==
  <<c, j>> \in U /\ slot \in Slots /\ slot \in Locations(tm) /\ Entry(tm, slot) = HomeIn(e, j)

\* The new operand
LoadedOne(f, c, g, h, k) ==
  \A l \in DOMAIN f.code[c].src :
    h.code[c].src[l] = IF l = k THEN g.tmp ELSE g.code[c].src[l]

\* One load more.
LEMMA LoadKept ==
  ASSUME NEW n \in Nat, NEW f, NEW c \in 1 .. n, NEW e, NEW tm, NEW U, NEW D, f.tmp \in Nat,
         NEW g, NEW m, LoadsKept(e, f, n, tm, U, D, c, g, m),
         NEW k \in DOMAIN f.code[c].src, NEW j, g.code[c].src[k] = j,
         NEW slot, Fetches(e, tm, U, c, j, slot),
         NEW h, h = LoadAt(g, c, c, k, slot)
  PROVE  LoadsKept(e, f, n, tm, U, D, c, h, m + 1) /\ LoadedOne(f, c, g, h, k)
<1>1. m \in Nat /\ n <= m /\ Sound(g, m) /\ NoJump(g, m, c) /\ Fits(e, g, tm, U, D)
  BY DEF LoadsKept
<1>2. c \in 1 .. m /\ k \in DOMAIN g.code[c].src /\ g.tmp \in Nat
  BY <1>1, SoundCode DEF LoadsKept
<1> USE DEF Fetches
<1>3. NewLoad(g, m, h, c, k, slot)
  BY <1>1, <1>2, LoadIsNew
<1>4. PICK R, M : Describes(e, g, tm, U, D, R, M)
  BY DEF LoadsKept
<1>5. Fits(e, h, tm, U, D)
  BY <1>1, <1>2, <1>3, LoadFits
<1>6. \E S, N : Describes(e, h, tm, U, D, S, N)
  BY <1>1, <1>2, <1>3, <1>4, LoadDescribed
<1>7. WithNew(g, m, h, Pos(g, c)) /\ h.tmp = g.tmp + 1
  BY <1>3 DEF NewLoad
<1>8. NoJump(h, m + 1, c)
  <2> SUFFICES ASSUME NEW a \in 1 .. m + 1, JumpsTo(h, a, c) PROVE FALSE
    BY DEF NoJump
  <2>1. a # m + 1
    BY <1>7 DEF WithNew, JumpsTo
  <2>2. a \in 1 .. m
    BY <1>1, <2>1
  <2> QED BY <1>1, <1>7, <2>2 DEF WithNew, JumpsTo, NoJump
<1>9. /\ Pos(h, m + 1) = Pos(g, c) /\ Pos(g, c) \in Nat /\ Pos(h, c) = Pos(g, c) + 1
      /\ \A a \in 1 .. m : /\ Pos(g, a) \in Nat
                           /\ Pos(h, a) = IF Pos(g, a) < Pos(g, c) THEN Pos(g, a) ELSE Pos(g, a) + 1
  <2> DEFINE p == Pos(g, c)
  <2>1. WithNew(g, m, h, p)
    BY <1>7
  <2> HIDE DEF p
  <2>2. /\ Pos(h, m + 1) = p /\ p \in Nat
        /\ \A a \in 1 .. m : /\ Pos(g, a) \in Nat
                             /\ Pos(h, a) = IF Pos(g, a) < p THEN Pos(g, a) ELSE Pos(g, a) + 1
    BY <2>1, NewPos
  <2>3. Pos(h, c) = p + 1
    BY <1>2, <2>2 DEF p
  <2> QED BY <2>2, <2>3 DEF p
<1>10. ASSUME NEW a \in 1 .. n PROVE Pos(h, a) > Pos(h, c) <=> Pos(f, a) > Pos(f, c)
  <2>1. a \in 1 .. m
    BY <1>1
  <2>2. Pos(h, a) > Pos(h, c) <=> Pos(g, a) > Pos(g, c)
    BY <1>9, <2>1
  <2> QED BY <2>2 DEF LoadsKept
<1>11. ASSUME NEW a \in n + 1 .. m + 1 PROVE Pos(h, a) < Pos(h, c)
  <2>1. CASE a = m + 1
    BY <1>9, <2>1
  <2>2. CASE a # m + 1
    <3>1. a \in n + 1 .. m /\ a \in 1 .. m
      BY <1>1, <2>2
    <3>2. Pos(g, a) < Pos(g, c)
      BY <3>1 DEF LoadsKept
    <3> QED BY <1>9, <3>1, <3>2
  <2> QED BY <2>1, <2>2
<1>12. \A a \in 1 .. n : a \in 1 .. m
  BY <1>1
<1>13. /\ f.tmp <= h.tmp
       /\ n <= m + 1 /\ m + 1 \in Nat
  <2>1. f.tmp <= g.tmp
    BY DEF LoadsKept
  <2> QED BY <1>1, <1>2, <1>7, <2>1
<1>14. Sound(h, m + 1)
  BY <1>7 DEF WithNew
<1>15. /\ \A a \in 1 .. n : a # c => h.code[a] = f.code[a]
       /\ h.code[c].op = f.code[c].op /\ h.code[c].dst = f.code[c].dst
       /\ DOMAIN h.code[c].src = DOMAIN f.code[c].src
       /\ \A l \in DOMAIN f.code[c].src :
            h.code[c].src[l] = IF l = k THEN g.tmp ELSE g.code[c].src[l]
  BY <1>3, <1>12 DEF NewLoad, LoadsKept
<1> QED BY <1>5, <1>6, <1>8, <1>10, <1>11, <1>13, <1>14, <1>15 DEF LoadsKept, LoadedOne

\* Which operands the loop has come to
LoadedTo(f, c, L, g, k) ==
  \A l \in DOMAIN f.code[c].src :
    IF l \in L /\ l <= k THEN g.code[c].src[l] >= f.tmp
    ELSE g.code[c].src[l] = f.code[c].src[l]

\* The values are still known with all the loads, and each operand that gets a
\* load is a new register.
LEMMA LoadsDescribed ==
  ASSUME NEW n, NEW f, Sound(f, n), cur \in 1 .. n, instr = cur, NoJump(f, n, cur),
         NEW e, NEW tm, NEW U, NEW D, Fits(e, f, tm, U, D),
         \E R, M : Describes(e, f, tm, U, D, R, M),
         NEW j, Fetches(e, tm, U, cur, j, Location(j))
  PROVE  \E m : /\ LoadsKept(e, f, n, tm, U, D, cur, GenLoads(f, j), m)
                /\ \A l \in DOMAIN f.code[cur].src :
                     IF l \in Loaded(f.code[cur], j) THEN GenLoads(f, j).code[cur].src[l] >= f.tmp
                     ELSE GenLoads(f, j).code[cur].src[l] = f.code[cur].src[l]
<1> DEFINE x == f.code[cur]
           len == Len(x.src)
           L == Loaded(x, j)
           Kept(g, k) == /\ \E m : LoadsKept(e, f, n, tm, U, D, cur, g, m)
                         /\ LoadedTo(f, cur, L, g, k)
<1>1. /\ len \in Nat /\ DOMAIN x.src = 1 .. len
      /\ \E loaded : /\ GenLoads(f, j) = loaded[len] /\ loaded[0] = f
                     /\ \A k \in 1 .. len : loaded[k] = LoadRound(f, j, loaded[k - 1], k)
  BY LoadRounds DEF Fetches
<1>2. PICK loaded : /\ GenLoads(f, j) = loaded[len] /\ loaded[0] = f
                    /\ \A k \in 1 .. len : loaded[k] = LoadRound(f, j, loaded[k - 1], k)
  BY <1>1
<1>3. n \in Nat /\ f.tmp \in Nat /\ \A l \in DOMAIN x.src : x.src[l] \in Nat
  BY SoundCode
<1> HIDE DEF len
<1>4. Kept(f, 0)
  <2>1. LoadsKept(e, f, n, tm, U, D, cur, f, n)
    BY <1>3 DEF LoadsKept
  <2>2. LoadedTo(f, cur, L, f, 0)
    BY <1>1 DEF LoadedTo
  <2> QED BY <2>1, <2>2
<1> DEFINE T == {k \in 0 .. len : Kept(loaded[k], k)}
<1>5. ASSUME NEW k \in 1 .. len, k - 1 \in T PROVE k \in T
  <2> DEFINE g == loaded[k - 1]
             h == loaded[k]
  <2>1. PICK m : LoadsKept(e, f, n, tm, U, D, cur, g, m)
    BY <1>5
  <2>2. LoadedTo(f, cur, L, g, k - 1)
    BY <1>5
  <2>3. h = LoadRound(f, j, g, k)
    BY <1>2
  <2> HIDE DEF g, h
  <2>4. CASE k \in L
    <3>1. k \in DOMAIN f.code[cur].src /\ x.src[k] = j
      BY <2>4 DEF Loaded
    <3>2. g.code[cur].src[k] = j
      <4>1. ~(k <= k - 1)
        BY <1>1
      <4> QED BY <2>2, <3>1, <4>1 DEF LoadedTo
    <3>3. h = LoadAt(g, cur, cur, k, Location(j))
      BY <2>3, <2>4 DEF LoadRound
    <3>4. LoadsKept(e, f, n, tm, U, D, cur, h, m + 1) /\ LoadedOne(f, cur, g, h, k)
      <4> DEFINE slot == Location(j)
                 c == cur
      <4>1. Fetches(e, tm, U, c, j, slot) /\ c \in 1 .. n
        OBVIOUS
      <4>2. h = LoadAt(g, c, c, k, slot) /\ k \in DOMAIN f.code[c].src /\ g.code[c].src[k] = j
        BY <3>1, <3>2, <3>3
      <4>3. LoadsKept(e, f, n, tm, U, D, c, g, m) /\ n \in Nat /\ f.tmp \in Nat
        BY <1>3, <2>1
      <4> HIDE DEF slot, L, x, c
      <4>4. LoadsKept(e, f, n, tm, U, D, c, h, m + 1) /\ LoadedOne(f, c, g, h, k)
        BY ONLY <4>1, <4>2, <4>3, LoadKept
      <4> QED BY <4>4 DEF c
    <3>5. LoadedTo(f, cur, L, h, k)
      <4> SUFFICES ASSUME NEW l \in 1 .. len
                   PROVE  IF l \in L /\ l <= k THEN h.code[cur].src[l] >= f.tmp
                          ELSE h.code[cur].src[l] = f.code[cur].src[l]
        BY <1>1 DEF LoadedTo
      <4>1. f.tmp <= g.tmp /\ g.tmp \in Nat
        BY <2>1, SoundCode DEF LoadsKept
      <4>2. h.code[cur].src[l] = IF l = k THEN g.tmp ELSE g.code[cur].src[l]
        BY <1>1, <3>4 DEF LoadedOne
      <4>3. IF l \in L /\ l <= k - 1 THEN g.code[cur].src[l] >= f.tmp
            ELSE g.code[cur].src[l] = f.code[cur].src[l]
        BY <1>1, <2>2 DEF LoadedTo
      <4>4. CASE l = k
        BY <1>1, <1>3, <2>4, <4>1, <4>2, <4>4
      <4>5. CASE l # k
        <5>1. l <= k <=> l <= k - 1
          BY <1>1, <4>5
        <5> QED BY <4>2, <4>3, <4>5, <5>1
      <4> QED BY <4>4, <4>5
    <3> QED BY <1>1, <3>4, <3>5 DEF h
  <2>5. CASE k \notin L
    <3>1. h = g
      BY <2>3, <2>5 DEF LoadRound
    <3>2. LoadedTo(f, cur, L, g, k)
      <4> SUFFICES ASSUME NEW l \in 1 .. len
                   PROVE  IF l \in L /\ l <= k THEN g.code[cur].src[l] >= f.tmp
                          ELSE g.code[cur].src[l] = f.code[cur].src[l]
        BY <1>1 DEF LoadedTo
      <4>1. IF l \in L /\ l <= k - 1 THEN g.code[cur].src[l] >= f.tmp
            ELSE g.code[cur].src[l] = f.code[cur].src[l]
        BY <1>1, <2>2 DEF LoadedTo
      <4>2. l \in L /\ l <= k <=> l \in L /\ l <= k - 1
        BY <1>1, <2>5
      <4> QED BY <4>1, <4>2
    <3> QED BY <1>1, <2>1, <3>1, <3>2 DEF h
  <2> QED BY <2>4, <2>5
<1>6. Kept(GenLoads(f, j), len)
  <2>1. 0 \in T
    BY <1>1, <1>2, <1>4 DEF len
  <2>2. 0 .. len \subseteq T
    <3> HIDE DEF T
    <3> QED BY <1>1, <1>5, <2>1, Upward DEF len
  <2>3. len \in T
    <3> HIDE DEF T
    <3>1. len \in 0 .. len
      BY <1>1 DEF len
    <3> QED BY <2>2, <3>1
  <2> QED BY <1>2, <2>3
<1>7. ASSUME NEW l \in DOMAIN x.src PROVE l <= len
  BY <1>1, <1>7
<1> QED BY <1>6, <1>7 DEF LoadedTo

----------------------------------------------------------------------------
(* An instruction is done with *)

\* Two descriptions of the same function that differ at one instruction.
LEMMA UseDone ==
  ASSUME NEW n, NEW f, Sound(f, n), NEW c \in 1 .. n,
         NEW e, NEW tm, NEW U, NEW D, Fits(e, f, tm, U, D),
         NEW R, NEW M, Describes(e, f, tm, U, D, R, M), NEW j \in e.spill,
         \/ ~Received(e, j)
         \/ /\ \A k \in DOMAIN f.code[c].src : f.code[c].src[k] # j
            /\ f.code[c].op = "reg_store" => f.code[c].dst # j
  PROVE  Fits(e, f, tm, U \ {<<c, j>>}, D) /\ Describes(e, f, tm, U \ {<<c, j>>}, D, R, M)
<1> DEFINE V == U \ {<<c, j>>}
<1>1. n \in Nat /\ Ids(f) = 1 .. n
  BY SoundCode
<1>2. Fits(e, f, tm, V, D)
  BY DEF Fits
<1>3. PassOK(e) /\ PlacesOK(e, tm) /\ Shape(e, f, tm)
  BY DEF Fits
<1>4. /\ Flow(e, f, tm, U, D, R, M)
      /\ OperandsKnown(e, f, U, R, M) /\ StoresKnown(e, f, tm, U, R, M)
      /\ InBoth(e, f, R, M)
  BY DEF Describes
<1>5. ASSUME NEW a \in 1 .. n, NEW x, NEW q, Known(e, U, R, M, a, x, q),
             ~(a = c /\ x = j) \/ ~Received(e, j)
      PROVE  Known(e, V, R, M, a, x, q)
  <2>1. CASE a = c /\ x = j
    <3>1. ~Received(e, j)
      BY <1>5, <2>1
    <3>2. j \in DOMAIN e.info
      BY <1>3 DEF PassOK
    <3>3. M[a][HomeIn(e, j)] \subseteq R[a][j]
      BY <1>1, <1>4, <3>1, <3>2 DEF InBoth
    <3> QED BY <1>5, <2>1, <3>3 DEF Known
  <2>2. CASE ~(a = c /\ x = j)
    <3>1. <<a, x>> \in U <=> <<a, x>> \in V
      BY <2>2
    <3> HIDE DEF V
    <3> QED BY <1>5, <3>1 DEF Known
  <2> QED BY <2>1, <2>2
<1> HIDE DEF V
<1>6. ASSUME NEW a \in 1 .. n, NEW k \in DOMAIN f.code[a].src, NEW q,
             Known(e, U, R, M, a, f.code[a].src[k], q)
      PROVE  Known(e, V, R, M, a, f.code[a].src[k], q)
  BY <1>5, <1>6
<1>7. ASSUME NEW a \in 1 .. n, NEW q
      PROVE  /\ \A x \in Nat : RegAfter(e, f, tm, U, D, R, M, a, x, q)
                          => RegAfter(e, f, tm, V, D, R, M, a, x, q)
             /\ \A h \in Homes : MemAfter(e, f, tm, U, D, R, M, a, h, q)
                          => MemAfter(e, f, tm, V, D, R, M, a, h, q)
  <2>1. SameThere(f, tm, f, tm, a)
    BY DEF SameThere
  <2>2. f.code[a].op = "store" =>
          (Known(e, U, R, M, a, f.code[a].src[1], q) => Known(e, V, R, M, a, f.code[a].src[1], q))
    BY <1>3, <1>6, Kinds
  <2>3. f.code[a].op = "load" => Entry(tm, f.code[a].slot) \in Homes
    BY <1>3, Kinds
  <2>4. /\ \A h \in Homes : q \in M[a][h] => q \in M[a][h]
        /\ <<a, f.code[a].dst>> \in D <=> <<a, f.code[a].dst>> \in D
    OBVIOUS
  <2>5. /\ \A x : RegAfter(e, f, tm, U, D, R, M, a, x, q) /\ (q \in R[a][x] => q \in R[a][x])
                     => RegAfter(e, f, tm, V, D, R, M, a, x, q)
        /\ \A h \in Homes : MemAfter(e, f, tm, U, D, R, M, a, h, q)
                     => MemAfter(e, f, tm, V, D, R, M, a, h, q)
    BY <2>1, <2>2, <2>3, <2>4, AfterSame
  <2> QED BY <2>5
<1>8. Flow(e, f, tm, V, D, R, M)
  BY <1>1, <1>4, <1>7 DEF Flow
<1>9. OperandsKnown(e, f, V, R, M)
  <2> SUFFICES ASSUME NEW a \in Originals(e), f.code[a].op # "push_arg"
               PROVE  /\ \A k \in DOMAIN f.code[a].src :
                           Known(e, V, R, M, a, f.code[a].src[k], Was(e, a).src[k])
                      /\ f.code[a].op = "reg_store" =>
                           Known(e, V, R, M, a, f.code[a].dst, Was(e, a).dst)
    BY DEF OperandsKnown
  <2>1. a \in 1 .. n
    BY <1>3, Kinds
  <2>2. /\ \A k \in DOMAIN f.code[a].src :
             Known(e, U, R, M, a, f.code[a].src[k], Was(e, a).src[k])
        /\ f.code[a].op = "reg_store" => Known(e, U, R, M, a, f.code[a].dst, Was(e, a).dst)
    BY <1>4 DEF OperandsKnown
  <2> QED BY <1>5, <1>6, <2>1, <2>2
<1>10. StoresKnown(e, f, tm, V, R, M)
  <2> SUFFICES ASSUME NEW a \in 1 .. n, f.code[a].op = "store",
                      NEW v \in VarRegs, Entry(tm, f.code[a].slot) = <<v, 0>>
               PROVE  Known(e, V, R, M, a, f.code[a].src[1], v)
    BY <1>1 DEF StoresKnown
  <2>1. 1 \in DOMAIN f.code[a].src
    BY <1>3, Kinds
  <2>2. Known(e, U, R, M, a, f.code[a].src[1], v)
    BY <1>1, <1>4 DEF StoresKnown
  <2> QED BY <1>6, <2>1, <2>2
<1> QED BY <1>2, <1>8, <1>9, <1>10 DEF Describes, V

\* An instruction that does not define a register gives nothing to its home.
LEMMA DefDone ==
  ASSUME NEW n, NEW f, Sound(f, n), NEW c \in 1 .. n,
         NEW e, NEW tm, NEW U, NEW D, Fits(e, f, tm, U, D),
         NEW R, NEW M, Describes(e, f, tm, U, D, R, M), NEW j, f.code[c].dst # j
  PROVE  Fits(e, f, tm, U, D \ {<<c, j>>}) /\ Describes(e, f, tm, U, D \ {<<c, j>>}, R, M)
<1> DEFINE E == D \ {<<c, j>>}
<1>1. n \in Nat /\ Ids(f) = 1 .. n
  BY SoundCode
<1>2. \A a : <<a, f.code[a].dst>> \in D <=> <<a, f.code[a].dst>> \in E
  OBVIOUS
<1>3. Fits(e, f, tm, U, E)
  <2>1. ReceivesLeft(e, f, E)
    <3> HIDE DEF E
    <3> QED BY <1>2 DEF Fits, ReceivesLeft
  <2> QED BY <2>1 DEF Fits
<1> HIDE DEF E
<1>4. PassOK(e) /\ PlacesOK(e, tm) /\ Shape(e, f, tm)
  BY DEF Fits
<1>5. ASSUME NEW a \in 1 .. n, NEW q
      PROVE  /\ \A x \in Nat : RegAfter(e, f, tm, U, D, R, M, a, x, q)
                          => RegAfter(e, f, tm, U, E, R, M, a, x, q)
             /\ \A h \in Homes : MemAfter(e, f, tm, U, D, R, M, a, h, q)
                          => MemAfter(e, f, tm, U, E, R, M, a, h, q)
  <2>1. SameThere(f, tm, f, tm, a)
    BY DEF SameThere
  <2>2. f.code[a].op = "load" => Entry(tm, f.code[a].slot) \in Homes
    BY <1>4, Kinds
  <2>3. /\ \A h \in Homes : q \in M[a][h] => q \in M[a][h]
        /\ <<a, f.code[a].dst>> \in D <=> <<a, f.code[a].dst>> \in E
        /\ f.code[a].op = "store" =>
             (Known(e, U, R, M, a, f.code[a].src[1], q) => Known(e, U, R, M, a, f.code[a].src[1], q))
    BY <1>2
  <2>4. /\ \A x : RegAfter(e, f, tm, U, D, R, M, a, x, q) /\ (q \in R[a][x] => q \in R[a][x])
                     => RegAfter(e, f, tm, U, E, R, M, a, x, q)
        /\ \A h \in Homes : MemAfter(e, f, tm, U, D, R, M, a, h, q)
                     => MemAfter(e, f, tm, U, E, R, M, a, h, q)
    BY <2>1, <2>2, <2>3, AfterSame
  <2> QED BY <2>4
<1>6. Flow(e, f, tm, U, E, R, M)
  <2>1. Flow(e, f, tm, U, D, R, M)
    BY DEF Describes
  <2> QED BY <1>1, <1>5, <2>1 DEF Flow
<1> QED BY <1>3, <1>6 DEF Describes, E

----------------------------------------------------------------------------
(* A store behind an instruction *)

\* The store of j, behind c
NewStore(f, n, g, c, j, slot) ==
  /\ WithNew(f, n, g, Pos(f, c) + 1) /\ f.order[Pos(f, c) + 1] = NextOf(f, c)
  /\ c # Last(f.order)
  /\ g.tmp = f.tmp
  /\ g.code[n + 1].op = "store" /\ DOMAIN g.code[n + 1].src = {1} /\ g.code[n + 1].src[1] = j
  /\ g.code[n + 1].dst = None /\ g.code[n + 1].slot = slot
  /\ \A a \in 1 .. n : g.code[a] = f.code[a]

\* The instruction behind which the store goes: it defines the register, or
\* stores through it.
Defines(e, f, D, c, j) ==
  /\ f.code[c].dst = j /\ f.code[c].op # "receive" /\ <<c, j>> \in D
  /\ f.code[c].op = "reg_store" => ~Received(e, j)

\* That is what gen_spill_store makes.
LEMMA StoreIsNew ==
  ASSUME NEW n, NEW f, Sound(f, n), NEW c \in 1 .. n, c # Last(f.order),
         NEW j \in Nat, j < f.tmp, NEW slot \in Slots,
         NEW g, g = InsertInstr(f, Pos(f, c) + 1, [Ins("store", <<j>>, None, 0) EXCEPT !.slot = slot])
  PROVE  NewStore(f, n, g, c, j, slot)
<1> DEFINE ins == [Ins("store", <<j>>, None, 0) EXCEPT !.slot = slot]
           p == Pos(f, c) + 1
<1>1. n \in Nat /\ Built(f, n) /\ f.code \in [1 .. n -> Instr]
  BY SoundCode DEF Sound, Built, Fns
<1>2. ins = [op |-> "store", src |-> <<j>>, dst |-> None, jump |-> 0, slot |-> slot]
  BY DEF Ins
<1>3. ins \in Instr /\ ins.op = "store" /\ ins.op \notin Branches /\ ins.src = <<j>> /\ ins.dst = None
      /\ ins.slot = slot
  <2>1. "store" \in Ops /\ <<j>> \in Seq(Nat) /\ "store" \notin Branches
    BY DEF Ops, Branches
  <2> HIDE DEF ins
  <2> QED BY <1>2, <2>1 DEF Instr
<1>4. p \in DOMAIN f.order
  <2>1. /\ Len(f.order) \in Nat /\ DOMAIN f.order = 1 .. Len(f.order)
        /\ Pos(f, c) \in 1 .. Len(f.order) /\ f.order[Pos(f, c)] = c
    BY <1>1, OrderPlaces
  <2>2. Pos(f, c) # Len(f.order)
    BY <2>1 DEF Last
  <2> QED BY <2>1, <2>2
<1> HIDE DEF ins
<1>5. g = InsertInstr(f, p, ins)
  BY DEF ins
<1>6. f.order[p] = NextOf(f, c)
  BY DEF NextOf
<1> HIDE DEF p
<1>7. Sound(g, n + 1) /\ InsertedOrder(f.order, g.order, p, n + 1)
  <2>1. \A k \in DOMAIN ins.src : ins.src[k] < f.tmp
    BY <1>3
  <2> QED BY <1>3, <1>4, <1>5, <2>1, InsertKeepsSound
<1>8. g.code = Append(f.code, ins) /\ g.tmp = f.tmp
  <2>1. n \in Nat /\ Built(f, n) /\ p \in DOMAIN f.order /\ ins \in Instr
    BY <1>1, <1>3, <1>4
  <2> QED BY ONLY <1>5, <2>1, Inserting
<1>9. g.code[n + 1] = ins /\ \A a \in 1 .. n : g.code[a] = f.code[a]
  <2>1. /\ Append(f.code, ins)[n + 1] = ins
        /\ \A a \in 1 .. n : Append(f.code, ins)[a] = f.code[a]
    BY <1>1, <1>3, AppendFn
  <2> QED BY <1>8, <2>1
<1>10. WithNew(f, n, g, p)
  BY <1>3, <1>4, <1>7, <1>9 DEF WithNew
<1>11. DOMAIN ins.src = {1} /\ ins.src[1] = j
  BY <1>3
<1> QED BY <1>3, <1>6, <1>8, <1>9, <1>10, <1>11 DEF NewStore, p

\* With the store the function still fits its pass.
LEMMA StoreFits ==
  ASSUME NEW n, NEW f, NEW g, NEW c \in 1 .. n, NEW j, NEW slot, NewStore(f, n, g, c, j, slot),
         NEW e, NEW tm, NEW U, NEW D, Fits(e, f, tm, U, D), slot \in Locations(tm),
         Defines(e, f, D, c, j)
  PROVE  Fits(e, g, tm, U, D \ {<<c, j>>})
<1> DEFINE E == D \ {<<c, j>>}
           p == Pos(f, c) + 1
<1>1. Sound(f, n) /\ Sound(g, n + 1) /\ WithNew(f, n, g, p)
  BY DEF NewStore, WithNew
<1>2. n \in Nat /\ Ids(f) = 1 .. n /\ Len(f.code) = n /\ Built(f, n)
  BY <1>1, SoundCode DEF Sound
<1>3. Ids(g) = 1 .. n + 1
  <2> DEFINE m == n + 1
  <2>1. Sound(g, m)
    BY <1>1
  <2> HIDE DEF m
  <2>2. Ids(g) = 1 .. m
    BY <2>1, SoundCode
  <2> QED BY <2>2 DEF m
<1>4. PassOK(e) /\ PlacesOK(e, tm) /\ Shape(e, f, tm)
  BY DEF Fits
<1>5. p # 1
  <2>1. Pos(f, c) \in 1 .. Len(f.order) /\ Len(f.order) \in Nat
    BY <1>2, OrderPlaces
  <2> QED BY <2>1
<1>6. Len(e.src) \in Nat /\ Len(e.src) + 2 <= n
  BY <1>2, <1>4, BodyFacts DEF PassOK, Shape
<1>7. \A a \in 1 .. n : g.code[a] = f.code[a]
  BY DEF NewStore
<1>8. StillThere(e, f, tm, g, tm)
  <2>1. \A a \in {1, Len(e.src) + 2} : g.code[a] = f.code[a]
    BY <1>2, <1>6, <1>7
  <2>2. ASSUME NEW a \in Originals(e) PROVE AsWas(e, g, a) \/ AsReceived(e, g, tm, a)
    <3>1. g.code[a] = f.code[a]
      BY <1>2, <1>6, <1>7 DEF Originals
    <3> QED BY <1>4, <3>1 DEF Shape, AsWas, AsReceived
  <2>3. ASSUME NEW a \in Len(e.src) + 3 .. Len(f.code) PROVE AsSpilled(e, g, tm, a)
    <3>1. g.code[a] = f.code[a]
      BY <1>2, <1>6, <1>7
    <3> QED BY <1>4, <3>1 DEF Shape, AsSpilled
  <2> QED BY <2>1, <2>2, <2>3 DEF StillThere
<1>9. AsSpilled(e, g, tm, n + 1)
  BY DEF NewStore, AsSpilled
<1> HIDE DEF p
<1>10. Shape(e, g, tm)
  BY <1>1, <1>4, <1>5, <1>8, <1>9, NewShape
<1>11. ReceivesLeft(e, g, E)
  <2> SUFFICES ASSUME NEW a \in Originals(e), g.code[a].op = "receive", g.code[a].dst \in e.spill
               PROVE  <<a, g.code[a].dst>> \in E
    BY DEF ReceivesLeft
  <2>1. g.code[a] = f.code[a]
    BY <1>2, <1>6, <1>7 DEF Originals
  <2>2. <<a, g.code[a].dst>> \in D
    BY <2>1 DEF Fits, ReceivesLeft
  <2>3. a # c
    BY <2>1 DEF Defines
  <2> QED BY <2>2, <2>3
<1>12. U \subseteq Ids(g) \X e.spill /\ E \subseteq Ids(g) \X e.spill
  <2>1. U \subseteq (1 .. n) \X e.spill /\ D \subseteq (1 .. n) \X e.spill
    BY <1>2 DEF Fits
  <2>2. 1 .. n \subseteq 1 .. n + 1
    BY <1>2
  <2> QED BY <1>3, <2>1, <2>2
<1>13. \A x \in DOMAIN e.info : x < g.tmp
  BY DEF Fits, NewStore
<1> HIDE DEF E
<1> QED BY <1>4, <1>10, <1>11, <1>12, <1>13 DEF Fits, E

\* Only c falls through to what follows it.
LEMMA FallsFrom ==
  ASSUME NEW n, NEW f, Sound(f, n), NEW a \in 1 .. n, NEW c \in 1 .. n, c # Last(f.order),
         NEW b, b = NextOf(f, c), FallsTo(f, a, b)
  PROVE  a = c
<1>1. n \in Nat /\ Built(f, n)
  BY DEF Sound
<1>2. /\ Len(f.order) \in Nat /\ \A p \in 1 .. Len(f.order) : Pos(f, f.order[p]) = p
      /\ Pos(f, c) \in 1 .. Len(f.order) /\ f.order[Pos(f, c)] = c
  BY <1>1, OrderPlaces
<1>3. PICK p \in 1 .. Len(f.order) - 1 : f.order[p] = a /\ f.order[p + 1] = b
  BY DEF FallsTo, Before
<1>4. Pos(f, c) # Len(f.order)
  BY <1>2 DEF Last
<1>5. f.order[Pos(f, c) + 1] = b
  BY DEF NextOf
<1> DEFINE k == Pos(f, c)
<1>6. Pos(f, f.order[k + 1]) = k + 1 /\ Pos(f, f.order[p + 1]) = p + 1
  <2>1. k + 1 \in 1 .. Len(f.order) /\ p + 1 \in 1 .. Len(f.order)
    BY <1>2, <1>3, <1>4
  <2> QED BY <1>2, <2>1
<1>7. k = p
  <2>1. k + 1 = p + 1
    BY <1>3, <1>5, <1>6
  <2> HIDE DEF k
  <2>2. k \in Nat
    BY <1>2 DEF k
  <2> QED BY <2>1, <2>2
<1> QED BY <1>2, <1>3, <1>7

\* What is known with the store: in front of it what was known behind c, but of
\* the home that is stored to.
RegWithStore(e, f, n, tm, U, D, c, R, M) ==
  [a \in Nat |->
     IF a = n + 1 THEN [x \in Nat |-> {q \in Sources : RegAfter(e, f, tm, U, D, R, M, c, x, q)}]
     ELSE R[a]]
MemWithStore(e, f, n, c, j, M) ==
  [a \in Nat |->
     IF a = n + 1
       THEN [h \in Homes |-> IF h = HomeIn(e, j) THEN {} ELSE {q \in M[c][h] : Unchanged(e, f, c, q)}]
     ELSE M[a]]

\* The instruction that defines the register.
LEMMA DefinerIs ==
  ASSUME NEW n, NEW f, Sound(f, n), NEW c \in 1 .. n,
         NEW e, NEW tm, NEW U, NEW D, Fits(e, f, tm, U, D), NEW j, Defines(e, f, D, c, j)
  PROVE  /\ j \in DOMAIN e.info /\ j \in e.spill /\ j \in Nat /\ j # None /\ e.passes # 0
         /\ HomeIn(e, j) \in Homes /\ j < f.tmp
         /\ \/ f.code[c].op = "load" /\ VarIn(e, j) = None
            \/ /\ f.code[c].op \in {"op", "call"} /\ c \in Originals(e) /\ AsWas(e, f, c)
               /\ VarIn(e, j) \in {None, Was(e, c).dst}
            \/ /\ f.code[c].op = "reg_store" /\ c \in Originals(e) /\ AsWas(e, f, c)
               /\ VarIn(e, j) \in {None, Was(e, c).dst}
<1>1. n \in Nat /\ Ids(f) = 1 .. n
  BY SoundCode
<1>2. PassOK(e) /\ PlacesOK(e, tm) /\ Shape(e, f, tm)
  BY DEF Fits
<1>3. f.code[c].dst = j /\ f.code[c].op # "receive" /\ j \in e.spill
  BY DEF Defines, Fits
<1>4. j \in DOMAIN e.info /\ j \in Nat /\ e.passes # 0
  BY <1>2, <1>3 DEF PassOK
<1>5. j # None
  BY <1>4, ValAssumption
<1>6. HomeIn(e, j) \in Homes /\ j < f.tmp
  BY <1>2, <1>4, HomeType DEF Fits
<1>7. /\ f.code[c].op \in {"load", "store"} => AsSpilled(e, f, tm, c)
      /\ f.code[c].op = "push_arg" => AsReceived(e, f, tm, c)
      /\ f.code[c].op \in SourceOps => /\ c \in Originals(e) /\ AsWas(e, f, c)
                                       /\ c - 1 \in 1 .. Len(e.src) /\ BodyInstr(e.src, c - 1)
      /\ f.code[c].op \in SourceOps \cup {"load", "store", "push_arg", "frame"}
  BY <1>2, Kinds
<1>8. f.code[c].op \notin {"store", "push_arg"}
  BY <1>3, <1>5, <1>7 DEF AsSpilled, AsReceived
<1>9. f.code[c].op # "frame"
  <2>1. SUFFICES ASSUME f.code[c].op = "frame" PROVE FALSE
    OBVIOUS
  <2>2. Len(f.code) = n /\ Len(e.src) \in Nat
    BY SoundCode, <1>2, BodyFacts DEF PassOK
  <2>3. c \notin {1, Len(e.src) + 2}
    BY <1>2, <1>3, <1>5 DEF Shape
  <2>4. c \notin Originals(e)
    <3>1. ASSUME c \in Originals(e) PROVE FALSE
      <4>1. AsWas(e, f, c)
        BY <1>2, <2>1, <3>1 DEF Shape, AsReceived
      <4>2. Was(e, c).op \in SourceOps
        <5>1. c - 1 \in 1 .. Len(e.src)
          BY <1>2, <3>1, Kinds
        <5> QED BY <1>2, <5>1, BodyFacts DEF PassOK, BodyInstr, Was
      <4> QED BY <2>1, <4>1, <4>2 DEF AsWas, SourceOps, Branches
    <3> QED BY <3>1
  <2>5. c \in Len(e.src) + 3 .. Len(f.code)
    BY <1>1, <2>2, <2>3, <2>4 DEF Originals
  <2>6. AsSpilled(e, f, tm, c)
    BY <1>2, <2>5 DEF Shape
  <2> QED BY <2>1, <2>6 DEF AsSpilled
<1>10. f.code[c].op \notin Branches
  <2>1. SUFFICES ASSUME f.code[c].op \in Branches PROVE FALSE
    OBVIOUS
  <2>2. f.code[c].op \in SourceOps
    BY <2>1 DEF SourceOps
  <2>3. Was(e, c).op = f.code[c].op /\ Was(e, c).dst # None
    BY <1>3, <1>5, <1>7, <2>2 DEF AsWas
  <2> QED BY <1>7, <2>1, <2>2, <2>3 DEF BodyInstr, Was
<1>11. CASE f.code[c].op = "load"
  BY <1>3, <1>4, <1>5, <1>6, <1>7, <1>11 DEF AsSpilled
<1>12. CASE f.code[c].op \in {"op", "call", "reg_store"}
  <2>1. f.code[c].op \in SourceOps
    BY <1>12 DEF SourceOps
  <2>2. c \in Originals(e) /\ AsWas(e, f, c)
    BY <1>7, <2>1
  <2>3. VarIn(e, j) \in {None, Was(e, c).dst}
    BY <1>3, <1>5, <2>2 DEF AsWas
  <2> QED BY <1>4, <1>5, <1>6, <1>3, <1>12, <2>2, <2>3
<1>13. f.code[c].op \in {"load", "op", "call", "reg_store"}
  BY <1>3, <1>7, <1>8, <1>9, <1>10 DEF SourceOps
<1> QED BY <1>11, <1>12, <1>13

\* What is known behind the instruction, of its register and of the others.
LEMMA BehindDefiner ==
  ASSUME NEW n, NEW f, Sound(f, n), NEW c \in 1 .. n,
         NEW e, NEW tm, NEW U, NEW D, Fits(e, f, tm, U, D), NEW j, Defines(e, f, D, c, j),
         NEW R, NEW M, Describes(e, f, tm, U, D, R, M), NEW q
  PROVE  /\ MemAfter(e, f, tm, U, D, R, M, c, HomeIn(e, j), q) =>
              RegAfter(e, f, tm, U, D, R, M, c, j, q)
         /\ \A h : h # HomeIn(e, j) /\ MemAfter(e, f, tm, U, D, R, M, c, h, q) =>
              q \in M[c][h] /\ Unchanged(e, f, c, q)
         /\ \A x \in Nat : RegAfter(e, f, tm, U, D, R, M, c, x, q) =>
              VarIn(e, x) \in {None, q} /\ x < f.tmp
         /\ \A x : x # j => (RegAfter(e, f, tm, U, D, R, M, c, x, q)
                               <=> q \in R[c][x] /\ Unchanged(e, f, c, q))
         /\ VarIn(e, j) = q /\ q # None /\ <<c, j>> \notin U => RegAfter(e, f, tm, U, D, R, M, c, j, q)
<1>1. /\ j \in DOMAIN e.info /\ j \in e.spill /\ j \in Nat /\ j # None
      /\ HomeIn(e, j) \in Homes /\ j < f.tmp
      /\ \/ f.code[c].op = "load" /\ VarIn(e, j) = None
         \/ /\ f.code[c].op \in {"op", "call"} /\ c \in Originals(e) /\ AsWas(e, f, c)
            /\ VarIn(e, j) \in {None, Was(e, c).dst}
         \/ /\ f.code[c].op = "reg_store" /\ c \in Originals(e) /\ AsWas(e, f, c)
            /\ VarIn(e, j) \in {None, Was(e, c).dst}
  BY DefinerIs
<1>2. /\ f.code[c].dst = j /\ f.code[c].op # "receive" /\ <<c, j>> \in D
      /\ f.code[c].op = "reg_store" => ~Received(e, j)
  BY DEF Defines
<1>3. n \in Nat /\ Ids(f) = 1 .. n
  BY SoundCode
<1>4. InBoth(e, f, R, M) /\ Owned(e, f, R, M) /\ OperandsKnown(e, f, U, R, M)
  BY DEF Describes
<1>5. Writes(f.code[c]) <=> f.code[c].op # "reg_store"
  BY <1>1, <1>2 DEF Writes
<1>6. \A h : ToHome(e, f, tm, D, c, h) <=> f.code[c].op # "reg_store" /\ h = HomeIn(e, j)
  BY <1>1, <1>2, <1>5 DEF ToHome
<1>7. ASSUME MemAfter(e, f, tm, U, D, R, M, c, HomeIn(e, j), q)
      PROVE  RegAfter(e, f, tm, U, D, R, M, c, j, q)
  <2>1. CASE f.code[c].op = "reg_store"
    <3>1. q \in M[c][HomeIn(e, j)] /\ Unchanged(e, f, c, q)
      BY <1>6, <1>7, <2>1 DEF MemAfter
    <3>2. q \in R[c][j]
      BY <1>1, <1>2, <1>3, <1>4, <2>1, <3>1 DEF InBoth
    <3> QED BY <1>5, <2>1, <3>1, <3>2 DEF RegAfter
  <2>2. CASE f.code[c].op # "reg_store"
    <3>1. Written(e, f, tm, U, R, M, c, q)
      BY <1>6, <1>7, <2>2 DEF MemAfter
    <3> QED BY <1>2, <1>5, <2>2, <3>1 DEF RegAfter
  <2> QED BY <2>1, <2>2
<1>8. ASSUME NEW h, h # HomeIn(e, j), MemAfter(e, f, tm, U, D, R, M, c, h, q)
      PROVE  q \in M[c][h] /\ Unchanged(e, f, c, q)
  BY <1>6, <1>8 DEF MemAfter
<1>9. \A x : x # j => (RegAfter(e, f, tm, U, D, R, M, c, x, q)
                         <=> q \in R[c][x] /\ Unchanged(e, f, c, q))
  BY <1>2 DEF RegAfter
<1>10. \A x \in Nat : q \in R[c][x] => VarIn(e, x) \in {None, q} /\ x < f.tmp
  BY <1>3, <1>4 DEF Owned
<1>11. ASSUME NEW x \in Nat, RegAfter(e, f, tm, U, D, R, M, c, x, q)
       PROVE  VarIn(e, x) \in {None, q} /\ x < f.tmp
  <2>1. CASE x = j /\ f.code[c].op # "reg_store"
    <3>1. Written(e, f, tm, U, R, M, c, q)
      BY <1>2, <1>5, <1>11, <2>1 DEF RegAfter
    <3>2. f.code[c].op # "load" => q = Was(e, c).dst
      BY <1>1, <3>1 DEF Written
    <3> QED BY <1>1, <2>1, <3>2
  <2>2. CASE ~(x = j /\ f.code[c].op # "reg_store")
    <3>1. q \in R[c][x]
      BY <1>2, <1>5, <1>11, <2>2 DEF RegAfter
    <3> QED BY <1>10, <3>1
  <2> QED BY <2>1, <2>2
<1>12. ASSUME VarIn(e, j) = q, q # None, <<c, j>> \notin U
       PROVE  RegAfter(e, f, tm, U, D, R, M, c, j, q)
  <2>1. f.code[c].op # "load" /\ Was(e, c).dst = q /\ c \in Originals(e)
    BY <1>1, <1>12
  <2>2. CASE f.code[c].op = "reg_store"
    <3>1. Known(e, U, R, M, c, j, q)
      BY <1>2, <1>4, <2>1, <2>2 DEF OperandsKnown
    <3>2. q \in R[c][j]
      BY <1>12, <3>1 DEF Known
    <3> QED BY <1>5, <2>2, <3>2 DEF RegAfter, Unchanged, Gives
  <2>3. CASE f.code[c].op # "reg_store"
    <3>1. Written(e, f, tm, U, R, M, c, q)
      BY <1>1, <2>1, <2>3 DEF Written
    <3> QED BY <1>2, <1>5, <2>3, <3>1 DEF RegAfter
  <2> QED BY <2>2, <2>3
<1> QED BY <1>7, <1>8, <1>9, <1>11, <1>12

\* The values are still known with the store.
LEMMA StoreDescribed ==
  ASSUME NEW n, NEW f, NEW g, NEW c \in 1 .. n, NEW j, NEW slot, NewStore(f, n, g, c, j, slot),
         NEW e, NEW tm, NEW U, NEW D, Fits(e, f, tm, U, D), slot \in Locations(tm),
         Entry(tm, slot) = HomeIn(e, j), Defines(e, f, D, c, j), <<c, j>> \notin U,
         NEW R, NEW M, Describes(e, f, tm, U, D, R, M)
  PROVE  Describes(e, g, tm, U, D \ {<<c, j>>}, RegWithStore(e, f, n, tm, U, D, c, R, M),
                   MemWithStore(e, f, n, c, j, M))
<1> DEFINE S == RegWithStore(e, f, n, tm, U, D, c, R, M)
           N == MemWithStore(e, f, n, c, j, M)
           E == D \ {<<c, j>>}
           next == NextOf(f, c)
<1>1. /\ Sound(f, n) /\ Sound(g, n + 1) /\ WithNew(f, n, g, Pos(f, c) + 1)
      /\ f.order[Pos(f, c) + 1] = next /\ c # Last(f.order)
  BY DEF NewStore, WithNew
<1>2. n \in Nat /\ Ids(f) = 1 .. n /\ Len(f.code) = n /\ f.tmp \in Nat /\ Built(f, n)
      /\ \A a \in 1 .. n : \A l \in DOMAIN f.code[a].src : f.code[a].src[l] \in Nat
  BY <1>1, SoundCode DEF Sound
<1>3. Ids(g) = 1 .. n + 1
  <2> DEFINE m == n + 1
  <2>1. Sound(g, m)
    BY <1>1
  <2> HIDE DEF m
  <2>2. Ids(g) = 1 .. m
    BY <2>1, SoundCode
  <2> QED BY <2>2 DEF m
<1>4. PassOK(e) /\ PlacesOK(e, tm) /\ Shape(e, f, tm)
  BY DEF Fits
<1>5. /\ j \in DOMAIN e.info /\ j \in e.spill /\ j \in Nat /\ j # None /\ e.passes # 0
      /\ HomeIn(e, j) \in Homes
      /\ f.code[c].op \in {"load", "op", "call", "reg_store"}
  BY <1>1, DefinerIs
<1>6. R \in RegFacts /\ M \in MemFacts /\ Flow(e, f, tm, U, D, R, M)
      /\ OperandsKnown(e, f, U, R, M) /\ StoresKnown(e, f, tm, U, R, M)
      /\ InBoth(e, f, R, M) /\ Owned(e, f, R, M)
  BY DEF Describes
<1>7. /\ f.code[c].dst = j /\ f.code[c].op # "receive" /\ <<c, j>> \in D
      /\ f.code[c].op = "reg_store" => ~Received(e, j)
  BY DEF Defines
<1> HIDE DEF next
<1>8. /\ n + 1 \in Nat /\ \A a \in 1 .. n : a \in Nat /\ a # n + 1
      /\ \A a \in 1 .. n + 1 : a = n + 1 \/ a \in 1 .. n
  BY <1>2
<1>9. M[c] \in [Homes -> SUBSET Sources]
  BY <1>6, <1>8 DEF MemFacts
<1>10. S \in RegFacts /\ N \in MemFacts
  <2>1. [x \in Nat |-> {q \in Sources : RegAfter(e, f, tm, U, D, R, M, c, x, q)}]
           \in [Nat -> SUBSET Sources]
    OBVIOUS
  <2>2. [h \in Homes |-> IF h = HomeIn(e, j) THEN {} ELSE {q \in M[c][h] : Unchanged(e, f, c, q)}]
           \in [Homes -> SUBSET Sources]
    BY <1>9
  <2> QED BY <1>6, <2>1, <2>2 DEF RegFacts, MemFacts, RegWithStore, MemWithStore
<1>11. /\ \A a \in 1 .. n : S[a] = R[a] /\ N[a] = M[a]
       /\ \A x \in Nat : \A q : q \in S[n + 1][x] <=>
            q \in Sources /\ RegAfter(e, f, tm, U, D, R, M, c, x, q)
       /\ \A h \in Homes : \A q : q \in N[n + 1][h] <=>
            h # HomeIn(e, j) /\ q \in M[c][h] /\ Unchanged(e, f, c, q)
  <2>1. \A a \in 1 .. n : S[a] = R[a] /\ N[a] = M[a]
    BY <1>8 DEF RegWithStore, MemWithStore
  <2>2. S[n + 1] = [x \in Nat |-> {q \in Sources : RegAfter(e, f, tm, U, D, R, M, c, x, q)}]
    BY <1>8 DEF RegWithStore
  <2>3. N[n + 1] = [h \in Homes |-> IF h = HomeIn(e, j) THEN {}
                                    ELSE {q \in M[c][h] : Unchanged(e, f, c, q)}]
    BY <1>8 DEF MemWithStore
  <2> QED BY <2>1, <2>2, <2>3
<1>13. \A y : <<n + 1, y>> \notin D /\ <<n + 1, y>> \notin U /\ <<n + 1, y>> \notin E
  <2>1. D \subseteq (1 .. n) \X e.spill /\ U \subseteq (1 .. n) \X e.spill
    BY <1>2 DEF Fits
  <2> QED BY <1>8, <2>1
<1>14. <<c, j>> \notin E
  OBVIOUS
<1> HIDE DEF S, N, E
<1>15. \A a \in 1 .. n : g.code[a] = f.code[a]
  BY DEF NewStore
<1>16. \A a \in 1 .. n : \A x, q : Known(e, U, R, M, a, x, q) <=> Known(e, U, S, N, a, x, q)
  BY <1>11 DEF Known
<1>17. ASSUME NEW a \in 1 .. n, a # c, NEW q
       PROVE  /\ \A x \in Nat : RegAfter(e, f, tm, U, D, R, M, a, x, q)
                           => RegAfter(e, g, tm, U, E, S, N, a, x, q)
              /\ \A h \in Homes : MemAfter(e, f, tm, U, D, R, M, a, h, q)
                           => MemAfter(e, g, tm, U, E, S, N, a, h, q)
  <2>1. SameThere(f, tm, g, tm, a)
    BY <1>15 DEF SameThere
  <2>2. f.code[a].op = "store" =>
          (Known(e, U, R, M, a, f.code[a].src[1], q) => Known(e, U, S, N, a, g.code[a].src[1], q))
    BY <1>15, <1>16
  <2>3. /\ \A h \in Homes : q \in M[a][h] => q \in N[a][h]
        /\ <<a, f.code[a].dst>> \in D <=> <<a, f.code[a].dst>> \in E
    <3>1. N[a] = M[a]
      BY <1>11
    <3>2. <<a, f.code[a].dst>> \in D <=> <<a, f.code[a].dst>> \in E
      BY <1>17 DEF E
    <3> QED BY <3>1, <3>2
  <2>4. f.code[a].op = "load" => Entry(tm, f.code[a].slot) \in Homes
    BY <1>1, <1>4, Kinds
  <2>5. /\ \A x : RegAfter(e, f, tm, U, D, R, M, a, x, q) /\ (q \in R[a][x] => q \in S[a][x])
                     => RegAfter(e, g, tm, U, E, S, N, a, x, q)
        /\ \A h \in Homes : MemAfter(e, f, tm, U, D, R, M, a, h, q)
                     => MemAfter(e, g, tm, U, E, S, N, a, h, q)
    BY <2>1, <2>2, <2>3, <2>4, AfterSame
  <2> QED BY <1>11, <2>5
<1>18. /\ g.code[n + 1].op = "store" /\ g.code[n + 1].src[1] = j /\ g.code[n + 1].slot = slot
       /\ ~Gives(g.code[n + 1]) /\ ~Writes(g.code[n + 1])
  BY DEF NewStore, Gives, Writes
<1>19. ASSUME NEW q
       PROVE  /\ MemAfter(e, f, tm, U, D, R, M, c, HomeIn(e, j), q) =>
                   RegAfter(e, f, tm, U, D, R, M, c, j, q)
              /\ \A h : h # HomeIn(e, j) /\ MemAfter(e, f, tm, U, D, R, M, c, h, q) =>
                   q \in M[c][h] /\ Unchanged(e, f, c, q)
              /\ \A x \in Nat : RegAfter(e, f, tm, U, D, R, M, c, x, q) =>
                   VarIn(e, x) \in {None, q} /\ x < f.tmp
              /\ \A x : x # j => (RegAfter(e, f, tm, U, D, R, M, c, x, q)
                                    <=> q \in R[c][x] /\ Unchanged(e, f, c, q))
              /\ VarIn(e, j) = q /\ q # None /\ <<c, j>> \notin U
                   => RegAfter(e, f, tm, U, D, R, M, c, j, q)
  <2>1. /\ Sound(f, n) /\ c \in 1 .. n /\ Fits(e, f, tm, U, D)
        /\ Defines(e, f, D, c, j) /\ Describes(e, f, tm, U, D, R, M)
    BY <1>1
  <2> QED BY ONLY <2>1, BehindDefiner
<1>20. Flow(e, g, tm, U, E, S, N)
  <2> SUFFICES ASSUME NEW a \in 1 .. n + 1, NEW b \in 1 .. n + 1, Goes(g, a, b)
               PROVE  /\ \A x \in Nat : \A q \in S[b][x] : RegAfter(e, g, tm, U, E, S, N, a, x, q)
                      /\ \A h \in Homes : \A q \in N[b][h] : MemAfter(e, g, tm, U, E, S, N, a, h, q)
    BY <1>3 DEF Flow
  <2>1. \/ a = n + 1 /\ b = next
        \/ a \in 1 .. n /\ b = n + 1 /\ FallsTo(f, a, next)
        \/ /\ a \in 1 .. n /\ b \in 1 .. n /\ Goes(f, a, b) /\ (b = next => JumpsTo(f, a, b))
    BY <1>1, NewGoes
  <2>2. \A z, y \in 1 .. n : Goes(f, z, y) =>
           /\ \A x \in Nat : \A q \in R[y][x] : RegAfter(e, f, tm, U, D, R, M, z, x, q)
           /\ \A h \in Homes : \A q \in M[y][h] : MemAfter(e, f, tm, U, D, R, M, z, h, q)
    BY <1>2, <1>6 DEF Flow
  <2>3. next \in 1 .. n /\ Goes(f, c, next)
    <3>1. /\ Len(f.order) \in Nat /\ DOMAIN f.order = 1 .. Len(f.order)
          /\ \A p \in 1 .. Len(f.order) : f.order[p] \in 1 .. n
      BY <1>2, OrderPlaces
    <3>2. Pos(f, c) + 1 \in DOMAIN f.order
      BY <1>1 DEF WithNew
    <3>3. next \in 1 .. n
      BY <1>1, <3>1, <3>2
    <3>4. Before(f.order, c, next)
      BY <1>1, <1>2, <3>3, BeforeNext DEF next
    <3>5. f.code[c].op # "jump"
      BY <1>5
    <3> QED BY <3>3, <3>4, <3>5 DEF Goes, FallsTo
  <2>4. CASE a = n + 1 /\ b = next
    <3>1. ASSUME NEW x \in Nat, NEW q \in S[next][x]
          PROVE  RegAfter(e, g, tm, U, E, S, N, n + 1, x, q)
      <4>1. q \in R[next][x]
        BY <1>11, <2>3, <3>1
      <4>2. RegAfter(e, f, tm, U, D, R, M, c, x, q)
        BY <2>2, <2>3, <4>1
      <4>3. q \in Sources
        BY <1>6, <1>8, <2>3, <4>1 DEF RegFacts
      <4>4. q \in S[n + 1][x]
        BY <1>11, <4>2, <4>3
      <4> QED BY <1>18, <4>4 DEF RegAfter, Unchanged
    <3>2. ASSUME NEW h \in Homes, NEW q \in N[next][h]
          PROVE  MemAfter(e, g, tm, U, E, S, N, n + 1, h, q)
      <4>1. q \in M[next][h]
        BY <1>11, <2>3, <3>2
      <4>2. MemAfter(e, f, tm, U, D, R, M, c, h, q)
        BY <2>2, <2>3, <4>1
      <4>3. q \in Sources
        BY <1>6, <1>8, <2>3, <4>1 DEF MemFacts
      <4>4. ToHome(e, g, tm, E, n + 1, h) <=> h = HomeIn(e, j)
        BY <1>18 DEF ToHome
      <4>5. CASE h = HomeIn(e, j)
        <5>1. RegAfter(e, f, tm, U, D, R, M, c, j, q)
          BY <1>19, <4>2, <4>5
        <5>2. q \in S[n + 1][j]
          BY <1>5, <1>11, <4>3, <5>1
        <5>3. Written(e, g, tm, U, S, N, n + 1, q)
          BY <1>13, <1>18, <5>2 DEF Written, Known
        <5> QED BY <4>4, <4>5, <5>3 DEF MemAfter
      <4>6. CASE h # HomeIn(e, j)
        <5>1. q \in N[n + 1][h]
          BY <1>11, <1>19, <4>2, <4>6
        <5> QED BY <1>18, <4>4, <4>6, <5>1 DEF MemAfter, Unchanged
      <4> QED BY <4>5, <4>6
    <3> QED BY <2>4, <3>1, <3>2
  <2>5. CASE a \in 1 .. n /\ b = n + 1 /\ FallsTo(f, a, next)
    <3>1. a = c
      BY <1>1, <2>5, FallsFrom DEF next
    <3>2. S[c] = R[c] /\ N[c] = M[c] /\ g.code[c] = f.code[c]
      BY <1>11, <1>15
    <3>3. \A q : Written(e, f, tm, U, R, M, c, q) <=> Written(e, g, tm, U, S, N, c, q)
      BY <1>5, <3>2 DEF Written
    <3>4. \A q : Unchanged(e, f, c, q) <=> Unchanged(e, g, c, q)
      BY <3>2 DEF Unchanged
    <3>5. ASSUME NEW x \in Nat, NEW q \in S[n + 1][x]
          PROVE  RegAfter(e, g, tm, U, E, S, N, c, x, q)
      <4>1. RegAfter(e, f, tm, U, D, R, M, c, x, q)
        BY <1>11, <3>5
      <4> QED BY <1>7, <3>2, <3>3, <3>4, <4>1 DEF RegAfter
    <3>6. ASSUME NEW h \in Homes, NEW q \in N[n + 1][h]
          PROVE  MemAfter(e, g, tm, U, E, S, N, c, h, q)
      <4>1. q \in M[c][h] /\ Unchanged(e, f, c, q)
        BY <1>11, <3>6
      <4>2. ~ToHome(e, g, tm, E, c, h)
        BY <1>5, <1>7, <1>14, <3>2 DEF ToHome
      <4> QED BY <3>2, <3>4, <4>1, <4>2 DEF MemAfter
    <3> QED BY <2>5, <3>1, <3>5, <3>6
  <2>6. CASE a \in 1 .. n /\ b \in 1 .. n /\ Goes(f, a, b) /\ (b = next => JumpsTo(f, a, b))
    <3>1. a # c
      <4>1. SUFFICES ASSUME a = c PROVE FALSE
        OBVIOUS
      <4>2. ~JumpsTo(f, a, b)
        BY <1>5, <4>1 DEF JumpsTo, Branches
      <4>3. FallsTo(f, a, b)
        BY <2>6, <4>2 DEF Goes
      <4>4. b = next
        BY <1>1, <2>6, <4>1, <4>3, FallsOn DEF next
      <4> QED BY <2>6, <4>2, <4>4
    <3>2. S[b] = R[b] /\ N[b] = M[b]
      BY <1>11, <2>6
    <3> QED BY <1>17, <2>2, <2>6, <3>1, <3>2
  <2> QED BY <2>1, <2>4, <2>5, <2>6
<1>21. OperandsKnown(e, g, U, S, N)
  <2>1. Originals(e) \subseteq 1 .. n
    BY <1>1, <1>4, Kinds
  <2> QED BY <1>6, <1>15, <1>16, <2>1 DEF OperandsKnown
<1>22. StoresKnown(e, g, tm, U, S, N)
  <2> SUFFICES ASSUME NEW a \in 1 .. n + 1, g.code[a].op = "store",
                      NEW v \in VarRegs, Entry(tm, g.code[a].slot) = <<v, 0>>
               PROVE  Known(e, U, S, N, a, g.code[a].src[1], v)
    BY <1>3 DEF StoresKnown
  <2>1. CASE a \in 1 .. n
    BY <1>2, <1>6, <1>15, <1>16, <2>1 DEF StoresKnown
  <2>2. CASE a = n + 1
    <3>1. HomeIn(e, j) = <<v, 0>>
      BY <1>18, <2>2
    <3>2. VarIn(e, j) = v
      <4>1. /\ e.info[j].var # None => HomeIn(e, j) = <<e.info[j].var, 0>>
            /\ e.info[j].var = None => HomeIn(e, j) = <<e.info[j].key, e.passes>>
            /\ VarIn(e, j) = e.info[j].var
        BY <1>4, <1>5, HomeType
      <4> QED BY <1>5, <3>1, <4>1
    <3>3. v \in Sources /\ v # None
      BY RegsAssumption, ValAssumption DEF Sources
    <3>4. v \in S[n + 1][j]
      BY <1>5, <1>11, <1>19, <3>2, <3>3
    <3> QED BY <1>13, <1>18, <2>2, <3>4 DEF Known
  <2> QED BY <1>8, <2>1, <2>2
<1>23. InBoth(e, g, S, N)
  <2> SUFFICES ASSUME NEW x \in DOMAIN e.info, NEW a \in 1 .. n + 1,
                      ~Received(e, x), e.info[x].var # None \/ x \in e.spill,
                      NEW q \in N[a][HomeIn(e, x)]
               PROVE  q \in S[a][x]
    BY <1>3 DEF InBoth
  <2>1. \A b \in 1 .. n : M[b][HomeIn(e, x)] \subseteq R[b][x]
    BY <1>2, <1>6 DEF InBoth
  <2>2. x \in Nat /\ HomeIn(e, x) \in Homes
    BY <1>4, HomeType DEF PassOK
  <2>3. CASE a \in 1 .. n
    BY <1>11, <2>1, <2>3
  <2>4. CASE a = n + 1
    <3>1. HomeIn(e, x) # HomeIn(e, j) /\ q \in M[c][HomeIn(e, x)] /\ Unchanged(e, f, c, q)
      BY <1>11, <2>2, <2>4
    <3>2. x # j
      BY <3>1
    <3>3. q \in R[c][x]
      BY <2>1, <3>1
    <3>4. q \in Sources
      BY <1>9, <2>2, <3>1
    <3> QED BY <1>11, <1>19, <2>2, <2>4, <3>1, <3>2, <3>3, <3>4
  <2> QED BY <1>8, <2>3, <2>4
<1>24. Owned(e, g, S, N)
  <2>1. g.tmp = f.tmp
    BY DEF NewStore
  <2>2. \A a \in 1 .. n :
          /\ \A x \in Nat : \A q \in R[a][x] : VarIn(e, x) \in {None, q} /\ x < f.tmp
          /\ \A r, p \in Nat : \A q \in M[a][<<r, p>>] : (p = 0 => r = q) /\ p <= e.passes
    BY <1>2, <1>6 DEF Owned
  <2>3. ASSUME NEW a \in 1 .. n + 1, NEW x \in Nat, NEW q \in S[a][x]
        PROVE  VarIn(e, x) \in {None, q} /\ x < f.tmp
    BY <1>8, <1>11, <1>19, <2>2, <2>3
  <2>4. ASSUME NEW a \in 1 .. n + 1, NEW r \in Nat, NEW p \in Nat, NEW q \in N[a][<<r, p>>]
        PROVE  (p = 0 => r = q) /\ p <= e.passes
    <3>1. <<r, p>> \in Homes
      BY DEF Homes
    <3>2. \E b \in 1 .. n : q \in M[b][<<r, p>>]
      BY <1>8, <1>11, <2>4, <3>1
    <3> QED BY <2>2, <3>2
  <2> QED BY <1>3, <2>1, <2>3, <2>4 DEF Owned
<1> QED BY <1>10, <1>20, <1>21, <1>22, <1>23, <1>24 DEF Describes, S, N, E

----------------------------------------------------------------------------
(* A received argument is pushed *)

\* The receive of j at c becomes a push to its home.
NewPush(f, n, g, c, j, slot) ==
  /\ Sound(f, n) /\ Sound(g, n) /\ g.order = f.order /\ g.tmp = f.tmp
  /\ f.code[c].op = "receive" /\ f.code[c].dst = j
  /\ g.code[c].op = "push_arg" /\ g.code[c].src = <<>> /\ g.code[c].dst = None
  /\ g.code[c].slot = slot
  /\ \A a \in 1 .. n : a # c => g.code[a] = f.code[a]

\* That is what PushArg makes.
LEMMA PushIsNew ==
  ASSUME NEW n, NEW f, Sound(f, n), NEW c \in 1 .. n, f.code[c].op = "receive",
         NEW slot \in Slots,
         NEW g, g = [f EXCEPT !.code[c] = [Ins("push_arg", <<>>, None, 0) EXCEPT !.slot = slot]]
  PROVE  NewPush(f, n, g, c, f.code[c].dst, slot)
<1> DEFINE ins == [Ins("push_arg", <<>>, None, 0) EXCEPT !.slot = slot]
<1>1. n \in Nat /\ Built(f, n) /\ f \in Fns(1 .. n) /\ f.code \in [1 .. n -> Instr]
  BY SoundCode DEF Sound, Built, Fns
<1>2. ins = [op |-> "push_arg", src |-> <<>>, dst |-> None, jump |-> 0, slot |-> slot]
  BY DEF Ins
<1>3. ins \in Instr /\ ins.op = "push_arg" /\ ins.op \notin Branches /\ ins.src = <<>>
      /\ ins.dst = None /\ ins.slot = slot
  <2>1. "push_arg" \in Ops /\ <<>> \in Seq(Nat) /\ "push_arg" \notin Branches
    BY DEF Ops, Branches
  <2> HIDE DEF ins
  <2> QED BY <1>2, <2>1 DEF Instr
<1>4. g = [f EXCEPT !.code[c] = ins]
  OBVIOUS
<1> HIDE DEF ins
<1>5. Sound(g, n)
  <2>1. f.code[c].op \notin Branches
    BY DEF Branches
  <2> QED BY <1>3, <1>4, <2>1, PushStep
<1>6. g.order = f.order /\ g.tmp = f.tmp /\ g.code = [f.code EXCEPT ![c] = ins]
  BY <1>1, <1>4 DEF Fns
<1>7. g.code[c] = ins /\ \A a \in 1 .. n : a # c => g.code[a] = f.code[a]
  BY <1>1, <1>6
<1> QED BY <1>3, <1>5, <1>6, <1>7 DEF NewPush

\* With the push the function still fits its pass, and the values are still known.
LEMMA PushDescribed ==
  ASSUME NEW n, NEW f, NEW g, NEW c \in 1 .. n, NEW j, NEW slot, NewPush(f, n, g, c, j, slot),
         NEW e, NEW tm, NEW U, NEW D, Fits(e, f, tm, U, D), slot \in Locations(tm),
         Entry(tm, slot) = HomeIn(e, j), <<c, j>> \in D,
         NEW R, NEW M, Describes(e, f, tm, U, D, R, M)
  PROVE  /\ Fits(e, g, tm, U, D \ {<<c, j>>})
         /\ Describes(e, g, tm, U, D \ {<<c, j>>}, R, M)
<1> DEFINE E == D \ {<<c, j>>}
<1>1. /\ Sound(f, n) /\ Sound(g, n) /\ g.order = f.order /\ g.tmp = f.tmp
      /\ f.code[c].op = "receive" /\ f.code[c].dst = j
      /\ g.code[c].op = "push_arg" /\ g.code[c].src = <<>> /\ g.code[c].dst = None
      /\ g.code[c].slot = slot
      /\ \A a \in 1 .. n : a # c => g.code[a] = f.code[a]
  BY DEF NewPush
<1>2. n \in Nat /\ Ids(f) = 1 .. n /\ Ids(g) = 1 .. n /\ Len(f.code) = n /\ Len(g.code) = n
  BY <1>1, SoundCode
<1>3. PassOK(e) /\ PlacesOK(e, tm) /\ Shape(e, f, tm)
  BY DEF Fits
<1>4. R \in RegFacts /\ M \in MemFacts /\ Flow(e, f, tm, U, D, R, M)
      /\ OperandsKnown(e, f, U, R, M) /\ StoresKnown(e, f, tm, U, R, M)
      /\ InBoth(e, f, R, M) /\ Owned(e, f, R, M)
  BY DEF Describes
<1>5. /\ c \in Originals(e) /\ AsWas(e, f, c) /\ Len(e.src) \in Nat /\ Originals(e) \subseteq 1 .. n
      /\ BodyInstr(e.src, c - 1)
  BY <1>1, <1>3, Kinds DEF SourceOps
<1>6. j \in DOMAIN e.info /\ j \in Nat /\ j # None
  <2>1. j \in e.spill
    BY DEF Fits
  <2> QED BY <1>3, <2>1, ValAssumption DEF PassOK
<1>7. Was(e, c).op = "receive" /\ VarIn(e, j) = Was(e, c).dst /\ Was(e, c).dst \in VarRegs
  BY <1>1, <1>5 DEF AsWas, BodyInstr, Was
<1>8. HomeIn(e, j) = <<Was(e, c).dst, 0>>
  <2>1. Was(e, c).dst # None
    BY <1>7, RegsAssumption, ValAssumption DEF Sources
  <2> QED BY <1>3, <1>6, <1>7, <2>1, HomeType
<1>9. \A a : Pos(g, a) = Pos(f, a)
  BY <1>1 DEF Pos
<1>10. /\ \A a, y : a # c => (<<a, y>> \in D <=> <<a, y>> \in E)
       /\ E \subseteq D
  OBVIOUS
<1> HIDE DEF E
<1>11. Shape(e, g, tm)
  <2>1. Len(e.src) + 2 <= n /\ f.order[1] = 1
    BY <1>2, <1>3 DEF Shape
  <2>2. ASSUME NEW a \in {1, Len(e.src) + 2}
        PROVE  g.code[a].op = "frame" /\ g.code[a].src = <<>> /\ g.code[a].dst = None
    <3>1. a # c /\ a \in 1 .. n
      BY <1>2, <1>5, <2>1 DEF Originals
    <3> QED BY <1>1, <1>3, <3>1 DEF Shape
  <2>3. ASSUME NEW a \in Originals(e) PROVE AsWas(e, g, a) \/ AsReceived(e, g, tm, a)
    <3>1. CASE a = c
      BY <1>1, <1>7, <1>8, <3>1 DEF AsReceived
    <3>2. CASE a # c
      <4>1. g.code[a] = f.code[a]
        BY <1>1, <1>5, <3>2
      <4> QED BY <1>3, <4>1 DEF Shape, AsWas, AsReceived
    <3> QED BY <3>1, <3>2
  <2>4. ASSUME NEW a \in Len(e.src) + 3 .. n PROVE AsSpilled(e, g, tm, a)
    <3>1. a # c /\ a \in 1 .. n
      BY <1>2, <1>5 DEF Originals
    <3>2. g.code[a] = f.code[a]
      BY <1>1, <3>1
    <3> QED BY <1>2, <1>3, <3>2 DEF Shape, AsSpilled
  <2> QED BY <1>1, <1>2, <1>3, <1>9, <2>1, <2>2, <2>3, <2>4 DEF Shape
<1>12. ReceivesLeft(e, g, E)
  <2> SUFFICES ASSUME NEW a \in Originals(e), g.code[a].op = "receive", g.code[a].dst \in e.spill
               PROVE  <<a, g.code[a].dst>> \in E
    BY DEF ReceivesLeft
  <2>1. a # c
    BY <1>1
  <2>2. g.code[a] = f.code[a]
    BY <1>1, <1>5, <2>1
  <2>3. <<a, f.code[a].dst>> \in D
    BY <2>2 DEF Fits, ReceivesLeft
  <2> QED BY <1>10, <2>1, <2>2, <2>3
<1>13. Fits(e, g, tm, U, E)
  <2>1. U \subseteq (1 .. n) \X e.spill /\ D \subseteq (1 .. n) \X e.spill
    BY <1>2 DEF Fits
  <2>2. E \subseteq (1 .. n) \X e.spill
    BY <1>10, <2>1
  <2>3. \A x \in DOMAIN e.info : x < g.tmp
    BY <1>1 DEF Fits
  <2> QED BY <1>2, <1>3, <1>11, <1>12, <2>1, <2>2, <2>3 DEF Fits
<1>14. \A a, b \in 1 .. n : Goes(g, a, b) => Goes(f, a, b)
  <2> SUFFICES ASSUME NEW a \in 1 .. n, NEW b \in 1 .. n, Goes(g, a, b) PROVE Goes(f, a, b)
    OBVIOUS
  <2>1. CASE a = c
    <3>1. ~JumpsTo(g, a, b) /\ f.code[a].op # "jump"
      BY <1>1, <2>1 DEF JumpsTo, Branches
    <3> QED BY <1>1, <3>1 DEF Goes, FallsTo
  <2>2. CASE a # c
    <3>1. g.code[a] = f.code[a]
      BY <1>1, <2>2
    <3> QED BY <1>1, <3>1 DEF Goes, FallsTo, JumpsTo
  <2> QED BY <2>1, <2>2
<1>15. ASSUME NEW a \in 1 .. n, a # c, NEW q
       PROVE  /\ \A x \in Nat : RegAfter(e, f, tm, U, D, R, M, a, x, q)
                           => RegAfter(e, g, tm, U, E, R, M, a, x, q)
              /\ \A h \in Homes : MemAfter(e, f, tm, U, D, R, M, a, h, q)
                           => MemAfter(e, g, tm, U, E, R, M, a, h, q)
  <2>1. g.code[a] = f.code[a]
    BY <1>1, <1>15
  <2>2. SameThere(f, tm, g, tm, a)
    BY <2>1 DEF SameThere
  <2>3. f.code[a].op = "load" => Entry(tm, f.code[a].slot) \in Homes
    BY <1>1, <1>3, Kinds
  <2>4. /\ \A h \in Homes : q \in M[a][h] => q \in M[a][h]
        /\ <<a, f.code[a].dst>> \in D <=> <<a, f.code[a].dst>> \in E
        /\ f.code[a].op = "store" =>
             (Known(e, U, R, M, a, f.code[a].src[1], q) => Known(e, U, R, M, a, g.code[a].src[1], q))
    BY <1>10, <1>15, <2>1
  <2>5. /\ \A x : RegAfter(e, f, tm, U, D, R, M, a, x, q) /\ (q \in R[a][x] => q \in R[a][x])
                     => RegAfter(e, g, tm, U, E, R, M, a, x, q)
        /\ \A h \in Homes : MemAfter(e, f, tm, U, D, R, M, a, h, q)
                     => MemAfter(e, g, tm, U, E, R, M, a, h, q)
    BY <2>2, <2>3, <2>4, AfterSame
  <2> QED BY <2>5
<1>16. ASSUME NEW q
       PROVE  /\ \A x \in Nat : RegAfter(e, f, tm, U, D, R, M, c, x, q)
                           => RegAfter(e, g, tm, U, E, R, M, c, x, q)
              /\ \A h \in Homes : MemAfter(e, f, tm, U, D, R, M, c, h, q)
                           => MemAfter(e, g, tm, U, E, R, M, c, h, q)
  <2>1. /\ Writes(f.code[c]) /\ ~Writes(g.code[c]) /\ Gives(f.code[c]) /\ Gives(g.code[c])
    BY <1>1, <1>6 DEF Writes, Gives
  <2>2. Unchanged(e, g, c, q) <=> Unchanged(e, f, c, q)
    BY <2>1 DEF Unchanged
  <2>3. ASSUME NEW x \in Nat, RegAfter(e, f, tm, U, D, R, M, c, x, q)
        PROVE  RegAfter(e, g, tm, U, E, R, M, c, x, q)
    <3>1. x # j
      BY <1>1, <2>1, <2>3 DEF RegAfter
    <3>2. q \in R[c][x] /\ Unchanged(e, f, c, q)
      BY <1>1, <2>3, <3>1 DEF RegAfter
    <3> QED BY <2>1, <2>2, <3>2 DEF RegAfter
  <2>4. Written(e, g, tm, U, R, M, c, q) <=> Written(e, f, tm, U, R, M, c, q)
    BY <1>1 DEF Written
  <2>5. ASSUME NEW h \in Homes
        PROVE  ToHome(e, g, tm, E, c, h) <=> ToHome(e, f, tm, D, c, h)
    BY <1>1, <2>1 DEF ToHome
  <2>6. \A h \in Homes : MemAfter(e, f, tm, U, D, R, M, c, h, q)
                           => MemAfter(e, g, tm, U, E, R, M, c, h, q)
    BY <2>2, <2>4, <2>5 DEF MemAfter
  <2> QED BY <2>3, <2>6
<1>17. Flow(e, g, tm, U, E, R, M)
  <2> SUFFICES ASSUME NEW a \in 1 .. n, NEW b \in 1 .. n, Goes(g, a, b)
               PROVE  /\ \A x \in Nat : \A q \in R[b][x] : RegAfter(e, g, tm, U, E, R, M, a, x, q)
                      /\ \A h \in Homes : \A q \in M[b][h] : MemAfter(e, g, tm, U, E, R, M, a, h, q)
    BY <1>2 DEF Flow
  <2>1. /\ \A x \in Nat : \A q \in R[b][x] : RegAfter(e, f, tm, U, D, R, M, a, x, q)
        /\ \A h \in Homes : \A q \in M[b][h] : MemAfter(e, f, tm, U, D, R, M, a, h, q)
    BY <1>2, <1>4, <1>14 DEF Flow
  <2> QED BY <1>15, <1>16, <2>1
<1>18. OperandsKnown(e, g, U, R, M)
  <2> SUFFICES ASSUME NEW a \in Originals(e), g.code[a].op # "push_arg"
               PROVE  /\ \A k \in DOMAIN g.code[a].src :
                           Known(e, U, R, M, a, g.code[a].src[k], Was(e, a).src[k])
                      /\ g.code[a].op = "reg_store" =>
                           Known(e, U, R, M, a, g.code[a].dst, Was(e, a).dst)
    BY DEF OperandsKnown
  <2>1. g.code[a] = f.code[a]
    BY <1>1, <1>5
  <2> QED BY <1>4, <2>1 DEF OperandsKnown
<1>19. StoresKnown(e, g, tm, U, R, M)
  <2> SUFFICES ASSUME NEW a \in 1 .. n, g.code[a].op = "store"
               PROVE  g.code[a] = f.code[a]
    BY <1>2, <1>4 DEF StoresKnown
  <2> QED BY <1>1
<1>20. InBoth(e, g, R, M) /\ Owned(e, g, R, M)
  BY <1>1, <1>2, <1>4 DEF InBoth, Owned
<1> QED BY <1>4, <1>13, <1>17, <1>18, <1>19, <1>20 DEF Describes, E

----------------------------------------------------------------------------
(* The frame grows *)

MorePlaces(tm, tm2) ==
  /\ Locations(tm) \subseteq Locations(tm2)
  /\ \A l \in Locations(tm) : Entry(tm2, l) = Entry(tm, l)

\* With more places nothing changes for the code.
LEMMA PlacesGrow ==
  ASSUME NEW n, NEW f, Sound(f, n), NEW e, NEW tm, NEW U, NEW D, Fits(e, f, tm, U, D),
         NEW R, NEW M, Describes(e, f, tm, U, D, R, M),
         NEW tm2, PlacesOK(e, tm2), MorePlaces(tm, tm2)
  PROVE  Fits(e, f, tm2, U, D) /\ Describes(e, f, tm2, U, D, R, M)
<1>1. n \in Nat /\ Ids(f) = 1 .. n /\ Len(f.code) = n
  BY SoundCode
<1>2. PassOK(e) /\ PlacesOK(e, tm) /\ Shape(e, f, tm)
  BY DEF Fits
<1>3. Shape(e, f, tm2)
  <2>1. \A a \in Originals(e) : AsReceived(e, f, tm, a) => AsReceived(e, f, tm2, a)
    BY DEF AsReceived, MorePlaces
  <2>2. \A a : AsSpilled(e, f, tm, a) => AsSpilled(e, f, tm2, a)
    BY DEF AsSpilled, MorePlaces
  <2> QED BY <1>2, <2>1, <2>2 DEF Shape
<1>4. Fits(e, f, tm2, U, D)
  BY <1>3 DEF Fits
<1>5. ASSUME NEW a \in 1 .. n
      PROVE  f.code[a].op \in {"load", "store", "push_arg"} =>
                /\ Entry(tm2, f.code[a].slot) = Entry(tm, f.code[a].slot)
                /\ Entry(tm, f.code[a].slot) \in Homes
  BY <1>2, Kinds DEF MorePlaces
<1>6. ASSUME NEW a \in 1 .. n, NEW q
      PROVE  /\ \A x \in Nat : RegAfter(e, f, tm, U, D, R, M, a, x, q)
                          => RegAfter(e, f, tm2, U, D, R, M, a, x, q)
             /\ \A h \in Homes : MemAfter(e, f, tm, U, D, R, M, a, h, q)
                          => MemAfter(e, f, tm2, U, D, R, M, a, h, q)
  <2>1. SameThere(f, tm, f, tm2, a)
    BY <1>5 DEF SameThere
  <2>2. f.code[a].op = "load" => Entry(tm, f.code[a].slot) \in Homes
    BY <1>5
  <2>3. /\ \A h \in Homes : q \in M[a][h] => q \in M[a][h]
        /\ <<a, f.code[a].dst>> \in D <=> <<a, f.code[a].dst>> \in D
        /\ f.code[a].op = "store" =>
             (Known(e, U, R, M, a, f.code[a].src[1], q) => Known(e, U, R, M, a, f.code[a].src[1], q))
    OBVIOUS
  <2>4. /\ \A x : RegAfter(e, f, tm, U, D, R, M, a, x, q) /\ (q \in R[a][x] => q \in R[a][x])
                     => RegAfter(e, f, tm2, U, D, R, M, a, x, q)
        /\ \A h \in Homes : MemAfter(e, f, tm, U, D, R, M, a, h, q)
                     => MemAfter(e, f, tm2, U, D, R, M, a, h, q)
    BY <2>1, <2>2, <2>3, AfterSame
  <2> QED BY <2>4
<1>7. Flow(e, f, tm2, U, D, R, M)
  BY <1>1, <1>6 DEF Describes, Flow
<1>8. StoresKnown(e, f, tm2, U, R, M)
  BY <1>1, <1>5 DEF Describes, StoresKnown
<1> QED BY <1>4, <1>7, <1>8 DEF Describes

\* temp_stack_location gives a marked register a place that stands for its home,
\* unless an earlier pass gave it to another register.
LEMMA PlaceFound ==
  ASSUME InfoOK, passes \in Nat, passes # 0, NEW j \in DOMAIN info,
         NEW e, e.info = info, e.passes = passes, PlacesOK(e, temps),
         \/ info[j].var # None
         \/ ~(TempIndex(info[j].key) <= Len(temps)
              /\ temps[TempIndex(info[j].key)].pass # passes)
  PROVE  LET tm2 == temp_stack_location(j) IN
         /\ PlacesOK(e, tm2) /\ MorePlaces(temps, tm2)
         /\ Location(j) \in Locations(tm2) /\ Entry(tm2, Location(j)) = HomeIn(e, j)
<1> DEFINE tm2 == temp_stack_location(j)
           key == info[j].key
           k == TempIndex(key)
           new == [reg |-> key, pass |-> passes]
           Place == [reg : Nat, pass : Nat]
<1>1. info[j].var \in VarRegs \cup {None} /\ key \in Nat
  BY DEF InfoOK
<1>2. temps \in Seq(Place) /\ Len(temps) \in Nat /\ DOMAIN temps = 1 .. Len(temps)
      /\ \A l \in DOMAIN temps : temps[l] \in Place
  <2> HIDE DEF Place
  <2>1. temps \in Seq(Place)
    BY DEF PlacesOK, Place
  <2> QED BY <2>1, ElementOfSeq
<1>3. PlacesOK(e, temps) /\ MorePlaces(temps, temps)
  BY DEF MorePlaces
<1>4. HomeIn(e, j) = IF info[j].var # None THEN <<info[j].var, 0>> ELSE <<key, passes>>
  BY DEF HomeIn
<1>5. CASE info[j].var # None
  <2>1. tm2 = temps
    BY <1>5 DEF temp_stack_location
  <2>2. Location(j) = <<"var", info[j].var>>
    BY <1>5 DEF Location
  <2>3. Location(j) \in Locations(temps)
    BY <1>1, <1>5, <2>2 DEF Locations
  <2>4. Entry(temps, Location(j)) = <<info[j].var, 0>>
    BY <2>2 DEF Entry
  <2> QED BY <1>3, <1>4, <1>5, <2>1, <2>3, <2>4
<1>6. CASE info[j].var = None
  <2>1. Location(j) = <<"temp", k>>
    BY <1>6 DEF Location
  <2>2. CASE \E l \in DOMAIN temps : temps[l].reg = key
    <3> DEFINE Found == {l \in DOMAIN temps : temps[l].reg = key}
    <3>1. k \in DOMAIN temps /\ temps[k].reg = key
      <4>1. Found \in SUBSET Nat /\ Found # {}
        BY <1>2, <2>2
      <4>2. PICK p \in Found : \A l \in Found : p <= l
        <5> HIDE DEF Found
        <5> QED BY <4>1, Least
      <4>3. ASSUME NEW l \in 1 .. p - 1 PROVE temps[l].reg # key
        <5>1. p \in 1 .. Len(temps)
          BY <1>2
        <5>2. l \in DOMAIN temps /\ ~(p <= l)
          BY <1>2, <5>1
        <5>3. l \notin Found
          BY <4>2, <5>2
        <5> QED BY <5>2, <5>3
      <4>4. \E q \in DOMAIN temps :
               temps[q].reg = key /\ \A l \in 1 .. q - 1 : temps[l].reg # key
        BY <4>2, <4>3
      <4> HIDE DEF key
      <4> QED BY <2>2, <4>4 DEF TempIndex
    <3>2. k <= Len(temps) /\ ~(k > Len(temps))
      <4> HIDE DEF k
      <4> QED BY <1>2, <3>1
    <3>3. tm2 = temps
      BY <1>2, <3>1, <3>2 DEF temp_stack_location
    <3>4. temps[k].pass = passes
      BY <1>6, <3>2
    <3>5. Location(j) \in Locations(temps) /\ Entry(temps, Location(j)) = <<key, passes>>
      BY <2>1, <3>1, <3>4 DEF Locations, Entry
    <3> QED BY <1>3, <1>4, <1>6, <3>3, <3>5
  <2>3. CASE ~ \E l \in DOMAIN temps : temps[l].reg = key
    <3>1. k = Len(temps) + 1
      BY <2>3 DEF TempIndex
    <3>2. tm2 = Append(temps, new)
      BY <1>2, <1>6, <3>1 DEF temp_stack_location
    <3>3. new \in Place /\ new.reg = key /\ new.pass = passes
      BY <1>1
    <3> HIDE DEF tm2, k, new, Place
    <3>4. /\ tm2 \in Seq(Place) /\ DOMAIN tm2 = 1 .. Len(temps) + 1
          /\ tm2[Len(temps) + 1] = new /\ \A l \in 1 .. Len(temps) : tm2[l] = temps[l]
      BY <1>2, <3>2, <3>3
    <3>5. PlacesOK(e, tm2)
      <4>1. \A l \in 1 .. Len(temps) + 1 : l = Len(temps) + 1 \/ l \in DOMAIN temps
        BY <1>2
      <4>2. \A l \in DOMAIN tm2, m \in DOMAIN tm2 : tm2[l].reg = tm2[m].reg => l = m
        BY <1>2, <2>3, <3>3, <3>4, <4>1 DEF PlacesOK
      <4>3. \A l \in DOMAIN tm2 : tm2[l].pass \in 1 .. e.passes
        <5>1. passes \in 1 .. e.passes
          OBVIOUS
        <5> QED BY <1>2, <3>3, <3>4, <4>1, <5>1 DEF PlacesOK
      <4> QED BY <3>4, <4>2, <4>3 DEF PlacesOK, Place
    <3>6. MorePlaces(temps, tm2)
      <4>1. Locations(temps) \subseteq Locations(tm2)
        BY <1>2, <3>4 DEF Locations
      <4>2. ASSUME NEW l \in Locations(temps) PROVE Entry(tm2, l) = Entry(temps, l)
        <5>1. l[1] # "var" => l[2] \in DOMAIN temps
          BY EntryType
        <5> QED BY <1>2, <3>4, <5>1 DEF Entry
      <4> QED BY <4>1, <4>2 DEF MorePlaces
    <3>7. Location(j) \in Locations(tm2) /\ Entry(tm2, Location(j)) = <<key, passes>>
      <4>1. k \in DOMAIN tm2
        BY <1>2, <3>1, <3>4
      <4> QED BY <2>1, <3>1, <3>3, <3>4, <4>1 DEF Locations, Entry
    <3> QED BY <1>4, <1>6, <3>5, <3>6, <3>7 DEF tm2
  <2> QED BY <2>2, <2>3
<1> QED BY <1>1, <1>5, <1>6

----------------------------------------------------------------------------
(* One round of the loop over the marked registers *)

\* The pairs that the pass has yet to come to
Todo ==
  {p \in Ids(fn) \X spill :
     phase = "spill" /\ ((p[1] = instr /\ p[2] \in todo) \/ Pos(fn, p[1]) > Pos(fn, cur))}

\* An instruction without a load does not use the register.
LEMMA NoUse ==
  ASSUME NEW n, NEW f, Sound(f, n), NEW c \in 1 .. n, NEW j, Loaded(f.code[c], j) = {},
         NEW k \in DOMAIN f.code[c].src
  PROVE  f.code[c].src[k] # j
<1> DEFINE i == f.code[c]
           Reads1 == {l \in DOMAIN i.src : i.src[l] = j}
<1>1. i.src \in Seq(Nat)
  BY SoundCode
<1>2. Len(i.src) \in Nat /\ DOMAIN i.src = 1 .. Len(i.src)
  BY <1>1
<1> SUFFICES ASSUME i.src[k] = j PROVE FALSE
  OBVIOUS
<1>3. Reads1 \in SUBSET Nat /\ Reads1 # {}
  BY <1>2
<1>4. PICK l \in Reads1 : \A q \in Reads1 : l <= q
  <2> HIDE DEF Reads1
  <2> QED BY <1>3, Least
<1>5. ASSUME NEW q \in 1 .. l - 1 PROVE i.src[q] # j
  <2>1. l \in 1 .. Len(i.src)
    BY <1>2
  <2>2. q \in DOMAIN i.src /\ ~(l <= q)
    BY <1>2, <2>1
  <2>3. q \notin Reads1
    BY <1>4, <2>2
  <2> QED BY <2>2, <2>3
<1>6. l \in Loaded(i, j)
  BY <1>5 DEF Loaded
<1> QED BY <1>6

\* The only operand of an instruction gets its load.
LEMMA OnlyUse ==
  ASSUME NEW i, DOMAIN i.src = {1}, NEW j, i.src[1] = j
  PROVE  1 \in Loaded(i, j)
BY DEF Loaded

\* The pass that a round belongs to
InPass(e, n, T) ==
  /\ Sound(fn, n) /\ cur \in 1 .. n /\ instr \in 1 .. n
  /\ InfoOK /\ passes \in Nat /\ passes # 0
  /\ e.info = info /\ e.passes = passes /\ e.spill = spill
  /\ Fits(e, fn, temps, T, T)
  /\ \A a, x : <<a, x>> \in T => a = instr \/ Pos(fn, a) > Pos(fn, cur)

\* A register that stays in the instruction is not an argument: the argument
\* would be pushed, or be received only after it is used.
LEMMA NotReceived ==
  ASSUME NEW e, NEW n, NEW T, InPass(e, n, T), cur = instr,
         NEW j \in spill, "unloaded" \notin OddAt(j),
         LET i == fn.code[instr] IN
         \/ \E k \in DOMAIN i.src : i.src[k] = j /\ k \notin Loaded(i, j)
         \/ i.op = "reg_store" /\ i.dst = j
  PROVE  ~Received(e, j)
<1> DEFINE i == fn.code[instr]
<1> SUFFICES ASSUME Received(e, j) PROVE FALSE
  OBVIOUS
<1>1. /\ Sound(fn, n) /\ instr \in 1 .. n /\ e.info = info
      /\ PassOK(e) /\ PlacesOK(e, temps) /\ Shape(e, fn, temps) /\ ReceivesLeft(e, fn, T)
      /\ e.spill = spill
  BY DEF InPass, Fits
<1>2. n \in Nat /\ Ids(fn) = 1 .. n /\ Len(fn.code) = n
  BY <1>1, SoundCode
<1>3. PICK k \in DOMAIN e.src : e.src[k].op = "receive" /\ e.src[k].dst = VarIn(e, j)
  BY DEF Received
<1>4. /\ Len(e.src) \in Nat /\ DOMAIN e.src = 1 .. Len(e.src)
      /\ \A l \in 1 .. Len(e.src) : BodyInstr(e.src, l)
  BY <1>1, BodyFacts DEF PassOK
<1> DEFINE a == k + 1
           v == VarIn(e, j)
<1>5. a \in Originals(e) /\ a - 1 = k /\ a \in 1 .. n /\ k \in 1 .. Len(e.src)
  BY <1>2, <1>1, <1>4 DEF Originals, Shape
<1>6. v \in VarRegs /\ v # None
  BY <1>3, <1>4, RegsAssumption, ValAssumption DEF BodyInstr, Sources
<1>7. j \in DOMAIN info /\ info[j].var = v
  <2>1. j \in DOMAIN e.info
    BY <1>1 DEF PassOK
  <2> QED BY <1>1, <2>1 DEF VarIn
<1>8. Was(e, a).op = "receive" /\ Was(e, a).dst = v /\ Was(e, a).src = <<>>
  BY <1>3, <1>4, <1>5 DEF Was, BodyInstr
<1> HIDE DEF a, v
<1>9. ~AsReceived(e, fn, temps, a)
  <2> SUFFICES ASSUME AsReceived(e, fn, temps, a) PROVE FALSE
    OBVIOUS
  <2>1. /\ fn.code[a].op = "push_arg" /\ fn.code[a].slot \in Locations(temps)
        /\ Entry(temps, fn.code[a].slot) = <<v, 0>>
    BY <1>8 DEF AsReceived
  <2>2. Location(j) = <<"var", v>>
    BY <1>6, <1>7 DEF Location
  <2>3. Location(j) \in Locations(temps) /\ Entry(temps, Location(j)) = <<v, 0>>
    BY <1>6, <2>2 DEF Locations, Entry
  <2>4. fn.code[a].slot = Location(j)
    BY <1>1, <2>1, <2>3, EntriesApart
  <2>5. \E b \in Ids(fn) : fn.code[b].op = "push_arg" /\ fn.code[b].slot = Location(j)
    BY <1>2, <1>5, <2>1, <2>4
  <2> QED BY <2>5 DEF OddAt
<1>10. fn.code[a].op = "receive" /\ VarIn(e, fn.code[a].dst) = v /\ DOMAIN fn.code[a].src = {}
  <2>1. AsWas(e, fn, a)
    BY <1>1, <1>5, <1>9 DEF Shape
  <2>2. DOMAIN Was(e, a).src = {}
    BY <1>8
  <2> QED BY <1>8, <2>1, <2>2 DEF AsWas
<1>11. fn.code[a].dst = j
  <2>1. fn.code[a].dst \in DOMAIN info /\ info[fn.code[a].dst].var = v
    BY <1>1, <1>6, <1>10 DEF VarIn
  <2> QED BY <1>1, <1>6, <1>7, <2>1 DEF PassOK
<1>12. a # instr
  BY <1>10
<1>13. Pos(fn, a) > Pos(fn, instr)
  <2>1. <<a, j>> \in T
    BY <1>1, <1>5, <1>10, <1>11 DEF ReceivesLeft
  <2> QED BY <1>12, <2>1 DEF InPass
<1>14. /\ instr \in Originals(e) /\ AsWas(e, fn, instr)
       /\ \/ \E l \in DOMAIN i.src : i.src[l] = j
          \/ i.dst = j
  <2>1. CASE i.op = "reg_store" /\ i.dst = j
    <3>1. instr \in Originals(e) /\ AsWas(e, fn, instr)
      BY <1>1, <2>1, Kinds DEF SourceOps
    <3> QED BY <2>1, <3>1
  <2>2. CASE \E l \in DOMAIN i.src : i.src[l] = j /\ l \notin Loaded(i, j)
    <3>1. PICK l \in DOMAIN i.src : i.src[l] = j /\ l \notin Loaded(i, j)
      BY <2>2
    <3>2. \/ instr \in Originals(e) /\ AsWas(e, fn, instr)
          \/ /\ AsSpilled(e, fn, temps, instr) /\ i.op = "store" /\ l = 1
      BY <1>1, ReaderIs
    <3>3. ASSUME AsSpilled(e, fn, temps, instr), i.op = "store", l = 1 PROVE FALSE
      <4>1. DOMAIN i.src = {1}
        BY <3>3 DEF AsSpilled
      <4>2. 1 \in Loaded(i, j)
        <5> HIDE DEF i
        <5> QED BY <3>1, <3>3, <4>1, OnlyUse
      <4> QED BY <3>1, <3>3, <4>2
    <3> QED BY <3>1, <3>2, <3>3
  <2> QED BY <2>1, <2>2
<1>15. \/ \E l \in DOMAIN Was(e, instr).src : Was(e, instr).src[l] = v
       \/ Was(e, instr).dst = v
  <2>1. \A l \in DOMAIN i.src : i.src[l] = j => Was(e, instr).src[l] = v
    BY <1>6, <1>14 DEF AsWas, v
  <2>2. DOMAIN i.src = DOMAIN Was(e, instr).src
    BY <1>14 DEF AsWas
  <2>3. i.dst = j => Was(e, instr).dst = v
    <3>1. j # None
      BY <1>7, ValAssumption DEF InPass, InfoOK
    <3> QED BY <1>6, <1>14, <3>1 DEF AsWas, v
  <2> QED BY <1>14, <2>1, <2>2, <2>3
<1>16. ~(instr < a)
  <2> SUFFICES ASSUME instr < a PROVE FALSE
    OBVIOUS
  <2>1. instr - 1 \in 1 .. k - 1
    BY <1>4, <1>14 DEF Originals, a
  <2>2. BodyInstr(e.src, k) /\ e.src[k].op = "receive" /\ e.src[k].dst = v
    BY <1>3, <1>4 DEF v
  <2>3. e.src[k].dst # e.src[instr - 1].dst
        /\ \A l \in DOMAIN e.src[instr - 1].src : e.src[instr - 1].src[l] # e.src[k].dst
    BY <2>1, <2>2 DEF BodyInstr
  <2> QED BY <1>15, <2>2, <2>3 DEF Was
<1>17. a < instr
  BY <1>1, <1>2, <1>5, <1>12, <1>16
<1>18. Pos(fn, a) < Pos(fn, instr)
  <2>1. a \in 1 .. Len(e.src) + 2 /\ instr \in 1 .. Len(e.src) + 2
    BY <1>4, <1>5, <1>14 DEF Originals
  <2> QED BY <1>1, <1>17, <2>1 DEF Shape
<1>19. Pos(fn, a) \in Nat /\ Pos(fn, instr) \in Nat
  <2>1. /\ Pos(fn, a) \in 1 .. Len(fn.order)
        /\ Pos(fn, instr) \in 1 .. Len(fn.order)
    BY <1>1, <1>2, <1>5, SoundIds, OrderPlaces
  <2> QED BY <2>1
<1> QED BY <1>13, <1>18, <1>19

\* Behind d in h stand the instructions that stand behind c in f.
Behind(f, n, c, h, m, d) ==
  \A a \in 1 .. m : Pos(h, a) > Pos(h, d) <=> a \in 1 .. n /\ Pos(f, a) > Pos(f, c)

\* What the loads of j in front of c make of f
LoadsMade(e, f, n, tm, T, c, j, g, m) ==
  /\ m \in Nat /\ n <= m /\ Sound(g, m)
  /\ Fits(e, g, tm, T, T) /\ \E R, M : Describes(e, g, tm, T, T, R, M)
  /\ g.code[c].op = f.code[c].op /\ g.code[c].dst = f.code[c].dst
  /\ DOMAIN g.code[c].src = DOMAIN f.code[c].src
  /\ \A l \in DOMAIN f.code[c].src :
       g.code[c].src[l] = j => f.code[c].src[l] = j /\ l \notin Loaded(f.code[c], j)
  /\ Behind(f, n, c, g, m, c)

\* The loads of a round
LEMMA SpillLoads ==
  ASSUME NEW e, NEW n, NEW T, InPass(e, n, T), cur = instr,
         NEW j \in spill, <<instr, j>> \in T,
         NEW tm, Fits(e, fn, tm, T, T), \E R, M : Describes(e, fn, tm, T, T, R, M),
         Location(j) \in Slots, Location(j) \in Locations(tm),
         Entry(tm, Location(j)) = HomeIn(e, j),
         Loaded(fn.code[instr], j) # {} => NoJump(fn, n, cur)
  PROVE  \E m : LoadsMade(e, fn, n, tm, T, cur, j, GenLoads(fn, j), m)
<1> DEFINE g == GenLoads(fn, j)
           x == fn.code[cur]
<1>1. Sound(fn, n) /\ cur \in 1 .. n /\ instr \in 1 .. n /\ n \in Nat /\ fn.tmp \in Nat
  BY SoundCode DEF InPass
<1>2. j \in Nat /\ j < fn.tmp
  <2>1. j \in DOMAIN e.info
    BY DEF InPass, Fits, PassOK
  <2> QED BY <2>1 DEF InPass, InfoOK, Fits
<1>3. CASE Loaded(x, j) = {}
  <2>1. g = fn
    BY <1>1, <1>3, LoadsFrom
  <2>2. \A l \in DOMAIN x.src : x.src[l] # j
    BY <1>1, <1>3, NoUse
  <2>3. Behind(fn, n, cur, fn, n, cur)
    BY DEF Behind
  <2>4. LoadsMade(e, fn, n, tm, T, cur, j, fn, n)
    BY <1>1, <2>2, <2>3 DEF LoadsMade
  <2> HIDE DEF g
  <2>5. LoadsMade(e, fn, n, tm, T, cur, j, g, n)
    BY <2>1, <2>4
  <2> QED BY <2>5 DEF g
<1>4. CASE Loaded(x, j) # {}
  <2>1. NoJump(fn, n, cur) /\ Fetches(e, tm, T, cur, j, Location(j))
    BY <1>4 DEF Fetches
  <2>2. \E m : /\ LoadsKept(e, fn, n, tm, T, T, cur, g, m)
               /\ \A l \in DOMAIN fn.code[cur].src :
                    IF l \in Loaded(fn.code[cur], j) THEN g.code[cur].src[l] >= fn.tmp
                    ELSE g.code[cur].src[l] = fn.code[cur].src[l]
    BY <1>1, <2>1, LoadsDescribed
  <2>3. PICK m : /\ LoadsKept(e, fn, n, tm, T, T, cur, g, m)
                 /\ \A l \in DOMAIN fn.code[cur].src :
                      IF l \in Loaded(fn.code[cur], j) THEN g.code[cur].src[l] >= fn.tmp
                      ELSE g.code[cur].src[l] = fn.code[cur].src[l]
    BY <2>2
  <2> HIDE DEF g, x
  <2>4. /\ m \in Nat /\ n <= m /\ Sound(g, m)
        /\ Fits(e, g, tm, T, T) /\ \E R, M : Describes(e, g, tm, T, T, R, M)
        /\ g.code[cur].op = fn.code[cur].op /\ g.code[cur].dst = fn.code[cur].dst
        /\ DOMAIN g.code[cur].src = DOMAIN fn.code[cur].src
        /\ \A a \in 1 .. n : Pos(g, a) > Pos(g, cur) <=> Pos(fn, a) > Pos(fn, cur)
        /\ \A a \in n + 1 .. m : Pos(g, a) < Pos(g, cur)
    BY <2>3 DEF LoadsKept
  <2>5. \A l \in DOMAIN fn.code[cur].src :
          g.code[cur].src[l] = j =>
            fn.code[cur].src[l] = j /\ l \notin Loaded(fn.code[cur], j)
    <3>1. ~(j >= fn.tmp)
      BY <1>1, <1>2
    <3> QED BY <2>3, <3>1
  <2>6. \A a \in 1 .. m : Pos(g, a) \in Nat
    <3>1. /\ \A a \in 1 .. m : Pos(g, a) \in 1 .. Len(g.order)
      BY <2>4, SoundIds, OrderPlaces
    <3> QED BY <3>1
  <2>7. Behind(fn, n, cur, g, m, cur)
    <3> SUFFICES ASSUME NEW a \in 1 .. m
                 PROVE  Pos(g, a) > Pos(g, cur) <=> a \in 1 .. n /\ Pos(fn, a) > Pos(fn, cur)
      BY DEF Behind
    <3>1. cur \in 1 .. m
      BY <1>1, <2>4
    <3>2. CASE a \in 1 .. n
      BY <2>4, <3>2
    <3>3. CASE a \notin 1 .. n
      <4>1. a \in n + 1 .. m
        BY <1>1, <2>4, <3>3
      <4>2. Pos(g, a) < Pos(g, cur)
        BY <2>4, <4>1
      <4> QED BY <2>6, <3>1, <3>3, <4>2
    <3> QED BY <3>2, <3>3
  <2> QED BY <2>4, <2>5, <2>7 DEF LoadsMade, g
<1> QED BY <1>3, <1>4

\* A round leaves the values known, and j is done with at the instruction.
RoundMade(e, n, T, j, h, m, tm) ==
  LET d == IF Stores(fn, j) THEN NextOf(h, cur) ELSE cur
      V == T \ {<<instr, j>>}
  IN  /\ m \in Nat /\ n <= m /\ Sound(h, m)
      /\ Fits(e, h, tm, V, V) /\ \E R, M : Describes(e, h, tm, V, V, R, M)
      /\ d \in 1 .. m /\ Behind(fn, n, cur, h, m, d) /\ Pos(h, instr) <= Pos(h, d)
      /\ Stores(fn, j) => h.code[instr].dst = j

\* A round that has nothing to do.
LEMMA SpillNothing ==
  ASSUME NEW e, NEW n, NEW T, InPass(e, n, T), NEW j \in spill,
         \E R, M : Describes(e, fn, temps, T, T, R, M),
         Loaded(fn.code[instr], j) = {}, fn.code[instr].dst # j,
         Pos(fn, instr) <= Pos(fn, cur), Location(j) \in Slots
  PROVE  /\ GenDef(GenLoads(fn, j), j) = fn
         /\ RoundMade(e, n, T, j, fn, n, temps)
<1> DEFINE V == T \ {<<instr, j>>}
           i == fn.code[instr]
<1>1. /\ Sound(fn, n) /\ cur \in 1 .. n /\ instr \in 1 .. n /\ n \in Nat
      /\ Fits(e, fn, temps, T, T) /\ e.spill = spill
  BY SoundCode DEF InPass
<1>2. PICK R, M : Describes(e, fn, temps, T, T, R, M)
  OBVIOUS
<1>3. /\ \A k \in DOMAIN i.src : i.src[k] # j
      /\ i.op = "reg_store" => i.dst # j
  BY <1>1, NoUse
<1>4. Fits(e, fn, temps, V, T) /\ Describes(e, fn, temps, V, T, R, M)
  BY <1>1, <1>2, <1>3, UseDone
<1> HIDE DEF V
<1>5. Fits(e, fn, temps, V, T \ {<<instr, j>>})
      /\ Describes(e, fn, temps, V, T \ {<<instr, j>>}, R, M)
  BY <1>1, <1>4, DefDone
<1>6. GenLoads(fn, j) = fn
  BY <1>1, LoadsFrom
<1>7. GenDef(GenLoads(fn, j), j) = fn
  BY <1>6 DEF GenDef
<1>8. ~Stores(fn, j)
  BY DEF Stores
<1>9. Behind(fn, n, cur, fn, n, cur)
  BY DEF Behind
<1>10. Fits(e, fn, temps, V, V) /\ \E Q, N : Describes(e, fn, temps, V, V, Q, N)
  <2>1. V = T \ {<<instr, j>>}
    BY DEF V
  <2>2. Fits(e, fn, temps, V, V) /\ Describes(e, fn, temps, V, V, R, M)
    BY <1>5, <2>1
  <2> QED BY <2>2
<1>11. n <= n /\ (IF Stores(fn, j) THEN NextOf(fn, cur) ELSE cur) = cur
  BY <1>1, <1>8
<1> QED BY <1>1, <1>7, <1>8, <1>9, <1>10, <1>11 DEF RoundMade, V

\* One insertion or change after the other
LEMMA BehindTwice ==
  ASSUME NEW f, NEW n \in Nat, NEW c, NEW g, NEW m \in Nat, n <= m, Behind(f, n, c, g, m, c),
         NEW h, NEW k, NEW d, Behind(g, m, c, h, k, d)
  PROVE  Behind(f, n, c, h, k, d)
<1> SUFFICES ASSUME NEW a \in 1 .. k
             PROVE  Pos(h, a) > Pos(h, d) <=> a \in 1 .. n /\ Pos(f, a) > Pos(f, c)
  BY DEF Behind
<1>1. Pos(h, a) > Pos(h, d) <=> a \in 1 .. m /\ Pos(g, a) > Pos(g, c)
  BY DEF Behind
<1>2. a \in 1 .. n => a \in 1 .. m
  OBVIOUS
<1>3. a \in 1 .. m => (Pos(g, a) > Pos(g, c) <=> a \in 1 .. n /\ Pos(f, a) > Pos(f, c))
  BY DEF Behind
<1> QED BY <1>1, <1>2, <1>3

\* The store of a round is where the loop goes on.
LEMMA StorePlaces ==
  ASSUME NEW m, NEW g, NEW h, NEW c \in 1 .. m, NEW j, NEW slot, NewStore(g, m, h, c, j, slot)
  PROVE  /\ NextOf(h, c) = m + 1 /\ m + 1 \in 1 .. m + 1
         /\ Behind(g, m, c, h, m + 1, m + 1)
         /\ Pos(h, c) <= Pos(h, m + 1)
<1> DEFINE q == Pos(g, c)
           p == q + 1
<1>1. WithNew(g, m, h, p) /\ Sound(g, m) /\ m \in Nat
  BY SoundCode DEF NewStore, WithNew
<1> HIDE DEF q
<1>2. /\ Pos(h, m + 1) = p
      /\ \A a \in 1 .. m :
           /\ Pos(g, a) \in Nat \ {0}
           /\ Pos(h, a) = IF Pos(g, a) < p THEN Pos(g, a) ELSE Pos(g, a) + 1
  <2> HIDE DEF p
  <2> QED BY <1>1, NewPos
<1>3. q \in Nat \ {0} /\ Pos(h, c) = q
  <2>1. Pos(g, c) = q
    BY DEF q
  <2> QED BY <1>2, <2>1
<1>4. NextOf(h, c) = m + 1
  <2>1. h.order[p] = m + 1
    <3> HIDE DEF p
    <3> QED BY <1>1 DEF WithNew, InsertedOrder
  <2> QED BY <1>3, <2>1 DEF NextOf
<1>5. Behind(g, m, c, h, m + 1, m + 1)
  <2> SUFFICES ASSUME NEW a \in 1 .. m + 1
               PROVE  Pos(h, a) > Pos(h, m + 1) <=> a \in 1 .. m /\ Pos(g, a) > Pos(g, c)
    BY DEF Behind
  <2>1. CASE a = m + 1
    BY <1>1, <1>2, <1>3, <2>1
  <2>2. CASE a # m + 1
    <3>1. a \in 1 .. m
      BY <1>1, <2>2
    <3>2. Pos(g, c) = q
      BY DEF q
    <3>3. Pos(g, a) \in Nat /\ Pos(h, a) = IF Pos(g, a) < p THEN Pos(g, a) ELSE Pos(g, a) + 1
      BY <1>2, <3>1
    <3> QED BY <1>2, <1>3, <3>1, <3>2, <3>3
  <2> QED BY <2>1, <2>2
<1> QED BY <1>1, <1>2, <1>3, <1>4, <1>5

\* The definition, when the loads are there
LEMMA SpillDef ==
  ASSUME NEW e, NEW n, NEW T, InPass(e, n, T), cur = instr,
         NEW j \in spill, <<instr, j>> \in T, "unloaded" \notin OddAt(j),
         NEW tm, Location(j) \in Slots, Location(j) \in Locations(tm),
         Entry(tm, Location(j)) = HomeIn(e, j),
         NEW g, NEW m, LoadsMade(e, fn, n, tm, T, cur, j, g, m)
  PROVE  /\ \E k : RoundMade(e, n, T, j, GenDef(g, j), k, tm)
         /\ fn.code[instr].dst = j \/ g # fn => GenDef(g, j) # fn
<1> DEFINE c == cur
           x == fn.code[instr]
           V == T \ {<<c, j>>}
           slot == Location(j)
<1>1. /\ Sound(fn, n) /\ c \in 1 .. n /\ n \in Nat /\ InfoOK
      /\ e.spill = spill /\ e.info = info
  BY SoundCode DEF InPass
<1>2. /\ m \in Nat /\ n <= m /\ Sound(g, m)
      /\ Fits(e, g, tm, T, T) /\ \E R, M : Describes(e, g, tm, T, T, R, M)
      /\ g.code[c].op = x.op /\ g.code[c].dst = x.dst
      /\ DOMAIN g.code[c].src = DOMAIN x.src
      /\ \A l \in DOMAIN x.src : g.code[c].src[l] = j => x.src[l] = j /\ l \notin Loaded(x, j)
      /\ Behind(fn, n, c, g, m, c)
  BY DEF LoadsMade
<1>3. PICK R, M : Describes(e, g, tm, T, T, R, M)
  BY <1>2
<1>4. c \in 1 .. m /\ c \in Nat
  BY <1>1, <1>2
<1>5. j \in DOMAIN info /\ j \in Nat /\ j # None
  <2>1. j \in DOMAIN info
    BY <1>1, <1>2 DEF Fits, PassOK
  <2> QED BY <1>1, <2>1, ValAssumption DEF InfoOK
<1>6. ~Received(e, j) \/ /\ \A k \in DOMAIN g.code[c].src : g.code[c].src[k] # j
                         /\ g.code[c].op = "reg_store" => g.code[c].dst # j
  <2> SUFFICES ASSUME \/ \E k \in DOMAIN g.code[c].src : g.code[c].src[k] = j
                      \/ g.code[c].op = "reg_store" /\ g.code[c].dst = j
               PROVE  ~Received(e, j)
    OBVIOUS
  <2>1. \/ \E k \in DOMAIN x.src : x.src[k] = j /\ k \notin Loaded(x, j)
        \/ x.op = "reg_store" /\ x.dst = j
    BY <1>2
  <2> QED BY <2>1, NotReceived
<1>7. Fits(e, g, tm, V, T) /\ Describes(e, g, tm, V, T, R, M)
  <2> HIDE DEF c, slot, x
  <2> QED BY <1>1, <1>2, <1>3, <1>4, <1>6, UseDone
<1>8. instr = c /\ (Stores(fn, j) <=> x.dst = j /\ x.op # "receive")
  BY DEF Stores
<1>9. CASE x.dst # j
  <2>1. GenDef(g, j) = g
    BY <1>2, <1>8, <1>9 DEF GenDef
  <2>2. Fits(e, g, tm, V, T \ {<<c, j>>}) /\ Describes(e, g, tm, V, T \ {<<c, j>>}, R, M)
    <3>1. g.code[c].dst # j
      BY <1>2, <1>9
    <3> HIDE DEF c, V, slot, x
    <3> QED BY <1>2, <1>4, <1>7, <3>1, DefDone
  <2>3. ~Stores(fn, j) /\ Pos(g, instr) <= Pos(g, c)
    <3>1. Pos(g, c) \in Nat
      <4>1. Pos(g, c) \in 1 .. Len(g.order)
        BY <1>2, <1>4, SoundIds, OrderPlaces
      <4> QED BY <4>1
    <3> QED BY <1>8, <1>9, <3>1
  <2>4. RoundMade(e, n, T, j, g, m, tm)
    <3>1. Fits(e, g, tm, V, V) /\ \E Q, N : Describes(e, g, tm, V, V, Q, N)
      BY <2>2
    <3> HIDE DEF V
    <3>2. V = T \ {<<instr, j>>}
      BY DEF V
    <3> QED BY <1>2, <1>4, <2>3, <3>1, <3>2 DEF RoundMade
  <2> QED BY <1>9, <2>1, <2>4
<1>10. CASE x.dst = j /\ x.op = "receive"
  <2> DEFINE h == GenDef(g, j)
  <2>1. h = [g EXCEPT !.code[c] = [Ins("push_arg", <<>>, None, 0) EXCEPT !.slot = slot]]
    BY <1>2, <1>8, <1>10 DEF GenDef, PushArg
  <2> HIDE DEF h
  <2>2. NewPush(g, m, h, c, g.code[c].dst, slot)
    <3>1. g.code[c].op = "receive" /\ slot \in Slots
      BY <1>2, <1>10
    <3> HIDE DEF c, V, slot, x
    <3> QED BY <1>2, <1>4, <2>1, <3>1, PushIsNew
  <2>3. NewPush(g, m, h, c, j, slot)
    BY <1>2, <1>10, <2>2
  <2>4. Fits(e, h, tm, V, T \ {<<c, j>>}) /\ Describes(e, h, tm, V, T \ {<<c, j>>}, R, M)
    <3>1. slot \in Locations(tm) /\ Entry(tm, slot) = HomeIn(e, j) /\ <<c, j>> \in T
      OBVIOUS
    <3> HIDE DEF c, V, slot, x
    <3> QED BY <1>4, <1>7, <2>3, <3>1, PushDescribed
  <2>5. Sound(h, m) /\ h.order = g.order
    BY <2>3 DEF NewPush
  <2>6. \A a : Pos(h, a) = Pos(g, a)
    BY <2>5 DEF Pos
  <2>7. Behind(fn, n, c, h, m, c)
    BY <1>2, <2>6 DEF Behind
  <2>8. ~Stores(fn, j) /\ Pos(h, instr) <= Pos(h, c)
    <3>1. Pos(g, c) \in Nat
      <4>1. Pos(g, c) \in 1 .. Len(g.order)
        BY <1>2, <1>4, SoundIds, OrderPlaces
      <4> QED BY <4>1
    <3> QED BY <1>8, <1>10, <2>6, <3>1
  <2>9. RoundMade(e, n, T, j, h, m, tm)
    <3>1. Fits(e, h, tm, V, V) /\ \E Q, N : Describes(e, h, tm, V, V, Q, N)
      BY <2>4
    <3> HIDE DEF V
    <3>2. V = T \ {<<instr, j>>}
      BY DEF V
    <3> QED BY <1>2, <1>4, <2>5, <2>7, <2>8, <3>1, <3>2 DEF RoundMade
  <2>10. h # fn
    BY <1>8, <1>10, <2>3 DEF NewPush
  <2> QED BY <2>9, <2>10 DEF h
<1>11. CASE x.dst = j /\ x.op # "receive"
  <2> DEFINE h == GenDef(g, j)
  <2>1. h = InsertInstr(g, Pos(g, c) + 1, [Ins("store", <<j>>, None, 0) EXCEPT !.slot = slot])
    BY <1>2, <1>8, <1>11 DEF GenDef, gen_spill_store
  <2> HIDE DEF h
  <2>2. c # Last(g.order)
    BY <1>2, <1>5, <1>11 DEF Sound, Ended
  <2>3. j < g.tmp
    <3>1. g.code[c].dst \in 0 .. g.tmp - 1 \cup {None} /\ g.tmp \in Nat
      BY <1>2, <1>4, SoundCode DEF Sound, Bounded
    <3> QED BY <1>2, <1>5, <1>11, <3>1
  <2>4. NewStore(g, m, h, c, j, slot)
    <3>1. slot \in Slots
      OBVIOUS
    <3> HIDE DEF c, V, slot, x
    <3> QED BY <1>2, <1>4, <1>5, <2>1, <2>2, <2>3, <3>1, StoreIsNew
  <2>5. Defines(e, g, T, c, j)
    <3>1. x.op = "reg_store" => ~Received(e, j)
      BY <1>11, NotReceived
    <3>2. <<c, j>> \in T
      OBVIOUS
    <3> QED BY <1>2, <1>11, <3>1, <3>2 DEF Defines
  <2>6. Fits(e, h, tm, V, T \ {<<c, j>>})
    <3>1. slot \in Locations(tm)
      OBVIOUS
    <3> HIDE DEF c, V, slot, x
    <3> QED BY <1>4, <1>7, <2>4, <2>5, <3>1, StoreFits
  <2>7. \E Q, N : Describes(e, h, tm, V, T \ {<<c, j>>}, Q, N)
    <3>1. slot \in Locations(tm) /\ Entry(tm, slot) = HomeIn(e, j) /\ <<c, j>> \notin V
      OBVIOUS
    <3> HIDE DEF c, V, slot, x
    <3>2. Describes(e, h, tm, V, T \ {<<c, j>>}, RegWithStore(e, g, m, tm, V, T, c, R, M),
                    MemWithStore(e, g, m, c, j, M))
      BY <1>4, <1>7, <2>4, <2>5, <3>1, StoreDescribed
    <3> QED BY <3>2
  <2>8. /\ NextOf(h, c) = m + 1 /\ m + 1 \in 1 .. m + 1
        /\ Behind(g, m, c, h, m + 1, m + 1) /\ Pos(h, c) <= Pos(h, m + 1)
    <3> HIDE DEF c, V, slot, x
    <3> QED BY <1>4, <2>4, StorePlaces
  <2>9. Behind(fn, n, c, h, m + 1, m + 1)
    <3> HIDE DEF c, V, slot, x
    <3> QED BY <1>1, <1>2, <2>8, BehindTwice
  <2>10. Sound(h, m + 1) /\ h.code[c].dst = j /\ n <= m + 1 /\ m + 1 \in Nat
    <3>1. Sound(h, m + 1) /\ h.code[c] = g.code[c]
      BY <1>4, <2>4 DEF NewStore, WithNew
    <3> QED BY <1>1, <1>2, <1>11, <3>1
  <2>11. Stores(fn, j)
    BY <1>8, <1>11
  <2>12. RoundMade(e, n, T, j, h, m + 1, tm)
    <3>1. Fits(e, h, tm, V, V) /\ \E Q, N : Describes(e, h, tm, V, V, Q, N)
      BY <2>6, <2>7
    <3> HIDE DEF V
    <3>2. V = T \ {<<instr, j>>}
      BY DEF V
    <3> QED BY <1>2, <1>4, <2>8, <2>9, <2>10, <2>11, <3>1, <3>2 DEF RoundMade
  <2>13. h # fn
    <3>1. Len(h.code) = m + 1 /\ Len(fn.code) = n
      BY <1>1, <2>10 DEF Sound
    <3> QED BY <1>1, <1>2, <3>1
  <2> QED BY <2>12, <2>13 DEF h
<1> QED BY <1>9, <1>10, <1>11

----------------------------------------------------------------------------
(* The invariant behind UsesReadLast *)

\* When the code runs, registers and homes hold what is known of them.
Dynamic(R, M) ==
  phase = "run" =>
    /\ \A x \in Nat : \A q \in R[pc][x] : want[q] # Junk => reg[x] = want[q]
    /\ \A l \in Locations(temps) : \A q \in M[pc][Entry(temps, l)] :
         want[q] # Junk => mem[l] = want[q]

Carried ==
  /\ Fits(Pass, fn, temps, Todo, Todo)
  /\ \E R, M : Describes(Pass, fn, temps, Todo, Todo, R, M) /\ Dynamic(R, M)

\* The loop stands at instr, or at the store behind it.
Walking ==
  /\ phase = "spill" =>
       /\ passes # 0
       /\ cur = instr \/ fn.code[instr].dst \notin todo
       /\ Pos(fn, instr) <= Pos(fn, cur)
  /\ phase \in {"number", "spill"} => pc = 1 /\ want = [r \in Sources |-> Junk]
  /\ phase = "run" => /\ DOMAIN reg = 0 .. fn.tmp - 1 /\ DOMAIN mem = Locations(temps)
                      /\ DOMAIN want = Sources

Usual == odd \subseteq {"joined"}

Held == Usual => Walking /\ Carried

\* The round goes on where the step does.
LEMMA RoundTodo ==
  ASSUME IInv, NEW j \in todo, SpillReg(j), NEW e, NEW n, NEW m, NEW tm,
         Sound(fn, n), RoundMade(e, n, Todo, j, fn', m, tm),
         Pos(fn, instr) <= Pos(fn, cur)
  PROVE  /\ Todo' = Todo \ {<<instr, j>>}
         /\ Pos(fn, instr)' <= Pos(fn, cur)'
         /\ fn.code[instr].dst = j /\ fn.code[instr].op # "receive" => fn'.code[instr].dst = j
<1> DEFINE V == Todo \ {<<instr, j>>}
           d == IF Stores(fn, j) THEN NextOf(fn', cur) ELSE cur
<1>1. /\ phase = "spill" /\ phase' = "spill" /\ cur' = d /\ instr' = instr
      /\ todo' = todo \ {j} /\ spill' = spill
  BY DEF SpillReg, Stores
<1>2. /\ m \in Nat /\ n <= m /\ Sound(fn', m) /\ d \in 1 .. m /\ Behind(fn, n, cur, fn', m, d)
      /\ Pos(fn', instr) <= Pos(fn', d) /\ (Stores(fn, j) => fn'.code[instr].dst = j)
  BY DEF RoundMade
<1>3. n \in Nat /\ Ids(fn) = 1 .. n /\ Len(fn.code) = n
  BY SoundCode
<1>4. Ids(fn') = 1 .. m
  BY <1>2, SoundCode
<1>5. instr \in 1 .. n /\ cur \in 1 .. n /\ todo \subseteq spill
  BY <1>3 DEF IInv, WalkOK
<1>6. Pos(fn, instr) \in Nat /\ Pos(fn, cur) \in Nat
  <2>1. Pos(fn, instr) \in 1 .. Len(fn.order) /\ Pos(fn, cur) \in 1 .. Len(fn.order)
    BY <1>5, SoundIds, OrderPlaces
  <2> QED BY <2>1
<1> HIDE DEF d
<1>7. Todo' = {p \in (1 .. m) \X spill :
                 (p[1] = instr /\ p[2] \in todo \ {j}) \/ Pos(fn', p[1]) > Pos(fn', d)}
  BY <1>1, <1>4 DEF Todo
<1>8. Todo = {p \in (1 .. n) \X spill :
                (p[1] = instr /\ p[2] \in todo) \/ Pos(fn, p[1]) > Pos(fn, cur)}
  BY <1>1, <1>3 DEF Todo
<1>9. \A a \in 1 .. m : Pos(fn', a) > Pos(fn', d) <=> a \in 1 .. n /\ Pos(fn, a) > Pos(fn, cur)
  BY <1>2 DEF Behind
<1>10. ASSUME NEW a, NEW x PROVE <<a, x>> \in Todo' <=> <<a, x>> \in Todo \ {<<instr, j>>}
  <2>1. a \in 1 .. n => a \in 1 .. m
    BY <1>2, <1>3
  <2>2. <<a, x>> \in Todo' <=> a \in 1 .. m /\ x \in spill
          /\ ((a = instr /\ x \in todo \ {j}) \/ (a \in 1 .. n /\ Pos(fn, a) > Pos(fn, cur)))
    BY <1>7, <1>9
  <2>3. <<a, x>> \in Todo <=> a \in 1 .. n /\ x \in spill
          /\ ((a = instr /\ x \in todo) \/ Pos(fn, a) > Pos(fn, cur))
    BY <1>8
  <2>4. ~(Pos(fn, instr) > Pos(fn, cur))
    BY <1>6
  <2> QED BY <1>5, <2>1, <2>2, <2>3, <2>4
<1>11. Todo' = Todo \ {<<instr, j>>}
  <2>1. \A p \in Todo' : p = <<p[1], p[2]>>
    BY <1>7
  <2>2. \A p \in Todo : p = <<p[1], p[2]>>
    BY <1>8
  <2> DEFINE W == Todo \ {<<instr, j>>}
  <2>3. ASSUME NEW p \in Todo' PROVE p \in W
    <3> DEFINE a == p[1]
               x == p[2]
    <3>1. p = <<a, x>>
      BY <2>1
    <3> HIDE DEF a, x, W
    <3>2. <<a, x>> \in W
      BY <1>10, <3>1 DEF W
    <3> QED BY <3>1, <3>2
  <2>4. ASSUME NEW p \in W PROVE p \in Todo'
    <3> DEFINE a == p[1]
               x == p[2]
    <3>1. p = <<a, x>>
      BY <2>2
    <3>2. p \in W
      OBVIOUS
    <3> HIDE DEF a, x, W
    <3>3. <<a, x>> \in Todo'
      BY <1>10, <3>1, <3>2 DEF W
    <3> QED BY <3>1, <3>3
  <2> QED BY <2>3, <2>4
<1>12. Pos(fn, instr)' <= Pos(fn, cur)'
  <2>1. Pos(fn, instr)' = Pos(fn', instr) /\ Pos(fn, cur)' = Pos(fn', d)
    BY <1>1 DEF Pos
  <2> QED BY <1>2, <2>1
<1> QED BY <1>2, <1>11, <1>12 DEF Stores

\* Where the marked register gets its place
LEMMA RoundPlace ==
  ASSUME NEW e, NEW n, NEW T, InPass(e, n, T), NEW j \in spill, "shared" \notin OddAt(j),
         NEW R, NEW M, Describes(e, fn, temps, T, T, R, M),
         Loaded(fn.code[instr], j) # {} \/ fn.code[instr].dst = j
  PROVE  LET tm == temp_stack_location(j) IN
         /\ Fits(e, fn, tm, T, T) /\ Describes(e, fn, tm, T, T, R, M)
         /\ Location(j) \in Locations(tm) /\ Entry(tm, Location(j)) = HomeIn(e, j)
<1> DEFINE tm == temp_stack_location(j)
<1>1. /\ Sound(fn, n) /\ instr \in 1 .. n /\ InfoOK /\ passes \in Nat /\ passes # 0
      /\ e.info = info /\ e.passes = passes /\ e.spill = spill
      /\ Fits(e, fn, temps, T, T)
      /\ PassOK(e) /\ PlacesOK(e, temps) /\ Shape(e, fn, temps)
  BY DEF InPass, Fits
<1>2. j \in DOMAIN info
  BY <1>1 DEF PassOK
<1>3. \/ info[j].var # None
      \/ ~(TempIndex(info[j].key) <= Len(temps) /\ temps[TempIndex(info[j].key)].pass # passes)
  <2>1. CASE Loaded(fn.code[instr], j) # {} \/ fn.code[instr].op # "receive"
    BY <2>1 DEF OddAt
  <2>2. CASE fn.code[instr].dst = j /\ fn.code[instr].op = "receive"
    <3>1. instr \in Originals(e) /\ AsWas(e, fn, instr) /\ BodyInstr(e.src, instr - 1)
      BY <1>1, <2>2, Kinds DEF SourceOps
    <3>2. VarIn(e, j) = Was(e, instr).dst /\ Was(e, instr).dst \in VarRegs
      BY <2>2, <3>1 DEF AsWas, BodyInstr, Was
    <3>3. VarIn(e, j) # None
      BY <3>2, RegsAssumption, ValAssumption DEF Sources
    <3> QED BY <1>1, <1>2, <3>3 DEF VarIn
  <2> QED BY <2>1, <2>2
<1>4. /\ PlacesOK(e, tm) /\ MorePlaces(temps, tm)
      /\ Location(j) \in Locations(tm) /\ Entry(tm, Location(j)) = HomeIn(e, j)
  BY <1>1, <1>2, <1>3, PlaceFound
<1> HIDE DEF tm
<1>5. Fits(e, fn, tm, T, T) /\ Describes(e, fn, tm, T, T, R, M)
  BY <1>1, <1>4, PlacesGrow
<1> QED BY <1>4, <1>5 DEF tm

\* The round of SpillReg
LEMMA RoundMakes ==
  ASSUME NEW e, NEW n, NEW T, InPass(e, n, T), NEW j \in spill, j \in todo, <<instr, j>> \in T,
         OddAt(j) \subseteq {"joined"}, Location(j) \in Slots,
         NEW R, NEW M, Describes(e, fn, temps, T, T, R, M),
         cur = instr \/ fn.code[instr].dst \notin todo,
         Pos(fn, instr) <= Pos(fn, cur)
  PROVE  LET h == GenDef(GenLoads(fn, j), j) IN
         \E m : RoundMade(e, n, T, j, h, m, IF h # fn THEN temp_stack_location(j) ELSE temps)
<1> DEFINE g == GenLoads(fn, j)
           h == GenDef(g, j)
           i == fn.code[instr]
<1>1. Sound(fn, n) /\ n \in Nat /\ Ids(fn) = 1 .. n
  BY SoundCode DEF InPass
<1>2. CASE Loaded(i, j) = {} /\ i.dst # j
  <2>1. h = fn /\ RoundMade(e, n, T, j, fn, n, temps)
    BY <1>2, SpillNothing
  <2> HIDE DEF h
  <2> QED BY <2>1 DEF h
<1>3. CASE Loaded(i, j) # {} \/ i.dst = j
  <2> DEFINE tm == temp_stack_location(j)
  <2>1. "unloaded" \notin OddAt(j) /\ "shared" \notin OddAt(j)
        /\ "jumped" \notin OddAt(j) /\ "late" \notin OddAt(j)
    OBVIOUS
  <2>2. cur = instr
    BY <1>3, <2>1 DEF OddAt
  <2>3. Loaded(fn.code[instr], j) # {} => NoJump(fn, n, cur)
    BY <1>1, <2>1 DEF OddAt, NoJump, JumpsTo
  <2>4. /\ Fits(e, fn, tm, T, T) /\ Describes(e, fn, tm, T, T, R, M)
        /\ Location(j) \in Locations(tm) /\ Entry(tm, Location(j)) = HomeIn(e, j)
    BY <1>3, <2>1, RoundPlace
  <2> HIDE DEF tm
  <2>5. \E m : LoadsMade(e, fn, n, tm, T, cur, j, g, m)
    BY <2>2, <2>3, <2>4, SpillLoads
  <2> HIDE DEF g
  <2>6. PICK m : LoadsMade(e, fn, n, tm, T, cur, j, g, m)
    BY <2>5
  <2>7. Loaded(i, j) # {} => g # fn
    <3> SUFFICES ASSUME NEW l \in Loaded(i, j), g = fn PROVE FALSE
      OBVIOUS
    <3>1. l \in DOMAIN i.src /\ i.src[l] = j
      BY DEF Loaded
    <3>2. l \notin Loaded(i, j)
      BY <2>2, <2>6, <3>1 DEF LoadsMade
    <3> QED BY <3>2
  <2>8. (\E k : RoundMade(e, n, T, j, h, k, tm)) /\ (i.dst = j \/ g # fn => h # fn)
    BY <2>1, <2>2, <2>4, <2>6, SpillDef
  <2> HIDE DEF h
  <2>9. h # fn
    BY <1>3, <2>7, <2>8
  <2> QED BY <2>8, <2>9 DEF h, g, tm
<1> QED BY <1>2, <1>3

\* A round keeps the values known.
LEMMA HeldSpillReg ==
  ASSUME IInv, Held, NEW j \in todo, SpillReg(j)
  PROVE  Held'
<1> SUFFICES ASSUME Usual' PROVE (Walking /\ Carried)'
  BY DEF Held
<1> DEFINE n == Len(fn.code)
           e == Pass
           T == Todo
           h == GenDef(GenLoads(fn, j), j)
<1>1. /\ phase = "spill" /\ phase' = "spill" /\ fn' = h /\ odd' = odd \cup OddAt(j)
      /\ temps' = (IF fn' # fn THEN temp_stack_location(j) ELSE temps)
      /\ todo' = todo \ {j} /\ instr' = instr /\ spill' = spill /\ passes' = passes
      /\ info' = info /\ source' = source /\ pc' = pc /\ want' = want
      /\ cur' = IF Stores(fn, j) THEN NextOf(fn', cur) ELSE cur
  BY DEF SpillReg, mach, Stores
<1>2. Usual /\ OddAt(j) \subseteq {"joined"}
  BY <1>1 DEF Usual
<1>3. Walking /\ Carried
  BY <1>2 DEF Held
<1>4. /\ passes # 0 /\ (cur = instr \/ fn.code[instr].dst \notin todo)
      /\ Pos(fn, instr) <= Pos(fn, cur) /\ pc = 1 /\ want = [r \in Sources |-> Junk]
  BY <1>1, <1>3 DEF Walking
<1>5. PICK R, M : Describes(e, fn, temps, T, T, R, M)
  BY <1>3 DEF Carried
<1>6. /\ Sound(fn, n) /\ cur \in 1 .. n /\ instr \in 1 .. n /\ InfoOK /\ passes \in Nat
      /\ j \in spill /\ j \in DOMAIN info
  BY DEF IInv, WalkOK
<1>7. Location(j) \in Slots
  BY <1>6, LocationType
<1>8. Ids(fn) = 1 .. n
  BY <1>6, SoundCode
<1>9. InPass(e, n, T)
  <2>1. e.info = info /\ e.passes = passes /\ e.spill = spill
    BY <1>1 DEF Pass
  <2>2. \A a, x : <<a, x>> \in T => a = instr \/ Pos(fn, a) > Pos(fn, cur)
    BY DEF Todo
  <2>3. Fits(e, fn, temps, T, T)
    BY <1>3 DEF Carried
  <2> HIDE DEF e, T, n
  <2> QED BY <1>4, <1>6, <2>1, <2>2, <2>3 DEF InPass
<1>10. <<instr, j>> \in T
  BY <1>1, <1>6, <1>8 DEF Todo
<1> HIDE DEF n, e, T
<1>11. \E m : RoundMade(e, n, T, j, h, m, IF h # fn THEN temp_stack_location(j) ELSE temps)
  BY <1>2, <1>4, <1>5, <1>6, <1>7, <1>9, <1>10, RoundMakes
<1> HIDE DEF h
<1>12. PICK m : RoundMade(e, n, T, j, fn', m, temps')
  BY <1>1, <1>11
<1>13. /\ Todo' = Todo \ {<<instr, j>>}
       /\ Pos(fn, instr)' <= Pos(fn, cur)'
       /\ fn.code[instr].dst = j /\ fn.code[instr].op # "receive" => fn'.code[instr].dst = j
  BY <1>4, <1>6, <1>12, RoundTodo DEF T
<1>14. Pass' = e
  BY <1>1 DEF Pass, e
<1>15. Carried'
  <2>1. /\ Fits(e, fn', temps', Todo', Todo')
        /\ \E Q, N : Describes(e, fn', temps', Todo', Todo', Q, N)
    BY <1>12, <1>13 DEF RoundMade, T
  <2>2. PICK Q, N : Describes(e, fn', temps', Todo', Todo', Q, N)
    BY <2>1
  <2>3. Dynamic(Q, N)'
    BY <1>1 DEF Dynamic
  <2>4. Fits(Pass, fn, temps, Todo, Todo)' /\ Describes(Pass, fn, temps, Todo, Todo, Q, N)'
    BY <1>14, <2>1, <2>2
  <2> QED BY <2>3, <2>4 DEF Carried
<1>16. cur' = instr' \/ fn'.code[instr'].dst \notin todo'
  <2>1. CASE Stores(fn, j)
    BY <1>1, <1>13, <2>1 DEF Stores
  <2>2. CASE ~Stores(fn, j) /\ cur = instr
    BY <1>1, <2>2
  <2>3. CASE ~Stores(fn, j) /\ cur # instr
    <3>1. fn.code[instr].dst # j
      BY <1>4, <2>3
    <3>2. Loaded(fn.code[instr], j) = {}
      <4>1. "late" \notin OddAt(j)
        BY <1>2
      <4> QED BY <2>3, <4>1 DEF OddAt
    <3>3. h = fn
      <4>1. GenLoads(fn, j) = fn
        BY <1>6, <1>7, <3>2, LoadsFrom
      <4> QED BY <3>1, <4>1 DEF GenDef, h
    <3>4. fn' = fn /\ instr' = instr /\ todo' \subseteq todo
      BY <1>1, <3>3
    <3>5. fn.code[instr].dst \notin todo
      BY <1>4, <2>3
    <3> QED BY <3>4, <3>5
  <2> QED BY <2>1, <2>2, <2>3
<1>17. Walking'
  <2>1. passes' # 0 /\ pc' = 1 /\ want' = [r \in Sources |-> Junk] /\ phase' # "run"
    BY <1>1, <1>4
  <2> QED BY <1>13, <1>16, <2>1 DEF Walking
<1> QED BY <1>15, <1>17

\* The next instruction takes up what is left of the pass.
LEMMA HeldNextInstr ==
  ASSUME IInv, Held, NextInstr
  PROVE  Held'
<1> SUFFICES ASSUME Usual' PROVE (Walking /\ Carried)'
  BY DEF Held
<1> DEFINE n == Len(fn.code)
           next == NextOf(fn, cur)
<1>1. /\ phase = "spill" /\ phase' = "spill" /\ fn' = fn /\ odd' = odd /\ temps' = temps
      /\ todo = {} /\ todo' = spill /\ cur # Last(fn.order) /\ cur' = next /\ instr' = next
      /\ spill' = spill /\ passes' = passes
      /\ info' = info /\ source' = source /\ pc' = pc /\ want' = want
  BY DEF NextInstr, mach
<1>2. Walking /\ Carried
  BY <1>1 DEF Held, Usual
<1>3. Sound(fn, n) /\ cur \in 1 .. n /\ n \in Nat /\ Built(fn, n) /\ Ids(fn) = 1 .. n
  BY SoundIds DEF IInv, WalkOK
<1> HIDE DEF n
<1>4. /\ Len(fn.order) \in Nat
      /\ \A a \in 1 .. n : Pos(fn, a) \in 1 .. Len(fn.order) /\ fn.order[Pos(fn, a)] = a
      /\ \A p \in 1 .. Len(fn.order) : fn.order[p] \in 1 .. n /\ Pos(fn, fn.order[p]) = p
  BY <1>3, OrderPlaces
<1>5. next \in 1 .. n /\ Pos(fn, next) = Pos(fn, cur) + 1
  <2> DEFINE p == Pos(fn, cur)
  <2>1. p \in 1 .. Len(fn.order) /\ fn.order[p] = cur
    BY <1>3, <1>4
  <2>2. p # Len(fn.order)
    BY <1>1, <2>1 DEF Last
  <2>3. next = fn.order[p + 1]
    BY DEF NextOf
  <2> HIDE DEF p, next
  <2>4. p + 1 \in 1 .. Len(fn.order)
    BY <1>4, <2>1, <2>2
  <2>5. next \in 1 .. n /\ Pos(fn, next) = p + 1
    BY <1>4, <2>3, <2>4
  <2> QED BY <2>5 DEF p
<1> HIDE DEF next
<1>6. ASSUME NEW a \in 1 .. n PROVE Pos(fn, a) > Pos(fn, cur) <=> a = next \/ Pos(fn, a) > Pos(fn, next)
  <2>1. Pos(fn, a) = Pos(fn, next) => a = next
    BY <1>4, <1>5
  <2>2. Pos(fn, a) \in Nat /\ Pos(fn, cur) \in Nat
    BY <1>3, <1>4
  <2> QED BY <1>5, <2>1, <2>2
<1>7. Todo' = Todo
  <2>1. Todo = {p \in (1 .. n) \X spill : Pos(fn, p[1]) > Pos(fn, cur)}
    BY <1>1, <1>3 DEF Todo
  <2>2. Todo' = {p \in (1 .. n) \X spill : (p[1] = next /\ p[2] \in spill)
                                            \/ Pos(fn, p[1]) > Pos(fn, next)}
    BY <1>1, <1>3 DEF Todo
  <2>3. \A p \in (1 .. n) \X spill : p[1] \in 1 .. n /\ p[2] \in spill
    OBVIOUS
  <2> QED BY <1>6, <2>1, <2>2, <2>3
<1>8. Pass' = Pass
  BY <1>1 DEF Pass
<1>9. Carried'
  <2>1. PICK R, M : Describes(Pass, fn, temps, Todo, Todo, R, M)
    BY <1>2 DEF Carried
  <2>2. Dynamic(R, M)'
    BY <1>1 DEF Dynamic
  <2>3. Fits(Pass, fn, temps, Todo, Todo)
    BY <1>2 DEF Carried
  <2>4. Fits(Pass, fn, temps, Todo, Todo)' /\ Describes(Pass, fn, temps, Todo, Todo, R, M)'
    BY <1>1, <1>7, <1>8, <2>1, <2>3
  <2> QED BY <2>2, <2>4 DEF Carried
<1>10. Walking'
  <2>1. Pos(fn, instr)' <= Pos(fn, cur)'
    <3>1. Pos(fn, next) \in 1 .. Len(fn.order)
      BY <1>4, <1>5
    <3>2. Pos(fn, next) <= Pos(fn, next)
      BY <1>4, <3>1
    <3>3. Pos(fn, instr)' = Pos(fn, next) /\ Pos(fn, cur)' = Pos(fn, next)
      BY <1>1 DEF Pos
    <3> QED BY <3>2, <3>3
  <2>2. passes # 0 /\ pc = 1 /\ want = [r \in Sources |-> Junk]
    BY <1>1, <1>2 DEF Walking
  <2> QED BY <1>1, <2>1, <2>2 DEF Walking
<1> QED BY <1>9, <1>10

\* What is known of a function does not depend on the marks when nothing is left
\* to do.
LEMMA PassOver ==
  ASSUME NEW e, NEW f, NEW tm, NEW R, NEW M,
         Fits(e, f, tm, {}, {}), Describes(e, f, tm, {}, {}, R, M),
         NEW d, d.src = e.src, d.info = e.info, d.passes = e.passes, d.spill = {}
  PROVE  Fits(d, f, tm, {}, {}) /\ Describes(d, f, tm, {}, {}, R, M)
<1>1. /\ \A x : VarIn(d, x) = VarIn(e, x) /\ HomeIn(d, x) = HomeIn(e, x)
      /\ \A a : Was(d, a) = Was(e, a)
      /\ \A x : Received(d, x) <=> Received(e, x)
      /\ Originals(d) = Originals(e)
  <2>1. \A x : VarIn(d, x) = VarIn(e, x)
    BY DEF VarIn
  <2>2. \A x : HomeIn(d, x) = HomeIn(e, x)
    BY DEF HomeIn
  <2>3. \A x : Received(d, x) <=> Received(e, x)
    BY <2>1 DEF Received
  <2> QED BY <2>1, <2>2, <2>3 DEF Was, Originals
<1>2. Fits(d, f, tm, {}, {})
  <2>1. PassOK(d) /\ PlacesOK(d, tm)
    BY DEF Fits, PassOK, PlacesOK
  <2>2. \A a \in Originals(e) : /\ AsWas(e, f, a) => AsWas(d, f, a)
                                /\ AsReceived(e, f, tm, a) => AsReceived(d, f, tm, a)
    BY <1>1 DEF AsWas, AsReceived
  <2>3. \A a : AsSpilled(e, f, tm, a) => AsSpilled(d, f, tm, a)
    BY <1>1 DEF AsSpilled
  <2>4. Shape(d, f, tm)
    BY <1>1, <2>2, <2>3 DEF Fits, Shape
  <2>5. ReceivesLeft(d, f, {})
    BY DEF ReceivesLeft
  <2> QED BY <2>1, <2>4, <2>5 DEF Fits
<1>3. \A a, x, q : Known(d, {}, R, M, a, x, q) <=> Known(e, {}, R, M, a, x, q)
  BY DEF Known
<1>4. \A a, q : /\ Written(d, f, tm, {}, R, M, a, q) <=> Written(e, f, tm, {}, R, M, a, q)
                /\ Unchanged(d, f, a, q) <=> Unchanged(e, f, a, q)
  BY <1>1, <1>3 DEF Written, Unchanged
<1>5. \A a, x, q : RegAfter(e, f, tm, {}, {}, R, M, a, x, q) => RegAfter(d, f, tm, {}, {}, R, M, a, x, q)
  BY <1>4 DEF RegAfter
<1>6. \A a, h : ToHome(d, f, tm, {}, a, h) <=> ToHome(e, f, tm, {}, a, h)
  BY DEF ToHome
<1>7. \A a, h, q : MemAfter(e, f, tm, {}, {}, R, M, a, h, q) => MemAfter(d, f, tm, {}, {}, R, M, a, h, q)
  BY <1>4, <1>6 DEF MemAfter
<1>8. Flow(d, f, tm, {}, {}, R, M)
  BY <1>5, <1>7 DEF Describes, Flow
<1>9. OperandsKnown(d, f, {}, R, M) /\ StoresKnown(d, f, tm, {}, R, M)
  <2>1. OperandsKnown(e, f, {}, R, M) /\ StoresKnown(e, f, tm, {}, R, M)
    BY DEF Describes
  <2>2. OperandsKnown(d, f, {}, R, M)
    BY <1>1, <1>3, <2>1 DEF OperandsKnown
  <2>3. StoresKnown(d, f, tm, {}, R, M)
    BY <1>3, <2>1 DEF StoresKnown
  <2> QED BY <2>2, <2>3
<1>10. InBoth(d, f, R, M) /\ Owned(d, f, R, M)
  BY <1>1 DEF Describes, InBoth, Owned
<1> QED BY <1>2, <1>8, <1>9, <1>10 DEF Describes

\* At the end of a pass nothing is left to do.
LEMMA HeldPassEnd ==
  ASSUME IInv, Held, PassEnd
  PROVE  Held'
<1> SUFFICES ASSUME Usual' PROVE (Walking /\ Carried)'
  BY DEF Held
<1> DEFINE n == Len(fn.code)
<1>1. /\ phase = "spill" /\ phase' = "number" /\ fn' = fn /\ odd' = odd /\ temps' = temps
      /\ todo = {} /\ cur = Last(fn.order) /\ passes' = passes
      /\ info' = info /\ source' = source /\ pc' = pc /\ want' = want
  BY DEF PassEnd, alloc, mach
<1>2. Walking /\ Carried
  BY <1>1 DEF Held, Usual
<1>3. Sound(fn, n) /\ n \in Nat /\ Built(fn, n) /\ Ids(fn) = 1 .. n /\ cur \in 1 .. n
  BY SoundIds DEF IInv, WalkOK
<1> HIDE DEF n
<1>4. Todo = {}
  <2>1. /\ Len(fn.order) \in Nat
        /\ \A a \in 1 .. n : Pos(fn, a) \in 1 .. Len(fn.order)
        /\ \A p \in 1 .. Len(fn.order) : Pos(fn, fn.order[p]) = p
    BY <1>3, OrderPlaces
  <2>2. Len(fn.order) \in 1 .. Len(fn.order)
    BY <1>3, <2>1
  <2>3. Pos(fn, cur) = Len(fn.order)
    BY <1>1, <2>1, <2>2 DEF Last
  <2>4. \A a \in 1 .. n : ~(Pos(fn, a) > Pos(fn, cur))
    BY <2>1, <2>3
  <2>5. \A p \in (1 .. n) \X spill : p[1] \in 1 .. n
    OBVIOUS
  <2> QED BY <1>1, <1>3, <2>4, <2>5 DEF Todo
<1>5. Todo' = {}
  BY <1>1 DEF Todo
<1>6. /\ Pass'.src = Pass.src /\ Pass'.info = Pass.info /\ Pass'.passes = Pass.passes
      /\ Pass'.spill = {}
  BY <1>1 DEF Pass
<1>7. Carried'
  <2>1. PICK R, M : Describes(Pass, fn, temps, {}, {}, R, M)
    BY <1>2, <1>4 DEF Carried
  <2>2. Dynamic(R, M)'
    BY <1>1 DEF Dynamic
  <2>3. Fits(Pass, fn, temps, {}, {})
    BY <1>2, <1>4 DEF Carried
  <2>4. Fits(Pass', fn, temps, {}, {}) /\ Describes(Pass', fn, temps, {}, {}, R, M)
    <3> DEFINE d == Pass'
               e == Pass
    <3>1. d.src = e.src /\ d.info = e.info /\ d.passes = e.passes /\ d.spill = {}
      BY <1>6
    <3>2. Fits(e, fn, temps, {}, {}) /\ Describes(e, fn, temps, {}, {}, R, M)
      BY <2>1, <2>3
    <3> HIDE DEF d, e
    <3>3. Fits(d, fn, temps, {}, {}) /\ Describes(d, fn, temps, {}, {}, R, M)
      BY <3>1, <3>2, PassOver
    <3> QED BY <3>3 DEF d
  <2>5. Fits(Pass, fn, temps, Todo, Todo)' /\ Describes(Pass, fn, temps, Todo, Todo, R, M)'
    BY <1>1, <1>5, <2>4
  <2> QED BY <2>2, <2>5 DEF Carried
<1>8. Walking'
  BY <1>1, <1>2 DEF Walking
<1> QED BY <1>7, <1>8

----------------------------------------------------------------------------
(* Numbering anew gives each register a number of its own *)

Once == {l \in Seq(Nat) : IsInjective(l)}

\* ig_build_graph adds a register only once.
LEMMA AddMissingOnce ==
  ASSUME NEW found \in Once, NEW ops \in Seq(Nat)
  PROVE  AddMissing(found, ops) \in Once
<1> DEFINE len == Len(ops)
           S == Once
           More(l, k) == IF Contains(l, ops[k]) THEN l ELSE Append(l, ops[k])
           step == [p \in S \X (1 .. len) |-> More(p[1], p[2])]
           Solves(g) == g = [k \in 0 .. len |-> IF k = 0 THEN found ELSE More(g[k - 1], k)]
           with == CHOOSE g : Solves(g)
<1>1. len \in Nat /\ DOMAIN ops = 1 .. len /\ \A k \in 1 .. len : ops[k] \in Nat
  OBVIOUS
<1>2. ASSUME NEW l \in S, NEW k \in 1 .. len PROVE More(l, k) \in S
  <2>1. l \in Seq(Nat) /\ IsInjective(l) /\ ops[k] \in Nat
    BY <1>1 DEF Once
  <2>2. CASE ~Contains(l, ops[k])
    <3> DEFINE t == Append(l, ops[k])
               n == Len(l)
    <3>1. /\ t \in Seq(Nat) /\ n \in Nat /\ DOMAIN l = 1 .. n /\ DOMAIN t = 1 .. n + 1
          /\ t[n + 1] = ops[k] /\ \A q \in 1 .. n : t[q] = l[q]
      BY <2>1
    <3>2. \A q \in 1 .. n : l[q] # ops[k]
      BY <2>2, <3>1 DEF Contains
    <3>3. More(l, k) = t
      BY <2>2
    <3> HIDE DEF t, n, More
    <3>4. ASSUME NEW a \in 1 .. n + 1, NEW b \in 1 .. n + 1, t[a] = t[b] PROVE a = b
      <4>1. (a = n + 1 \/ a \in 1 .. n) /\ (b = n + 1 \/ b \in 1 .. n)
        BY <3>1
      <4>2. a \in 1 .. n /\ b \in 1 .. n => l[a] = l[b]
        BY <3>1, <3>4
      <4>3. a \in 1 .. n /\ b \in 1 .. n => a = b
        BY <2>1, <3>1, <4>2 DEF IsInjective
      <4> QED BY <3>1, <3>2, <3>4, <4>1, <4>3
    <3>5. IsInjective(t)
      BY <3>1, <3>4 DEF IsInjective
    <3> QED BY <3>1, <3>3, <3>5 DEF Once
  <2> QED BY <2>2
<1>3. AddMissing(found, ops) = with[len]
  BY DEF AddMissing
<1> HIDE DEF S, len, More
<1>4. step \in Rounds(S, len) /\ found \in S
  BY <1>2 DEF Rounds, S
<1>5. PICK g \in [0 .. len -> S] : Loop(g, found, len, step)
  <2>1. Loops(S, found, len, step) # {}
    <3> HIDE DEF step
    <3> QED BY <1>1, <1>4, IterationExists
  <2> QED BY <2>1 DEF Loops
<1>6. Solves(g)
  <2>1. ASSUME NEW k \in 0 .. len
        PROVE  g[k] = IF k = 0 THEN found ELSE More(g[k - 1], k)
    <3>1. CASE k = 0
      BY <1>5, <3>1 DEF Loop
    <3>2. CASE k # 0
      <4>1. k \in 1 .. len /\ g[k - 1] \in S
        BY <1>1, <3>2
      <4>2. g[k] = step[<<g[k - 1], k>>]
        BY <1>5, <3>2 DEF Loop
      <4> QED BY <3>2, <4>1, <4>2
    <3> QED BY <3>1, <3>2
  <2>2. g = [k \in 0 .. len |-> g[k]]
    OBVIOUS
  <2> QED BY <2>1, <2>2, Zenon
<1>7. Solves(with)
  <2> HIDE DEF Solves
  <2> QED BY <1>6
<1> HIDE DEF with
<1>8. with[0] = found /\ \A k \in 1 .. len : with[k] = More(with[k - 1], k)
  BY <1>1, <1>7
<1>9. with[len] \in S
  <2> DEFINE T == {k \in 0 .. len : with[k] \in S}
  <2>1. 0 \in T
    BY <1>1, <1>4, <1>8
  <2>2. ASSUME NEW k \in 1 .. len, k - 1 \in T PROVE k \in T
    BY <1>1, <1>2, <1>8, <2>2
  <2>3. 0 .. len \subseteq T
    <3> HIDE DEF T
    <3> QED BY <1>1, <2>1, <2>2, Upward
  <2> QED BY <1>1, <2>3
<1> QED BY <1>3, <1>9 DEF S

\* No register has two numbers.
LEMMA SymRegsOnce ==
  ASSUME NEW n \in Nat, NEW f, Len(f.code) = n, f.code \in [1 .. n -> Instr]
  PROVE  SymRegs(f) \in Once
<1> DEFINE S == Once
           More(l, a) == AddMissing(l, Operands(f.code[a]))
           step == [p \in S \X (1 .. n) |-> More(p[1], p[2])]
           Solves(g) == g = [a \in 0 .. n |-> IF a = 0 THEN <<>> ELSE More(g[a - 1], a)]
           upTo == CHOOSE g : Solves(g)
<1>1. <<>> \in S
  BY DEF Once, IsInjective
<1>2. ASSUME NEW l \in S, NEW a \in 1 .. n PROVE More(l, a) \in S
  <2> DEFINE ops == Operands(f.code[a])
  <2>1. f.code[a] \in Instr
    OBVIOUS
  <2>2. ops \in Seq(Nat)
    BY <2>1, OperandsIn
  <2> HIDE DEF ops
  <2>3. AddMissing(l, ops) \in Once
    BY <2>2, AddMissingOnce
  <2> QED BY <2>3 DEF ops
<1>3. SymRegs(f) = upTo[n]
  BY DEF SymRegs
<1> HIDE DEF S, More
<1>4. step \in Rounds(S, n)
  BY <1>2 DEF Rounds
<1>5. PICK g \in [0 .. n -> S] : Loop(g, <<>>, n, step)
  <2>1. Loops(S, <<>>, n, step) # {}
    <3> HIDE DEF step
    <3> QED BY <1>1, <1>4, IterationExists
  <2> QED BY <2>1 DEF Loops
<1>6. Solves(g)
  <2>1. ASSUME NEW a \in 0 .. n
        PROVE  g[a] = IF a = 0 THEN <<>> ELSE More(g[a - 1], a)
    <3>1. CASE a = 0
      BY <1>5, <3>1 DEF Loop
    <3>2. CASE a # 0
      <4>1. a \in 1 .. n /\ g[a - 1] \in S
        BY <3>2
      <4>2. g[a] = step[<<g[a - 1], a>>]
        BY <1>5, <3>2 DEF Loop
      <4> QED BY <3>2, <4>1, <4>2
    <3> QED BY <3>1, <3>2
  <2>2. g = [a \in 0 .. n |-> g[a]]
    OBVIOUS
  <2> QED BY <2>1, <2>2, Zenon
<1>7. Solves(upTo)
  <2> HIDE DEF Solves
  <2> QED BY <1>6
<1> HIDE DEF upTo
<1>8. upTo[0] = <<>> /\ \A a \in 1 .. n : upTo[a] = More(upTo[a - 1], a)
  BY <1>7
<1>9. upTo[n] \in S
  <2> DEFINE T == {a \in 0 .. n : upTo[a] \in S}
  <2>1. 0 \in T
    BY <1>1, <1>8
  <2>2. ASSUME NEW a \in 1 .. n, a - 1 \in T PROVE a \in T
    BY <1>2, <1>8, <2>2
  <2>3. 0 .. n \subseteq T
    <3> HIDE DEF T
    <3> QED BY <2>1, <2>2, Upward
  <2> QED BY <2>3
<1> QED BY <1>3, <1>9 DEF S

\* The register behind a number is the one that got it.
LEMMA SymRegBack ==
  ASSUME NEW regs \in Seq(Nat), NEW r, Has(regs, r)
  PROVE  SymReg(regs, r) \in 0 .. Len(regs) - 1 /\ regs[SymReg(regs, r) + 1] = r
<1> DEFINE k == CHOOSE k \in DOMAIN regs : regs[k] = r
<1>1. k \in DOMAIN regs /\ regs[k] = r
  BY DEF Has
<1> HIDE DEF k
<1>2. k \in 1 .. Len(regs) /\ Len(regs) \in Nat /\ SymReg(regs, r) = k - 1
  BY <1>1 DEF SymReg, k
<1>3. (k - 1) + 1 = k /\ k - 1 \in 0 .. Len(regs) - 1
  BY <1>2
<1> QED BY <1>1, <1>2, <1>3

\* An instruction and what it is with its registers numbered
SameBehind(regs, i, j) ==
  /\ j.op = i.op /\ j.jump = i.jump /\ j.slot = i.slot
  /\ DOMAIN j.src = DOMAIN i.src
  /\ \A k \in DOMAIN i.src : j.src[k] \in 0 .. Len(regs) - 1 /\ regs[j.src[k] + 1] = i.src[k]
  /\ j.dst = None <=> i.dst = None
  /\ i.dst # None => j.dst \in 0 .. Len(regs) - 1 /\ regs[j.dst + 1] = i.dst

\* Behind the numbers stand the registers of the instruction.
LEMMA NumbersBack ==
  ASSUME NEW i \in Instr, NEW regs \in Seq(Nat), Holds(regs, Operands(i))
  PROVE  SameBehind(regs, i, SymInstr(i, regs))
<1> DEFINE src == [k \in DOMAIN i.src |-> SymReg(regs, i.src[k])]
           dst == IF i.dst = None THEN None ELSE SymReg(regs, i.dst)
           j == SymInstr(i, regs)
<1>1. \A x : Has(Operands(i), x) => Has(regs, x)
  BY DEF Has, Holds
<1>2. j = [i EXCEPT !.src = src, !.dst = dst]
  BY DEF SymInstr, Instr
<1>3. \A k \in DOMAIN i.src : Has(regs, i.src[k])
  BY <1>1, OperandsIn DEF Holds
<1>4. i.dst # None => Has(regs, i.dst)
  BY <1>1, OperandsIn
<1>5. j.op = i.op /\ j.jump = i.jump /\ j.slot = i.slot /\ j.src = src /\ j.dst = dst
  BY <1>2 DEF Instr
<1>6. \A k \in DOMAIN i.src : src[k] \in 0 .. Len(regs) - 1 /\ regs[src[k] + 1] = i.src[k]
  BY <1>3, SymRegBack
<1>7. i.dst # None => dst \in 0 .. Len(regs) - 1 /\ regs[dst + 1] = i.dst
  BY <1>4, SymRegBack
<1>8. dst = None <=> i.dst = None
  <2>1. \A x \in 0 .. Len(regs) - 1 : x # None
    BY ValAssumption
  <2> QED BY <1>7, <2>1
<1> HIDE DEF src, dst, j
<1>9. DOMAIN src = DOMAIN i.src
  BY DEF src
<1> QED BY <1>5, <1>6, <1>7, <1>8, <1>9 DEF SameBehind, j

----------------------------------------------------------------------------
(* What a pass begins with *)

\* d is the pass whose registers are the numbers of regs, and h the function f
\* with these registers.
Renumbers(e, f, n, regs, d, h) ==
  /\ regs \in Once
  /\ Sound(f, n) /\ Sound(h, n) /\ h.order = f.order /\ Len(regs) <= h.tmp
  /\ \A a \in 1 .. n : SameBehind(regs, f.code[a], h.code[a])
  /\ d.src = e.src
  /\ DOMAIN d.info = 0 .. Len(regs) - 1
  /\ \A x \in 0 .. Len(regs) - 1 :
       d.info[x].var = VarIn(e, regs[x + 1]) /\ d.info[x].key = regs[x + 1]
  /\ d.spill \subseteq DOMAIN d.info
  /\ d.passes = IF d.spill = {} THEN e.passes ELSE e.passes + 1

\* The register behind a number, in both passes
LEMMA NumberMeans ==
  ASSUME NEW e, NEW f, NEW n, NEW regs, NEW d, NEW h, Renumbers(e, f, n, regs, d, h),
         PassOK(e), NEW x \in 0 .. Len(regs) - 1
  PROVE  /\ regs[x + 1] \in Nat /\ x \in Nat /\ x \in DOMAIN d.info
         /\ VarIn(d, x) = VarIn(e, regs[x + 1]) /\ d.info[x].var = VarIn(e, regs[x + 1])
         /\ VarIn(e, regs[x + 1]) \in VarRegs \cup {None}
         /\ VarIn(e, regs[x + 1]) # None => regs[x + 1] \in DOMAIN e.info
         /\ Received(d, x) <=> Received(e, regs[x + 1])
         /\ \A y \in 0 .. Len(regs) - 1 : regs[x + 1] = regs[y + 1] => x = y
<1>1. regs \in Seq(Nat) /\ IsInjective(regs) /\ Len(regs) \in Nat /\ DOMAIN regs = 1 .. Len(regs)
  BY DEF Renumbers, Once
<1>2. x + 1 \in 1 .. Len(regs) /\ x \in Nat
  BY <1>1
<1>3. regs[x + 1] \in Nat
  BY <1>1, <1>2
<1>4. x \in DOMAIN d.info /\ d.info[x].var = VarIn(e, regs[x + 1]) /\ d.src = e.src
  BY DEF Renumbers
<1>5. VarIn(d, x) = VarIn(e, regs[x + 1])
  BY <1>4 DEF VarIn
<1>6. /\ VarIn(e, regs[x + 1]) \in VarRegs \cup {None}
      /\ VarIn(e, regs[x + 1]) # None => regs[x + 1] \in DOMAIN e.info
  BY DEF VarIn, PassOK
<1>7. Received(d, x) <=> Received(e, regs[x + 1])
  BY <1>4, <1>5 DEF Received
<1>8. ASSUME NEW y \in 0 .. Len(regs) - 1, regs[x + 1] = regs[y + 1] PROVE x = y
  <2>1. y + 1 \in 1 .. Len(regs) /\ y \in Nat
    BY <1>1
  <2>2. x + 1 = y + 1
    BY <1>1, <1>2, <1>8, <2>1 DEF IsInjective
  <2> QED BY <1>2, <2>1, <2>2
<1> QED BY <1>2, <1>3, <1>4, <1>5, <1>6, <1>7, <1>8

\* The registers of a pass have homes of their own, again.
LEMMA PassRenewed ==
  ASSUME NEW e, NEW f, NEW n, NEW regs, NEW d, NEW h, Renumbers(e, f, n, regs, d, h), PassOK(e)
  PROVE  PassOK(d) /\ d.passes \in Nat /\ e.passes \in Nat /\ e.passes <= d.passes
         /\ (d.spill # {} => d.passes # 0 /\ d.passes = e.passes + 1)
<1> DEFINE N == 0 .. Len(regs) - 1
<1>1. e.src \in Bodies /\ e.passes \in Nat
  BY DEF PassOK
<1>2. /\ d.src = e.src /\ DOMAIN d.info = N /\ d.spill \subseteq N
      /\ d.passes = (IF d.spill = {} THEN e.passes ELSE e.passes + 1)
      /\ \A x \in N : d.info[x].key = regs[x + 1]
  BY DEF Renumbers
<1>3. ASSUME NEW x \in N
      PROVE  /\ regs[x + 1] \in Nat /\ x \in Nat
             /\ d.info[x].var = VarIn(e, regs[x + 1])
             /\ VarIn(e, regs[x + 1]) \in VarRegs \cup {None}
             /\ VarIn(e, regs[x + 1]) # None => regs[x + 1] \in DOMAIN e.info
             /\ \A y \in N : regs[x + 1] = regs[y + 1] => x = y
  <2>1. regs[x + 1] \in Nat /\ x \in Nat /\ d.info[x].var = VarIn(e, regs[x + 1])
    BY NumberMeans
  <2>2. VarIn(e, regs[x + 1]) \in VarRegs \cup {None}
    BY NumberMeans
  <2>3. VarIn(e, regs[x + 1]) # None => regs[x + 1] \in DOMAIN e.info
    BY NumberMeans
  <2>4. \A y \in N : regs[x + 1] = regs[y + 1] => x = y
    BY NumberMeans
  <2> QED BY <2>1, <2>2, <2>3, <2>4
<1> HIDE DEF N
<1>4. ASSUME NEW x \in N, NEW y \in N, d.info[x].key = d.info[y].key PROVE x = y
  BY <1>2, <1>3, <1>4
<1>5. ASSUME NEW x \in N, NEW y \in N, d.info[x].var # None, d.info[x].var = d.info[y].var
      PROVE  x = y
  <2> DEFINE p == regs[x + 1]
             q == regs[y + 1]
  <2>1. VarIn(e, p) = VarIn(e, q) /\ VarIn(e, p) # None
    BY <1>3, <1>5
  <2>2. p \in DOMAIN e.info /\ q \in DOMAIN e.info
    BY <1>3, <2>1
  <2> HIDE DEF p, q
  <2>3. p = q
    BY <2>1, <2>2 DEF PassOK, VarIn
  <2> QED BY <1>3, <2>3 DEF p, q
<1>6. DOMAIN d.info \subseteq Nat
      /\ \A x \in DOMAIN d.info : d.info[x].var \in VarRegs \cup {None} /\ d.info[x].key \in Nat
  BY <1>2, <1>3
<1>7. d.passes \in Nat /\ e.passes <= d.passes
      /\ (d.spill # {} => d.passes # 0 /\ d.passes = e.passes + 1)
  BY <1>1, <1>2
<1> QED BY <1>1, <1>2, <1>4, <1>5, <1>6, <1>7 DEF PassOK

\* The function fits the new pass, of which everything is left to do.
LEMMA FitsRenewed ==
  ASSUME NEW e, NEW f, NEW n, NEW regs, NEW d, NEW h, Renumbers(e, f, n, regs, d, h),
         NEW tm, Fits(e, f, tm, {}, {})
  PROVE  Fits(d, h, tm, Ids(h) \X d.spill, Ids(h) \X d.spill)
<1> DEFINE N == 0 .. Len(regs) - 1
<1>1. PassOK(e) /\ PlacesOK(e, tm) /\ Shape(e, f, tm)
  BY DEF Fits
<1>2. /\ PassOK(d) /\ d.passes \in Nat /\ e.passes \in Nat /\ e.passes <= d.passes
  BY <1>1, PassRenewed
<1>3. /\ Len(f.code) = n /\ Len(h.code) = n /\ Ids(h) = 1 .. n /\ h.order = f.order /\ n \in Nat
      /\ h.tmp \in Nat /\ Sound(f, n)
  BY SoundCode DEF Renumbers
<1>4. PlacesOK(d, tm)
  <2>1. \A k \in DOMAIN tm : tm[k].pass \in 1 .. d.passes
    BY <1>1, <1>2 DEF PlacesOK
  <2> QED BY <1>1, <2>1 DEF PlacesOK
<1>5. /\ d.src = e.src /\ DOMAIN d.info = N /\ d.spill \subseteq DOMAIN d.info
      /\ Len(regs) <= h.tmp /\ Len(regs) \in Nat
      /\ \A a \in 1 .. n : SameBehind(regs, f.code[a], h.code[a])
  BY DEF Renumbers, Once
<1>6. \A x \in N : VarIn(d, x) = VarIn(e, regs[x + 1])
  BY <1>1, NumberMeans
<1>7. \A x \in DOMAIN d.info : x < h.tmp
  BY <1>3, <1>5
<1> HIDE DEF N
<1>8. Originals(d) = Originals(e) /\ \A a : Was(d, a) = Was(e, a)
  BY <1>5 DEF Originals, Was
<1>9. ASSUME NEW a \in 1 .. n
      PROVE  /\ AsWas(e, f, a) => AsWas(d, h, a)
             /\ AsReceived(e, f, tm, a) => AsReceived(d, h, tm, a)
             /\ AsSpilled(e, f, tm, a) => AsSpilled(d, h, tm, a)
             /\ f.code[a].op = "frame" /\ f.code[a].src = <<>> /\ f.code[a].dst = None =>
                  h.code[a].op = "frame" /\ h.code[a].src = <<>> /\ h.code[a].dst = None
  <2> DEFINE i == f.code[a]
             j == h.code[a]
  <2>1. /\ j.op = i.op /\ j.jump = i.jump /\ j.slot = i.slot /\ DOMAIN j.src = DOMAIN i.src
        /\ j.dst = None <=> i.dst = None
    BY <1>5 DEF SameBehind
  <2>2. /\ \A k \in DOMAIN i.src : VarIn(d, j.src[k]) = VarIn(e, i.src[k])
        /\ i.dst # None => VarIn(d, j.dst) = VarIn(e, i.dst)
    BY <1>5, <1>6 DEF SameBehind, N
  <2>3. i.src = <<>> => j.src = <<>>
    <3>1. j.src \in Seq(Nat)
      BY SoundCode DEF Renumbers
    <3>2. DOMAIN j.src = 1 .. Len(j.src) /\ Len(j.src) \in Nat
      BY <3>1
    <3> SUFFICES ASSUME i.src = <<>> PROVE j.src = <<>>
      OBVIOUS
    <3>3. DOMAIN j.src = {}
      BY <2>1
    <3>4. Len(j.src) = 0
      <4>1. 1 \notin 1 .. Len(j.src)
        BY <3>2, <3>3
      <4> QED BY <3>2, <4>1
    <3> QED BY <3>1, <3>4
  <2>4. AsWas(e, f, a) => AsWas(d, h, a)
    <3> SUFFICES ASSUME AsWas(e, f, a) PROVE AsWas(d, h, a)
      OBVIOUS
    <3>1. i.op = "receive" => VarIn(e, i.dst) = Was(e, a).dst /\ i.dst # None
      <4> SUFFICES ASSUME i.op = "receive" PROVE VarIn(e, i.dst) = Was(e, a).dst /\ i.dst # None
        OBVIOUS
      <4>1. a \in Originals(e) /\ BodyInstr(e.src, a - 1)
        BY <1>1, <1>3, Kinds DEF SourceOps
      <4>2. Was(e, a).dst \in VarRegs
        BY <4>1 DEF AsWas, BodyInstr, Was
      <4> QED BY <4>2, RegsAssumption, ValAssumption DEF AsWas, Sources
    <3> QED BY <1>8, <2>1, <2>2, <3>1 DEF AsWas
  <2>5. AsReceived(e, f, tm, a) => AsReceived(d, h, tm, a)
    BY <1>8, <2>1, <2>3 DEF AsReceived
  <2>6. AsSpilled(e, f, tm, a) => AsSpilled(d, h, tm, a)
    BY <2>1, <2>2, <2>3 DEF AsSpilled
  <2> QED BY <2>1, <2>3, <2>4, <2>5, <2>6
<1>10. Shape(d, h, tm)
  <2>1. /\ Len(e.src) + 2 <= n /\ f.order[1] = 1 /\ Len(e.src) \in Nat
        /\ \A a, b \in 1 .. Len(e.src) + 2 : a < b => Pos(f, a) < Pos(f, b)
    BY <1>1, <1>3, BodyFacts DEF Shape, PassOK
  <2>2. \A a \in {1, Len(e.src) + 2} :
          h.code[a].op = "frame" /\ h.code[a].src = <<>> /\ h.code[a].dst = None
    <3>1. {1, Len(e.src) + 2} \subseteq 1 .. n
      BY <1>3, <2>1
    <3> QED BY <1>1, <1>9, <3>1 DEF Shape
  <2>3. \A a \in Originals(e) : AsWas(d, h, a) \/ AsReceived(d, h, tm, a)
    <3>1. Originals(e) \subseteq 1 .. n
      BY <1>3, <2>1 DEF Originals
    <3> QED BY <1>1, <1>9, <3>1 DEF Shape
  <2>4. \A a \in Len(e.src) + 3 .. n : AsSpilled(d, h, tm, a)
    <3>1. Len(e.src) + 3 .. n \subseteq 1 .. n
      BY <1>3, <2>1
    <3> QED BY <1>1, <1>3, <1>9, <3>1 DEF Shape
  <2>5. \A a : Pos(h, a) = Pos(f, a)
    BY <1>3 DEF Pos
  <2> QED BY <1>3, <1>5, <1>8, <2>1, <2>2, <2>3, <2>4, <2>5 DEF Shape
<1>11. ReceivesLeft(d, h, Ids(h) \X d.spill)
  <2>1. Originals(d) \subseteq 1 .. n
    <3>1. Len(e.src) \in Nat /\ Len(e.src) + 2 <= n
      BY <1>1, <1>3, BodyFacts DEF Shape, PassOK
    <3> QED BY <1>3, <1>8, <3>1 DEF Originals
  <2> QED BY <1>3, <2>1 DEF ReceivesLeft
<1> QED BY <1>2, <1>4, <1>7, <1>10, <1>11 DEF Fits

\* What is known at the beginning of a pass: a marked register counts as held
\* by its home, where it is not an argument that will be pushed there.
RegRenewed(regs, d, R) ==
  [a \in Nat |-> [x \in Nat |->
     IF x \in 0 .. Len(regs) - 1 /\ ~(x \in d.spill /\ Received(d, x))
       THEN R[a][regs[x + 1]] ELSE {}]]
MemRenewed(regs, d, R, M) ==
  [a \in Nat |-> [l \in Homes |->
     M[a][l] \cup {q \in Sources : \E x \in d.spill : l = HomeIn(d, x) /\ q \in R[a][regs[x + 1]]}]]

\* Facts that the proof below shares
Renewed(e, f, n, regs, d, h, tm, R, M) ==
  /\ Renumbers(e, f, n, regs, d, h)
  /\ Fits(e, f, tm, {}, {}) /\ Describes(e, f, tm, {}, {}, R, M)

\* What these two say, point by point
LEMMA RenewedFacts ==
  ASSUME NEW e, NEW f, NEW n, NEW regs, NEW d, NEW h, NEW tm, NEW R, NEW M,
         Renewed(e, f, n, regs, d, h, tm, R, M), NEW a \in 1 .. n
  PROVE  LET S == RegRenewed(regs, d, R)
             N == MemRenewed(regs, d, R, M)
         IN  /\ a \in Nat /\ d.spill \subseteq 0 .. Len(regs) - 1
             /\ \A x \in Nat : \A q \in S[a][x] :
                  /\ x \in 0 .. Len(regs) - 1 /\ ~(x \in d.spill /\ Received(d, x))
                  /\ q \in R[a][regs[x + 1]]
             /\ \A x \in 0 .. Len(regs) - 1 : \A q \in R[a][regs[x + 1]] :
                  q \in Sources /\ (~(x \in d.spill /\ Received(d, x)) => q \in S[a][x])
             /\ \A l \in Homes : \A q \in N[a][l] :
                  \/ q \in M[a][l]
                  \/ \E x \in d.spill : l = HomeIn(d, x) /\ q \in R[a][regs[x + 1]]
             /\ \A l \in Homes : M[a][l] \subseteq N[a][l]
             /\ \A x \in d.spill : HomeIn(d, x) \in Homes /\ R[a][regs[x + 1]] \subseteq N[a][HomeIn(d, x)]
<1> DEFINE S == RegRenewed(regs, d, R)
           N == MemRenewed(regs, d, R, M)
<1>1. n \in Nat /\ a \in Nat
  BY SoundCode DEF Renewed, Renumbers
<1>2. R \in RegFacts /\ M \in MemFacts /\ PassOK(e) /\ PassOK(d)
  BY PassRenewed DEF Renewed, Fits, Describes
<1>3. d.spill \subseteq 0 .. Len(regs) - 1 /\ d.spill \subseteq DOMAIN d.info
  BY DEF Renewed, Renumbers
<1>4. \A x \in 0 .. Len(regs) - 1 : regs[x + 1] \in Nat /\ x \in Nat
  BY <1>2, NumberMeans DEF Renewed
<1>5. \A x \in 0 .. Len(regs) - 1 : R[a][regs[x + 1]] \subseteq Sources
  BY <1>1, <1>2, <1>4 DEF RegFacts
<1>6. \A x \in d.spill : HomeIn(d, x) \in Homes
  BY <1>2, <1>3, HomeType
<1>7. \A x \in Nat : S[a][x] = IF x \in 0 .. Len(regs) - 1 /\ ~(x \in d.spill /\ Received(d, x))
                                 THEN R[a][regs[x + 1]] ELSE {}
  BY <1>1 DEF RegRenewed
<1>8. \A l \in Homes : N[a][l] = M[a][l] \cup
        {q \in Sources : \E x \in d.spill : l = HomeIn(d, x) /\ q \in R[a][regs[x + 1]]}
  BY <1>1 DEF MemRenewed
<1> HIDE DEF S, N
<1>9. \A x \in Nat : \A q \in S[a][x] :
        /\ x \in 0 .. Len(regs) - 1 /\ ~(x \in d.spill /\ Received(d, x))
        /\ q \in R[a][regs[x + 1]]
  BY <1>7
<1>10. \A x \in 0 .. Len(regs) - 1 : \A q \in R[a][regs[x + 1]] :
         q \in Sources /\ (~(x \in d.spill /\ Received(d, x)) => q \in S[a][x])
  BY <1>4, <1>5, <1>7
<1>11. \A l \in Homes : \A q \in N[a][l] :
         \/ q \in M[a][l]
         \/ \E x \in d.spill : l = HomeIn(d, x) /\ q \in R[a][regs[x + 1]]
  BY <1>8
<1>12. \A l \in Homes : M[a][l] \subseteq N[a][l]
  BY <1>8
<1>13. \A x \in d.spill : R[a][regs[x + 1]] \subseteq N[a][HomeIn(d, x)]
  BY <1>3, <1>5, <1>6, <1>8
<1> QED BY <1>1, <1>3, <1>6, <1>9, <1>10, <1>11, <1>12, <1>13 DEF S, N

\* A value that was known in a register is known of its number.
LEMMA StillKnown ==
  ASSUME NEW e, NEW f, NEW n, NEW regs, NEW d, NEW h, NEW tm, NEW R, NEW M,
         Renewed(e, f, n, regs, d, h, tm, R, M), NEW a \in 1 .. n,
         NEW x \in 0 .. Len(regs) - 1, NEW q, Known(e, {}, R, M, a, regs[x + 1], q)
  PROVE  Known(d, (1 .. n) \X d.spill, RegRenewed(regs, d, R), MemRenewed(regs, d, R, M), a, x, q)
<1>1. q \in R[a][regs[x + 1]]
  BY DEF Known
<1>2. x \in d.spill => q \in MemRenewed(regs, d, R, M)[a][HomeIn(d, x)]
  BY <1>1, RenewedFacts
<1>3. x \notin d.spill => q \in RegRenewed(regs, d, R)[a][x]
  BY <1>1, RenewedFacts
<1> QED BY <1>2, <1>3 DEF Known

\* An instruction, before and after
InstrRenewed(e, f, n, regs, d, h, tm, R, M, a) ==
  LET i == f.code[a]
      j == h.code[a]
      S == RegRenewed(regs, d, R)
      N == MemRenewed(regs, d, R, M)
      P == (1 .. n) \X d.spill
  IN  /\ j.op = i.op /\ j.slot = i.slot /\ Was(d, a) = Was(e, a)
      /\ (Gives(j) <=> Gives(i)) /\ (Writes(j) <=> Writes(i))
      /\ Writes(i) => j.dst \in 0 .. Len(regs) - 1 /\ regs[j.dst + 1] = i.dst
      /\ \A q : Unchanged(d, h, a, q) <=> Unchanged(e, f, a, q)
      /\ \A q : Written(e, f, tm, {}, R, M, a, q) => Written(d, h, tm, P, S, N, a, q)

\* Each instruction does with the numbers what it did with the registers.
LEMMA RenewedInstr ==
  ASSUME NEW e, NEW f, NEW n, NEW regs, NEW d, NEW h, NEW tm, NEW R, NEW M,
         Renewed(e, f, n, regs, d, h, tm, R, M), NEW a \in 1 .. n
  PROVE  InstrRenewed(e, f, n, regs, d, h, tm, R, M, a)
<1> DEFINE i == f.code[a]
           j == h.code[a]
           S == RegRenewed(regs, d, R)
           N == MemRenewed(regs, d, R, M)
           P == (1 .. n) \X d.spill
<1>1. SameBehind(regs, i, j) /\ d.src = e.src /\ Sound(f, n)
  BY DEF Renewed, Renumbers
<1>2. Was(d, a) = Was(e, a)
  BY <1>1 DEF Was
<1>3. /\ j.op = i.op /\ j.slot = i.slot /\ DOMAIN j.src = DOMAIN i.src
      /\ j.dst = None <=> i.dst = None
  BY <1>1 DEF SameBehind
<1>4. PassOK(e) /\ PlacesOK(e, tm) /\ Shape(e, f, tm)
  BY DEF Renewed, Fits
<1>5. i.op \in {"load", "store", "push_arg"} => Entry(tm, i.slot) \in Homes
  BY <1>1, <1>4, Kinds
<1>6. i.op = "store" => 1 \in DOMAIN i.src
  BY <1>1, <1>4, Kinds
<1>7. i.op = "load" => i.dst # None
  BY <1>1, <1>4, Kinds DEF AsSpilled
<1>8. (Gives(j) <=> Gives(i)) /\ (Writes(j) <=> Writes(i)) /\ (Writes(i) => i.dst # None)
  <2> HIDE DEF i, j
  <2> QED BY <1>3, <1>7 DEF Gives, Writes
<1>9. i.dst # None => j.dst \in 0 .. Len(regs) - 1 /\ regs[j.dst + 1] = i.dst
  BY <1>1 DEF SameBehind
<1>10. \A q : Unchanged(d, h, a, q) <=> Unchanged(e, f, a, q)
  BY <1>2, <1>8 DEF Unchanged
<1>11. ASSUME NEW q, Written(e, f, tm, {}, R, M, a, q) PROVE Written(d, h, tm, P, S, N, a, q)
  <2>1. CASE i.op = "load"
    <3>1. q \in M[a][Entry(tm, i.slot)]
      BY <1>11, <2>1 DEF Written
    <3>2. q \in N[a][Entry(tm, i.slot)]
      BY <1>5, <2>1, <3>1, RenewedFacts
    <3> QED BY <1>3, <2>1, <3>2 DEF Written
  <2>2. CASE i.op = "store"
    <3> DEFINE y == j.src[1]
    <3>1. Known(e, {}, R, M, a, i.src[1], q)
      BY <1>11, <2>2 DEF Written
    <3>2. y \in 0 .. Len(regs) - 1 /\ regs[y + 1] = i.src[1]
      BY <1>1, <1>6, <2>2 DEF SameBehind
    <3> HIDE DEF y
    <3>3. Known(d, P, S, N, a, y, q)
      BY <3>1, <3>2, StillKnown
    <3> QED BY <1>3, <2>2, <3>3 DEF Written, y
  <2>3. CASE i.op \notin {"load", "store"}
    BY <1>2, <1>3, <1>11, <2>3 DEF Written
  <2> QED BY <2>1, <2>2, <2>3
<1> QED BY <1>2, <1>3, <1>8, <1>9, <1>10, <1>11 DEF InstrRenewed

\* The home that a register of the new pass has
LEMMA HomeRenewed ==
  ASSUME NEW e, NEW f, NEW n, NEW regs, NEW d, NEW h, Renumbers(e, f, n, regs, d, h),
         PassOK(e), NEW x \in 0 .. Len(regs) - 1
  PROVE  /\ HomeIn(d, x) \in Homes
         /\ VarIn(e, regs[x + 1]) # None =>
              /\ HomeIn(d, x) = <<VarIn(e, regs[x + 1]), 0>>
              /\ HomeIn(e, regs[x + 1]) = <<VarIn(e, regs[x + 1]), 0>>
         /\ VarIn(e, regs[x + 1]) = None => HomeIn(d, x) = <<regs[x + 1], d.passes>>
<1> DEFINE y == regs[x + 1]
<1>1. PassOK(d)
  BY PassRenewed
<1>2. /\ x \in DOMAIN d.info /\ d.info[x].var = VarIn(e, y)
      /\ VarIn(e, y) # None => y \in DOMAIN e.info
  <2>1. x \in DOMAIN d.info /\ d.info[x].var = VarIn(e, y)
    BY NumberMeans
  <2>2. VarIn(e, y) # None => y \in DOMAIN e.info
    BY NumberMeans
  <2> QED BY <2>1, <2>2
<1>3. d.info[x].key = y
  BY DEF Renumbers
<1> HIDE DEF y
<1>4. HomeIn(d, x) \in Homes
  BY <1>1, <1>2, HomeType
<1>5. VarIn(e, y) # None => HomeIn(d, x) = <<VarIn(e, y), 0>>
  BY <1>2 DEF HomeIn
<1>6. VarIn(e, y) = None => HomeIn(d, x) = <<y, d.passes>>
  BY <1>2, <1>3 DEF HomeIn
<1>7. VarIn(e, y) # None => HomeIn(e, y) = <<VarIn(e, y), 0>>
  BY <1>2 DEF HomeIn, VarIn
<1> QED BY <1>4, <1>5, <1>6, <1>7 DEF y

\* Only the home of a variable holds something before the pass spills.
LEMMA HomeUsed ==
  ASSUME NEW e, NEW f, NEW n, NEW regs, NEW d, NEW h, NEW tm, NEW R, NEW M,
         Renewed(e, f, n, regs, d, h, tm, R, M), NEW a \in 1 .. n,
         NEW x \in 0 .. Len(regs) - 1, x \in d.spill \/ VarIn(e, regs[x + 1]) # None,
         NEW q \in M[a][HomeIn(d, x)]
  PROVE  VarIn(e, regs[x + 1]) = q /\ VarIn(e, regs[x + 1]) # None
<1> DEFINE y == regs[x + 1]
<1>1. Renumbers(e, f, n, regs, d, h) /\ PassOK(e) /\ Owned(e, f, R, M) /\ Ids(f) = 1 .. n
  BY SoundCode DEF Renewed, Fits, Describes, Renumbers
<1>2. /\ VarIn(e, y) # None => HomeIn(d, x) = <<VarIn(e, y), 0>>
      /\ VarIn(e, y) = None => HomeIn(d, x) = <<y, d.passes>>
  BY <1>1, HomeRenewed
<1>3. y \in Nat /\ VarIn(e, y) \in VarRegs \cup {None}
  BY <1>1, NumberMeans
<1>4. d.passes \in Nat /\ e.passes \in Nat /\ (d.spill # {} => d.passes = e.passes + 1)
  BY <1>1, PassRenewed
<1>5. VarRegs \subseteq Nat
  BY RegsAssumption DEF Sources
<1> HIDE DEF y
<1>6. \A r, p \in Nat : q \in M[a][<<r, p>>] => (p = 0 => r = q) /\ p <= e.passes
  BY <1>1 DEF Owned
<1>7. CASE VarIn(e, y) # None
  BY <1>2, <1>3, <1>5, <1>6, <1>7 DEF y
<1>8. CASE VarIn(e, y) = None
  <2>1. x \in d.spill /\ d.passes = e.passes + 1
    BY <1>4, <1>8 DEF y
  <2>2. d.passes <= e.passes
    BY <1>2, <1>3, <1>4, <1>6, <1>8
  <2> QED BY <1>4, <2>1, <2>2
<1> QED BY <1>7, <1>8

\* The registers know what they did.
LEMMA RegsRenewed ==
  ASSUME NEW e, NEW f, NEW n, NEW regs, NEW d, NEW h, NEW tm, NEW R, NEW M,
         Renewed(e, f, n, regs, d, h, tm, R, M),
         NEW a \in 1 .. n, NEW b \in 1 .. n, Goes(f, a, b),
         NEW x \in Nat, NEW q \in RegRenewed(regs, d, R)[b][x]
  PROVE  RegAfter(d, h, tm, (1 .. n) \X d.spill, (1 .. n) \X d.spill,
                  RegRenewed(regs, d, R), MemRenewed(regs, d, R, M), a, x, q)
<1> DEFINE i == f.code[a]
           j == h.code[a]
           S == RegRenewed(regs, d, R)
           N == MemRenewed(regs, d, R, M)
           P == (1 .. n) \X d.spill
           y == regs[x + 1]
<1>1. /\ x \in 0 .. Len(regs) - 1 /\ ~(x \in d.spill /\ Received(d, x)) /\ q \in R[b][y]
  BY RenewedFacts
<1>2. /\ Renumbers(e, f, n, regs, d, h) /\ PassOK(e) /\ PlacesOK(e, tm) /\ Shape(e, f, tm)
      /\ Flow(e, f, tm, {}, {}, R, M) /\ Ids(f) = 1 .. n /\ Sound(f, n)
  BY SoundCode DEF Renewed, Fits, Describes, Renumbers
<1>3. /\ y \in Nat /\ VarIn(d, x) = VarIn(e, y)
      /\ \A z \in 0 .. Len(regs) - 1 : regs[x + 1] = regs[z + 1] => x = z
  BY <1>1, <1>2, NumberMeans
<1>4. RegAfter(e, f, tm, {}, {}, R, M, a, y, q)
  BY <1>1, <1>2, <1>3 DEF Flow
<1>5. /\ j.op = i.op /\ (Writes(j) <=> Writes(i)) /\ Was(d, a) = Was(e, a)
      /\ Writes(i) => j.dst \in 0 .. Len(regs) - 1 /\ regs[j.dst + 1] = i.dst
      /\ Unchanged(d, h, a, q) <=> Unchanged(e, f, a, q)
      /\ Written(e, f, tm, {}, R, M, a, q) => Written(d, h, tm, P, S, N, a, q)
  <2>1. InstrRenewed(e, f, n, regs, d, h, tm, R, M, a)
    BY RenewedInstr
  <2> QED BY <2>1 DEF InstrRenewed
<1> DEFINE After == RegAfter(d, h, tm, P, P, S, N, a, x, q)
<1>6. ASSUME Writes(j) /\ x = j.dst PROVE After
  <2>1. y = i.dst
    BY <1>5, <1>6
  <2>2. Written(d, h, tm, P, S, N, a, q)
    <3> HIDE DEF i, j, S, N, P, y
    <3>1. Written(e, f, tm, {}, R, M, a, q)
      BY <1>4, <1>5, <1>6, <2>1 DEF RegAfter, i
    <3> QED BY <1>5, <3>1
  <2>3. ASSUME j.op = "receive", <<a, x>> \in P PROVE FALSE
    <3>1. a \in Originals(e) /\ AsWas(e, f, a) /\ a - 1 \in 1 .. Len(e.src)
      BY <1>2, <1>5, <2>3, Kinds DEF SourceOps
    <3>2. VarIn(e, y) = Was(e, a).dst /\ Was(e, a).op = "receive"
      BY <1>5, <2>1, <2>3, <3>1 DEF AsWas
    <3>3. d.src = e.src /\ DOMAIN e.src = 1 .. Len(e.src)
      BY <1>2, BodyFacts DEF PassOK, Renumbers
    <3>4. Received(d, x)
      BY <1>3, <3>1, <3>2, <3>3 DEF Received, Was
    <3> QED BY <1>1, <2>3, <3>4
  <2> HIDE DEF i, S, N, P, y
  <2> QED BY <1>6, <2>2, <2>3 DEF RegAfter
<1>7. ASSUME ~(Writes(j) /\ x = j.dst) PROVE After
  <2>1. ~(Writes(i) /\ y = i.dst)
    BY <1>3, <1>5, <1>7
  <2>2. q \in R[a][y] /\ Unchanged(e, f, a, q)
    <3> HIDE DEF S, N, P, y, j
    <3> QED BY <1>4, <2>1 DEF RegAfter
  <2>3. q \in S[a][x]
    BY <1>1, <2>2, RenewedFacts
  <2> HIDE DEF i, S, N, P, y
  <2> QED BY <1>5, <1>7, <2>2, <2>3 DEF RegAfter
<1> QED BY <1>6, <1>7

\* An instruction that has no store yet gives its value to a home that holds
\* nothing else.
LEMMA OtherHome ==
  ASSUME NEW e, NEW f, NEW n, NEW regs, NEW d, NEW h, NEW tm, NEW R, NEW M,
         Renewed(e, f, n, regs, d, h, tm, R, M), NEW a \in 1 .. n,
         Writes(h.code[a]), h.code[a].dst \in d.spill,
         NEW q \in M[a][HomeIn(d, h.code[a].dst)]
  PROVE  Written(e, f, tm, {}, R, M, a, q)
<1> DEFINE i == f.code[a]
           x == h.code[a].dst
<1>1. /\ Renumbers(e, f, n, regs, d, h) /\ PassOK(e) /\ PlacesOK(e, tm) /\ Shape(e, f, tm)
      /\ Sound(f, n)
  BY DEF Renewed, Fits, Renumbers
<1>2. /\ Writes(i) /\ x \in 0 .. Len(regs) - 1 /\ regs[x + 1] = i.dst
  <2>1. InstrRenewed(e, f, n, regs, d, h, tm, R, M, a)
    BY RenewedInstr
  <2> QED BY <2>1 DEF InstrRenewed
<1>3. VarIn(e, i.dst) = q /\ VarIn(e, i.dst) # None
  <2> HIDE DEF i
  <2>1. VarIn(e, regs[x + 1]) = q /\ VarIn(e, regs[x + 1]) # None
    <3> HIDE DEF x
    <3>1. q \in M[a][HomeIn(d, x)] /\ x \in d.spill
      BY DEF x
    <3> QED BY <1>2, <3>1, HomeUsed
  <2> QED BY <1>2, <2>1
<1>4. i.op = "load" => VarIn(e, i.dst) = None
  BY <1>1, Kinds DEF AsSpilled
<1>5. i.op \in {"op", "call", "receive"} /\ i.dst # None
  BY <1>2, <1>3, <1>4 DEF Writes
<1>6. AsWas(e, f, a)
  BY <1>1, <1>5, Kinds DEF SourceOps
<1>7. q = Was(e, a).dst
  BY <1>3, <1>5, <1>6 DEF AsWas
<1> QED BY <1>5, <1>7 DEF Written

\* So do the homes, and the home of a marked register what the register knew.
LEMMA HomesRenewed ==
  ASSUME NEW e, NEW f, NEW n, NEW regs, NEW d, NEW h, NEW tm, NEW R, NEW M,
         Renewed(e, f, n, regs, d, h, tm, R, M),
         NEW a \in 1 .. n, NEW b \in 1 .. n, Goes(f, a, b),
         NEW l \in Homes, NEW q \in MemRenewed(regs, d, R, M)[b][l]
  PROVE  MemAfter(d, h, tm, (1 .. n) \X d.spill, (1 .. n) \X d.spill,
                  RegRenewed(regs, d, R), MemRenewed(regs, d, R, M), a, l, q)
<1> DEFINE i == f.code[a]
           j == h.code[a]
           S == RegRenewed(regs, d, R)
           N == MemRenewed(regs, d, R, M)
           P == (1 .. n) \X d.spill
           After == MemAfter(d, h, tm, P, P, S, N, a, l, q)
           Old == Written(e, f, tm, {}, R, M, a, q)
           ByCode == i.op \in {"store", "push_arg"} /\ l = Entry(tm, i.slot)
           ByMark == Writes(j) /\ j.dst \in d.spill /\ l = HomeIn(d, j.dst)
<1>1. /\ Renumbers(e, f, n, regs, d, h) /\ PassOK(e) /\ PlacesOK(e, tm) /\ Shape(e, f, tm)
      /\ Flow(e, f, tm, {}, {}, R, M) /\ Ids(f) = 1 .. n /\ Sound(f, n)
      /\ StoresKnown(e, f, tm, {}, R, M) /\ Owned(e, f, R, M)
  BY SoundCode DEF Renewed, Fits, Describes, Renumbers
<1>2. InstrRenewed(e, f, n, regs, d, h, tm, R, M, a)
  BY RenewedInstr
<1>3. /\ j.op = i.op /\ j.slot = i.slot /\ (Writes(j) <=> Writes(i))
      /\ Writes(i) => j.dst \in 0 .. Len(regs) - 1 /\ regs[j.dst + 1] = i.dst
      /\ Unchanged(d, h, a, q) <=> Unchanged(e, f, a, q)
      /\ Old => Written(d, h, tm, P, S, N, a, q)
  BY <1>2 DEF InstrRenewed
<1>4. ToHome(d, h, tm, P, a, l) <=> ByCode \/ ByMark
  BY <1>3 DEF ToHome
<1>5. \A g : ToHome(e, f, tm, {}, a, g) <=> i.op \in {"store", "push_arg"} /\ g = Entry(tm, i.slot)
  BY DEF ToHome
<1>6. Old /\ (ByCode \/ ByMark) => After
  <2> HIDE DEF i, j, S, N, P, Old, ByCode, ByMark
  <2> QED BY <1>3, <1>4 DEF MemAfter
<1>7. ~ByCode /\ ~ByMark /\ q \in N[a][l] /\ Unchanged(e, f, a, q) => After
  <2> HIDE DEF i, j, S, N, P, Old, ByCode, ByMark
  <2> QED BY <1>3, <1>4 DEF MemAfter
<1> HIDE DEF After
<1>8. ASSUME q \in M[b][l] PROVE After
  <2>1. MemAfter(e, f, tm, {}, {}, R, M, a, l, q)
    BY <1>1, <1>8 DEF Flow
  <2>2. ByCode => Old
    <3> HIDE DEF i
    <3> QED BY <1>5, <2>1 DEF MemAfter, i
  <2>3. ~ByCode => q \in M[a][l] /\ Unchanged(e, f, a, q)
    <3> HIDE DEF i
    <3> QED BY <1>5, <2>1 DEF MemAfter, i
  <2>4. ByMark /\ q \in M[a][l] => Old
    <3> SUFFICES ASSUME ByMark, q \in M[a][l] PROVE Old
      OBVIOUS
    <3> QED BY OtherHome
  <2>5. q \in M[a][l] => q \in N[a][l]
    BY RenewedFacts
  <2> HIDE DEF i, j, S, N, P, Old, ByCode, ByMark
  <2> QED BY <1>6, <1>7, <2>2, <2>3, <2>4, <2>5
<1>9. ASSUME \E x \in d.spill : l = HomeIn(d, x) /\ q \in R[b][regs[x + 1]]
      PROVE  After
  <2>1. PICK x \in d.spill : l = HomeIn(d, x) /\ q \in R[b][regs[x + 1]]
    BY <1>9
  <2> DEFINE y == regs[x + 1]
             v == VarIn(e, y)
  <2>2. x \in 0 .. Len(regs) - 1 /\ x \in DOMAIN d.info
    BY <1>1 DEF Renumbers
  <2>3. y \in Nat /\ v \in VarRegs \cup {None}
    BY <1>1, <2>2, NumberMeans
  <2>4. \A z \in 0 .. Len(regs) - 1 : regs[x + 1] = regs[z + 1] => x = z
    BY <1>1, <2>2, NumberMeans
  <2>5. /\ v # None => l = <<v, 0>>
        /\ v = None => l = <<y, d.passes>>
    BY <1>1, <2>1, <2>2, HomeRenewed
  <2>6. PassOK(d) /\ d.passes # 0 /\ d.passes = e.passes + 1 /\ e.passes \in Nat
    BY <1>1, PassRenewed
  <2>7. RegAfter(e, f, tm, {}, {}, R, M, a, y, q)
    BY <1>1, <2>1, <2>3 DEF Flow
  <2>8. CASE Writes(i) /\ y = i.dst
    <3>1. Old
      <4> HIDE DEF y
      <4> QED BY <2>7, <2>8 DEF RegAfter
    <3>2. x = j.dst
      BY <1>3, <2>4, <2>8
    <3>3. ByMark
      BY <1>3, <2>1, <2>8, <3>2
    <3> QED BY <1>6, <3>1, <3>3
  <2>9. CASE ~(Writes(i) /\ y = i.dst)
    <3>1. q \in R[a][y] /\ Unchanged(e, f, a, q)
      <4> HIDE DEF y
      <4> QED BY <2>7, <2>9 DEF RegAfter
    <3>2. q \in N[a][l]
      BY <2>1, <3>1, RenewedFacts
    <3>3. ~ByMark
      <4> SUFFICES ASSUME ByMark PROVE FALSE
        OBVIOUS
      <4>1. j.dst \in DOMAIN d.info /\ HomeIn(d, x) = HomeIn(d, j.dst)
        BY <1>1, <2>1 DEF Renumbers
      <4>2. x = j.dst
        BY <2>2, <2>6, <4>1, HomesApart
      <4> QED BY <1>3, <2>9, <4>2
    <3>4. ByCode => Old
      <4> SUFFICES ASSUME ByCode PROVE Old
        OBVIOUS
      <4>1. i.slot \in Locations(tm)
        BY <1>1, Kinds
      <4>2. v # None
        <5> SUFFICES ASSUME v = None PROVE FALSE
          OBVIOUS
        <5>1. Entry(tm, i.slot) = <<y, e.passes + 1>>
          BY <2>5, <2>6
        <5> HIDE DEF i, y, v
        <5>2. \/ \E r : Entry(tm, i.slot) = <<r, 0>>
              \/ \E r : \E p \in 1 .. e.passes : Entry(tm, i.slot) = <<r, p>>
          <6>1. i.slot[1] = "var" => Entry(tm, i.slot) = <<i.slot[2], 0>>
            BY <1>1, <4>1, EntryType
          <6>2. i.slot[1] # "var" =>
                  /\ Entry(tm, i.slot) = <<tm[i.slot[2]].reg, tm[i.slot[2]].pass>>
                  /\ tm[i.slot[2]].pass \in 1 .. e.passes
            BY <1>1, <4>1, EntryType
          <6> QED BY <6>1, <6>2
        <5>3. e.passes + 1 = 0 \/ e.passes + 1 \in 1 .. e.passes
          BY <5>1, <5>2
        <5> QED BY <2>6, <5>3
      <4>3. q = v /\ v \in VarRegs
        BY <1>1, <2>3, <3>1, <4>2 DEF Owned
      <4>4. Entry(tm, i.slot) = <<v, 0>>
        BY <2>5, <4>2
      <4>5. CASE i.op = "store"
        <5>1. Known(e, {}, R, M, a, i.src[1], q)
          BY <1>1, <4>3, <4>4, <4>5 DEF StoresKnown
        <5> QED BY <4>5, <5>1 DEF Written
      <4>6. CASE i.op = "push_arg"
        <5>1. Entry(tm, i.slot) = <<Was(e, a).dst, 0>>
          BY <1>1, <4>6, Kinds DEF AsReceived
        <5>2. q = Was(e, a).dst
          BY <4>3, <4>4, <5>1
        <5> QED BY <4>6, <5>2 DEF Written
      <4> QED BY <4>5, <4>6
    <3> HIDE DEF Old, ByCode, ByMark, N
    <3> QED BY <1>6, <1>7, <3>1, <3>2, <3>3, <3>4
  <2> QED BY <2>8, <2>9
<1>10. q \in M[b][l] \/ \E x \in d.spill : l = HomeIn(d, x) /\ q \in R[b][regs[x + 1]]
  BY RenewedFacts
<1> QED BY <1>8, <1>9, <1>10 DEF After

\* The values are known at the beginning of the pass.
LEMMA DescribesRenewed ==
  ASSUME NEW e, NEW f, NEW n, NEW regs, NEW d, NEW h, NEW tm, NEW R, NEW M,
         Renewed(e, f, n, regs, d, h, tm, R, M)
  PROVE  Describes(d, h, tm, (1 .. n) \X d.spill, (1 .. n) \X d.spill,
                   RegRenewed(regs, d, R), MemRenewed(regs, d, R, M))
<1> DEFINE S == RegRenewed(regs, d, R)
           N == MemRenewed(regs, d, R, M)
           P == (1 .. n) \X d.spill
<1>1. /\ Renumbers(e, f, n, regs, d, h) /\ PassOK(e) /\ PlacesOK(e, tm) /\ Shape(e, f, tm)
      /\ R \in RegFacts /\ M \in MemFacts
      /\ OperandsKnown(e, f, {}, R, M) /\ StoresKnown(e, f, tm, {}, R, M)
      /\ InBoth(e, f, R, M) /\ Owned(e, f, R, M)
  BY DEF Renewed, Fits, Describes
<1>2. /\ Sound(f, n) /\ Sound(h, n) /\ h.order = f.order /\ d.src = e.src
      /\ \A a \in 1 .. n : SameBehind(regs, f.code[a], h.code[a])
      /\ Len(regs) \in Nat /\ Len(regs) <= h.tmp
      /\ DOMAIN d.info = 0 .. Len(regs) - 1 /\ d.spill \subseteq DOMAIN d.info
  BY <1>1 DEF Renumbers, Once
<1>3. Ids(f) = 1 .. n /\ Ids(h) = 1 .. n /\ n \in Nat /\ h.tmp \in Nat
  BY <1>2, SoundCode
<1>4. PassOK(d) /\ d.passes \in Nat /\ e.passes \in Nat /\ e.passes <= d.passes
      /\ (d.spill # {} => d.passes # 0)
  BY <1>1, PassRenewed
<1>5. S \in RegFacts /\ N \in MemFacts
  <2>1. \A x \in 0 .. Len(regs) - 1 : regs[x + 1] \in Nat
    BY <1>1, NumberMeans
  <2>2. \A a \in Nat : \A x \in 0 .. Len(regs) - 1 : R[a][regs[x + 1]] \subseteq Sources
    BY <1>1, <2>1 DEF RegFacts
  <2>3. S \in RegFacts
    BY <2>2 DEF RegFacts, RegRenewed
  <2>4. \A a \in Nat : \A l \in Homes : M[a][l] \subseteq Sources
    BY <1>1 DEF MemFacts
  <2>5. N \in MemFacts
    BY <2>4 DEF MemFacts, MemRenewed
  <2> QED BY <2>3, <2>5
<1>6. \A a, b \in 1 .. n : Goes(h, a, b) => Goes(f, a, b)
  BY <1>2 DEF Goes, FallsTo, JumpsTo, SameBehind
<1>7. Flow(d, h, tm, P, P, S, N)
  <2> SUFFICES ASSUME NEW a \in 1 .. n, NEW b \in 1 .. n, Goes(f, a, b)
               PROVE  /\ \A x \in Nat : \A q \in S[b][x] : RegAfter(d, h, tm, P, P, S, N, a, x, q)
                      /\ \A l \in Homes : \A q \in N[b][l] : MemAfter(d, h, tm, P, P, S, N, a, l, q)
    BY <1>3, <1>6 DEF Flow
  <2>1. \A x \in Nat : \A q \in S[b][x] : RegAfter(d, h, tm, P, P, S, N, a, x, q)
    BY RegsRenewed
  <2>2. \A l \in Homes : \A q \in N[b][l] : MemAfter(d, h, tm, P, P, S, N, a, l, q)
    BY HomesRenewed
  <2> QED BY <2>1, <2>2
<1>8. OperandsKnown(d, h, P, S, N)
  <2> SUFFICES ASSUME NEW a \in Originals(d), h.code[a].op # "push_arg"
               PROVE  /\ \A k \in DOMAIN h.code[a].src :
                           Known(d, P, S, N, a, h.code[a].src[k], Was(d, a).src[k])
                      /\ h.code[a].op = "reg_store" => Known(d, P, S, N, a, h.code[a].dst, Was(d, a).dst)
    BY DEF OperandsKnown
  <2> DEFINE i == f.code[a]
             j == h.code[a]
  <2>1. a \in Originals(e) /\ Was(d, a) = Was(e, a)
    BY <1>2 DEF Originals, Was
  <2>2. a \in 1 .. n
    <3>1. 1 \in 1 .. n
      BY <1>2, SoundCode
    <3> QED BY <1>1, <1>2, <2>1, <3>1, Kinds
  <2>3. SameBehind(regs, i, j)
    BY <1>2, <2>2
  <2>4. i.op # "push_arg"
    BY <2>3 DEF SameBehind
  <2>5. ASSUME NEW k \in DOMAIN j.src PROVE Known(d, P, S, N, a, j.src[k], Was(d, a).src[k])
    <3> DEFINE x == j.src[k]
               q == Was(e, a).src[k]
    <3>1. k \in DOMAIN i.src /\ x \in 0 .. Len(regs) - 1 /\ regs[x + 1] = i.src[k]
      BY <2>3 DEF SameBehind
    <3>2. Known(e, {}, R, M, a, i.src[k], q)
      BY <1>1, <2>1, <2>4, <3>1 DEF OperandsKnown
    <3> HIDE DEF x, q, i, j
    <3>3. Known(d, P, S, N, a, x, q)
      BY <2>2, <3>1, <3>2, StillKnown
    <3> QED BY <2>1, <3>3 DEF x, q, i, j
  <2>6. ASSUME j.op = "reg_store" PROVE Known(d, P, S, N, a, j.dst, Was(d, a).dst)
    <3> DEFINE x == j.dst
               q == Was(e, a).dst
    <3>1. i.op = "reg_store"
      BY <2>3, <2>6 DEF SameBehind
    <3>2. AsWas(e, f, a) /\ BodyInstr(e.src, a - 1)
      BY <1>1, <1>2, <2>2, <3>1, Kinds DEF SourceOps
    <3>3. i.dst # None
      BY <3>1, <3>2 DEF AsWas, BodyInstr, Was
    <3>4. x \in 0 .. Len(regs) - 1 /\ regs[x + 1] = i.dst
      BY <2>3, <3>3 DEF SameBehind
    <3>5. Known(e, {}, R, M, a, i.dst, q)
      BY <1>1, <2>1, <2>4, <3>1 DEF OperandsKnown
    <3> HIDE DEF x, q, i, j
    <3>6. Known(d, P, S, N, a, x, q)
      BY <2>2, <3>4, <3>5, StillKnown
    <3> QED BY <2>1, <3>6 DEF x, q, i, j
  <2> QED BY <2>5, <2>6
<1>9. StoresKnown(d, h, tm, P, S, N)
  <2> SUFFICES ASSUME NEW a \in 1 .. n, h.code[a].op = "store", NEW v \in VarRegs,
                      Entry(tm, h.code[a].slot) = <<v, 0>>
               PROVE  Known(d, P, S, N, a, h.code[a].src[1], v)
    BY <1>3 DEF StoresKnown
  <2> DEFINE i == f.code[a]
             x == h.code[a].src[1]
  <2>1. SameBehind(regs, i, h.code[a])
    BY <1>2
  <2>2. i.op = "store" /\ Entry(tm, i.slot) = <<v, 0>>
    BY <2>1 DEF SameBehind
  <2>3. 1 \in DOMAIN i.src
    BY <1>1, <1>2, <2>2, Kinds
  <2>4. x \in 0 .. Len(regs) - 1 /\ regs[x + 1] = i.src[1]
    BY <2>1, <2>3 DEF SameBehind
  <2>5. Known(e, {}, R, M, a, i.src[1], v)
    BY <1>1, <1>3, <2>2 DEF StoresKnown
  <2> HIDE DEF x, i
  <2>6. Known(d, P, S, N, a, x, v)
    BY <2>4, <2>5, StillKnown
  <2> QED BY <2>6 DEF x
<1>10. InBoth(d, h, S, N)
  <2> SUFFICES ASSUME NEW x \in 0 .. Len(regs) - 1, NEW a \in 1 .. n, ~Received(d, x),
                      d.info[x].var # None \/ x \in d.spill,
                      NEW q \in N[a][HomeIn(d, x)]
               PROVE  q \in S[a][x]
    BY <1>2, <1>3 DEF InBoth
  <2> DEFINE y == regs[x + 1]
  <2>1. x \in DOMAIN d.info /\ d.info[x].var = VarIn(e, y)
    BY <1>1, NumberMeans
  <2>2. Received(d, x) <=> Received(e, y)
    BY <1>1, NumberMeans
  <2>3. VarIn(e, y) # None => y \in DOMAIN e.info
    BY <1>1, NumberMeans
  <2>4. HomeIn(d, x) \in Homes
        /\ (VarIn(e, y) # None => HomeIn(d, x) = HomeIn(e, y))
    BY <1>1, HomeRenewed
  <2>5. q \in R[a][y] => q \in S[a][x]
    BY RenewedFacts
  <2>6. CASE q \in M[a][HomeIn(d, x)]
    <3>1. VarIn(e, y) # None
      BY <2>1, <2>6, HomeUsed
    <3>2. q \in M[a][HomeIn(e, y)] /\ y \in DOMAIN e.info /\ e.info[y].var # None
      BY <2>3, <2>4, <2>6, <3>1 DEF VarIn
    <3> HIDE DEF y
    <3>3. q \in R[a][y]
      BY <1>1, <1>3, <2>2, <3>2 DEF InBoth
    <3> QED BY <2>5, <3>3
  <2>7. CASE \E z \in d.spill : HomeIn(d, x) = HomeIn(d, z) /\ q \in R[a][regs[z + 1]]
    <3>1. PICK z \in d.spill : HomeIn(d, x) = HomeIn(d, z) /\ q \in R[a][regs[z + 1]]
      BY <2>7
    <3>2. z \in DOMAIN d.info /\ d.passes # 0
      BY <1>2, <1>4
    <3>3. x = z
      BY <1>4, <2>1, <3>1, <3>2, HomesApart
    <3> QED BY <2>5, <3>1, <3>3
  <2>8. q \in M[a][HomeIn(d, x)]
        \/ \E z \in d.spill : HomeIn(d, x) = HomeIn(d, z) /\ q \in R[a][regs[z + 1]]
    BY <2>4, RenewedFacts
  <2> QED BY <2>6, <2>7, <2>8
<1>11. Owned(d, h, S, N)
  <2> SUFFICES ASSUME NEW a \in 1 .. n
               PROVE  /\ \A x \in Nat : \A q \in S[a][x] : VarIn(d, x) \in {None, q} /\ x < h.tmp
                      /\ \A r, p \in Nat : \A q \in N[a][<<r, p>>] : (p = 0 => r = q) /\ p <= d.passes
    BY <1>3 DEF Owned
  <2>1. /\ \A x \in Nat : \A q \in R[a][x] : VarIn(e, x) \in {None, q}
        /\ \A r, p \in Nat : \A q \in M[a][<<r, p>>] : (p = 0 => r = q) /\ p <= e.passes
    BY <1>1, <1>3 DEF Owned
  <2>2. ASSUME NEW x \in Nat, NEW q \in S[a][x] PROVE VarIn(d, x) \in {None, q} /\ x < h.tmp
    <3> DEFINE y == regs[x + 1]
    <3>1. x \in 0 .. Len(regs) - 1 /\ q \in R[a][y]
      BY RenewedFacts
    <3>2. y \in Nat /\ VarIn(d, x) = VarIn(e, y)
      BY <1>1, <3>1, NumberMeans
    <3> HIDE DEF y
    <3> QED BY <1>2, <1>3, <2>1, <3>1, <3>2
  <2>3. ASSUME NEW r \in Nat, NEW p \in Nat, NEW q \in N[a][<<r, p>>]
        PROVE  (p = 0 => r = q) /\ p <= d.passes
    <3> DEFINE l == <<r, p>>
    <3>1. l \in Homes
      BY DEF Homes
    <3>2. q \in M[a][l] \/ \E x \in d.spill : l = HomeIn(d, x) /\ q \in R[a][regs[x + 1]]
      <4> HIDE DEF l
      <4>1. q \in N[a][l]
        BY DEF l
      <4> QED BY <3>1, <4>1, RenewedFacts
    <3>3. CASE q \in M[a][l]
      BY <1>4, <2>1, <3>3
    <3>4. CASE \E x \in d.spill : l = HomeIn(d, x) /\ q \in R[a][regs[x + 1]]
      <4>1. PICK x \in d.spill : l = HomeIn(d, x) /\ q \in R[a][regs[x + 1]]
        BY <3>4
      <4> DEFINE y == regs[x + 1]
      <4>2. x \in 0 .. Len(regs) - 1 /\ d.passes # 0
        BY <1>2, <1>4
      <4>3. y \in Nat
        BY <1>1, <4>2, NumberMeans
      <4>4. /\ VarIn(e, y) # None => l = <<VarIn(e, y), 0>>
            /\ VarIn(e, y) = None => l = <<y, d.passes>>
        BY <1>1, <4>1, <4>2, HomeRenewed
      <4>5. VarIn(e, y) \in {None, q}
        BY <2>1, <4>1, <4>3
      <4> HIDE DEF y
      <4> QED BY <1>4, <4>2, <4>4, <4>5
    <3> QED BY <3>2, <3>3, <3>4
  <2> QED BY <2>2, <2>3
<1> QED BY <1>5, <1>7, <1>8, <1>9, <1>10, <1>11 DEF Describes

\* The numbering of a sound function
LEMMA NumberedBack ==
  ASSUME NEW n, NEW f, Sound(f, n), NEW g, g = Numbered(f, SymRegs(f))
  PROVE  /\ SymRegs(f) \in Once /\ Sound(g, n) /\ g.order = f.order
         /\ Len(SymRegs(f)) <= g.tmp
         /\ \A a \in 1 .. n : SameBehind(SymRegs(f), f.code[a], g.code[a])
<1> DEFINE regs == SymRegs(f)
           code == [a \in 1 .. n |-> SymInstr(f.code[a], regs)]
           tmp == IF f.tmp < Len(regs) THEN Len(regs) ELSE f.tmp
<1>1. n \in Nat \ {0} /\ f.code \in [1 .. n -> Instr] /\ f.tmp \in Nat
      /\ Len(f.code) = n /\ f \in Fns(1 .. n) /\ Ids(f) = 1 .. n
  BY SoundIds DEF Sound, Built, Fns
<1>2. regs \in Seq(Nat) /\ \A a \in 1 .. n : Holds(regs, Operands(f.code[a]))
  BY <1>1, SymRegsHold
<1>3. regs \in Once
  BY <1>1, SymRegsOnce
<1>4. Sound(g, n)
  BY NumberedSound
<1>5. g = [f EXCEPT !.code = code, !.tmp = tmp]
  BY <1>1 DEF Numbered
<1> HIDE DEF regs
<1>6. \A a \in 1 .. n : SameBehind(regs, f.code[a], code[a])
  <2> TAKE a \in 1 .. n
  <2> DEFINE x == f.code[a]
  <2>1. x \in Instr /\ Holds(regs, Operands(x)) /\ code[a] = SymInstr(x, regs)
    BY <1>1, <1>2
  <2> HIDE DEF x, code
  <2> QED BY <1>2, <2>1, NumbersBack DEF x
<1> HIDE DEF code, tmp
<1>7. g.code = code /\ g.tmp = tmp /\ g.order = f.order
  BY <1>1, <1>5 DEF Fns
<1>8. Len(regs) <= tmp
  BY <1>1, <1>2 DEF tmp
<1> QED BY <1>3, <1>4, <1>6, <1>7, <1>8 DEF regs

\* Numbering the registers keeps the values known.
LEMMA HeldNumberRegs ==
  ASSUME IInv, Held, NumberRegs
  PROVE  Held'
<1> SUFFICES ASSUME Usual' PROVE (Walking /\ Carried)'
  BY DEF Held
<1> DEFINE n == Len(fn.code)
           regs == SymRegs(fn)
           e == Pass
           d == Pass'
           P == (1 .. n) \X d.spill
<1>1. /\ phase = "number" /\ fn' = Numbered(fn, regs) /\ odd' = odd /\ temps' = temps
      /\ source' = source /\ pc' = pc /\ want' = want
      /\ info' = [x \in 0 .. Len(regs) - 1 |->
                    [var |-> VarOf(regs[x + 1]), key |-> regs[x + 1]]]
      /\ spill' \subseteq DOMAIN info'
  BY DEF NumberRegs
<1>2. /\ spill' # {} => /\ phase' = "spill" /\ passes' = passes + 1
                        /\ cur' = 1 /\ instr' = 1 /\ todo' = spill'
      /\ spill' = {} => /\ phase' = "run" /\ passes' = passes
                        /\ reg' = [r \in 0 .. fn'.tmp - 1 |-> Junk]
                        /\ mem' = [l \in Locations(temps) |-> Junk]
  BY DEF NumberRegs
<1>3. Walking /\ Carried
  BY <1>1 DEF Held, Usual
<1>4. pc = 1 /\ want = [r \in Sources |-> Junk]
  BY <1>1, <1>3 DEF Walking
<1>5. Sound(fn, n) /\ n \in Nat /\ passes \in Nat
  BY SoundIds DEF IInv
<1>6. Todo = {}
  BY <1>1 DEF Todo
<1>7. PICK R, M : Describes(e, fn, temps, {}, {}, R, M)
  BY <1>3, <1>6 DEF Carried
<1>8. Fits(e, fn, temps, {}, {})
  BY <1>3, <1>6 DEF Carried
<1>9. /\ e.src = source /\ e.info = info /\ e.passes = passes
      /\ d.src = source /\ d.info = info' /\ d.passes = passes' /\ d.spill = spill'
  BY <1>1, <1>2 DEF Pass
<1>10. Renumbers(e, fn, n, regs, d, fn')
  <2>1. /\ regs \in Once /\ Sound(fn', n) /\ fn'.order = fn.order /\ Len(regs) <= fn'.tmp
        /\ \A a \in 1 .. n : SameBehind(regs, fn.code[a], fn'.code[a])
    BY <1>1, <1>5, NumberedBack
  <2>2. \A x : VarOf(x) = VarIn(e, x)
    BY <1>9 DEF VarOf, VarIn
  <2> HIDE DEF n, regs, e, d
  <2>3. /\ DOMAIN d.info = 0 .. Len(regs) - 1
        /\ \A x \in 0 .. Len(regs) - 1 :
             d.info[x].var = VarIn(e, regs[x + 1]) /\ d.info[x].key = regs[x + 1]
    BY <1>1, <1>9, <2>2
  <2>4. /\ d.src = e.src /\ d.spill \subseteq DOMAIN d.info
        /\ d.passes = IF d.spill = {} THEN e.passes ELSE e.passes + 1
    BY <1>1, <1>2, <1>9
  <2> QED BY <1>5, <2>1, <2>3, <2>4 DEF Renumbers
<1> HIDE DEF e, d, n, regs
<1>11. Sound(fn', n) /\ Ids(fn') = 1 .. n
  BY <1>10, SoundCode DEF Renumbers
<1>12. Renewed(e, fn, n, regs, d, fn', temps, R, M)
  BY <1>7, <1>8, <1>10 DEF Renewed
<1>13. Fits(d, fn', temps, P, P)
  BY <1>8, <1>10, <1>11, FitsRenewed
<1>14. \E S, N : Describes(d, fn', temps, P, P, S, N)
  BY <1>12, DescribesRenewed
<1>15. Todo' = P /\ (spill' # {} => Pos(fn', 1) = 1 /\ Pos(fn, instr)' <= Pos(fn, cur)')
  <2>1. CASE spill' = {}
    BY <1>2, <1>9, <2>1 DEF Todo
  <2>2. CASE spill' # {}
    <3>1. phase' = "spill" /\ cur' = 1 /\ instr' = 1 /\ todo' = spill'
      BY <1>2, <2>2
    <3>2. /\ Len(fn'.order) \in Nat
          /\ \A a \in 1 .. n : Pos(fn', a) \in 1 .. Len(fn'.order) /\ fn'.order[Pos(fn', a)] = a
          /\ \A p \in 1 .. Len(fn'.order) : fn'.order[p] \in 1 .. n /\ Pos(fn', fn'.order[p]) = p
      BY <1>11, SoundIds, OrderPlaces
    <3>3. fn'.order[1] = 1 /\ 1 \in 1 .. n
      BY <1>11, <1>13, SoundCode DEF Fits, Shape
    <3>4. 1 \in 1 .. Len(fn'.order)
      BY <3>2, <3>3
    <3>5. Pos(fn', 1) = 1
      BY <3>2, <3>3, <3>4
    <3>6. \A a \in 1 .. n : a = 1 \/ Pos(fn', a) > 1
      BY <3>2, <3>3, <3>5
    <3>7. Todo' = {p \in (1 .. n) \X spill' : (p[1] = 1 /\ p[2] \in spill') \/ Pos(fn', p[1]) > 1}
      BY <1>11, <3>1, <3>5 DEF Todo
    <3>8. \A p \in (1 .. n) \X spill' : p[1] \in 1 .. n /\ p[2] \in spill'
      OBVIOUS
    <3>9. Todo' = P
      BY <1>9, <3>6, <3>7, <3>8
    <3>10. Pos(fn, instr)' = 1 /\ Pos(fn, cur)' = 1
      BY <3>1, <3>5 DEF Pos
    <3> QED BY <3>5, <3>9, <3>10
  <2> QED BY <2>1, <2>2
<1> HIDE DEF P
<1>16. Carried'
  <2>1. PICK S, N : Describes(d, fn', temps, P, P, S, N)
    BY <1>14
  <2>2. Dynamic(S, N)'
    <3> SUFFICES ASSUME phase' = "run"
                 PROVE  /\ \A x \in Nat : \A q \in S[pc'][x] : want'[q] # Junk => reg'[x] = want'[q]
                        /\ \A l \in Locations(temps') : \A q \in N[pc'][Entry(temps', l)] :
                             want'[q] # Junk => mem'[l] = want'[q]
      BY DEF Dynamic, Locations, Entry
    <3>1. 1 \in Nat /\ 1 \in 1 .. n
      BY <1>11, SoundCode
    <3>2. \A x \in Nat : S[1][x] \subseteq Sources
      BY <2>1, <3>1 DEF Describes, RegFacts
    <3>3. \A l \in Locations(temps) : Entry(temps, l) \in Homes
      BY <1>8, EntryType DEF Fits
    <3>4. \A l \in Locations(temps) : N[1][Entry(temps, l)] \subseteq Sources
      BY <2>1, <3>1, <3>3 DEF Describes, MemFacts
    <3>5. \A q \in Sources : want'[q] = Junk
      BY <1>1, <1>4
    <3> QED BY <1>1, <1>4, <3>2, <3>4, <3>5
  <2>3. Fits(Pass, fn, temps, Todo, Todo)' /\ Describes(Pass, fn, temps, Todo, Todo, S, N)'
    BY <1>1, <1>13, <1>15, <2>1 DEF d
  <2> QED BY <2>2, <2>3 DEF Carried
<1>17. Walking'
  <2>1. CASE spill' = {}
    <3>1. phase' = "run" /\ reg' = [r \in 0 .. fn'.tmp - 1 |-> Junk]
          /\ mem' = [l \in Locations(temps) |-> Junk]
      BY <1>2, <2>1
    <3>2. Locations(temps)' = Locations(temps)
      BY <1>1 DEF Locations
    <3> QED BY <1>1, <1>4, <3>1, <3>2 DEF Walking
  <2>2. CASE spill' # {}
    <3>1. phase' = "spill" /\ passes' # 0 /\ cur' = instr'
      BY <1>2, <1>5, <2>2
    <3> QED BY <1>1, <1>4, <1>15, <2>2, <3>1 DEF Walking
  <2> QED BY <2>1, <2>2
<1> QED BY <1>16, <1>17

----------------------------------------------------------------------------
(* In the beginning each register holds its own value *)

RegAtFirst == [a \in Nat |-> [x \in Nat |-> {x} \cap Sources]]
MemAtFirst == [a \in Nat |-> [l \in Homes |-> {}]]

\* The function before allocation is the source between two frames.
SourceIn(f) ==
  /\ f.code[1] = Frame /\ f.code[Len(source) + 2] = Frame
  /\ Len(source) \in Nat /\ Ids(f) = 1 .. Len(source) + 2 /\ Len(f.code) = Len(source) + 2
  /\ \A k \in 1 .. Len(source) : f.code[k + 1] = source[k]
  /\ f.order[1] = 1 /\ \A a \in Ids(f) : Pos(f, a) = a
  /\ \A q \in Sources : q < f.tmp

\* An instruction of the function is one of the source, or a frame.
LEMMA FirstInstr ==
  ASSUME source \in Bodies, NEW f, SourceIn(f), NEW a \in Ids(f)
  PROVE  \/ a \in {1, Len(source) + 2} /\ f.code[a] = Frame
         \/ /\ a \in 2 .. Len(source) + 1 /\ f.code[a] = source[a - 1]
            /\ a - 1 \in 1 .. Len(source) /\ BodyInstr(source, a - 1)
<1>1. a \in {1, Len(source) + 2} \/ a \in 2 .. Len(source) + 1
  BY DEF SourceIn
<1>2. CASE a \in 2 .. Len(source) + 1
  <2>1. a - 1 \in 1 .. Len(source) /\ (a - 1) + 1 = a
    BY <1>2 DEF SourceIn
  <2>2. f.code[(a - 1) + 1] = source[a - 1]
    BY <2>1 DEF SourceIn
  <2>3. BodyInstr(source, a - 1)
    BY <2>1, BodyFacts
  <2> QED BY <1>2, <2>1, <2>2, <2>3
<1>3. CASE a \in {1, Len(source) + 2}
  BY <1>3 DEF SourceIn
<1> QED BY <1>1, <1>2, <1>3

\* The pass before the first
FirstPass(e) ==
  /\ e.src = source /\ e.spill = {} /\ e.passes = 0
  /\ e.info = [r \in Sources |-> [var |-> IF r \in VarRegs THEN r ELSE None, key |-> r]]

\* A register of the source stands for itself.
LEMMA FirstVar ==
  ASSUME NEW e, FirstPass(e)
  PROVE  /\ DOMAIN e.info = Sources /\ Sources \subseteq Nat /\ VarRegs \subseteq Sources
         /\ \A x \in Sources : e.info[x].var \in {None, x} /\ e.info[x].key = x
         /\ \A x \in VarRegs : VarIn(e, x) = x
         /\ \A x : VarIn(e, x) \in {None, x}
<1>1. Sources \subseteq Nat /\ VarRegs \subseteq Sources
  BY RegsAssumption DEF Sources
<1>2. DOMAIN e.info = Sources
  BY DEF FirstPass
<1>3. \A x \in Sources : /\ e.info[x].var = IF x \in VarRegs THEN x ELSE None
                         /\ e.info[x].key = x
  BY DEF FirstPass
<1> QED BY <1>1, <1>2, <1>3 DEF VarIn

\* The function fits.
LEMMA FitsAtFirst ==
  ASSUME source \in Bodies, NEW f, SourceIn(f), NEW e, FirstPass(e)
  PROVE  Fits(e, f, <<>>, {}, {})
<1>1. /\ DOMAIN e.info = Sources /\ Sources \subseteq Nat /\ VarRegs \subseteq Sources
      /\ \A x \in Sources : e.info[x].var \in {None, x} /\ e.info[x].key = x
      /\ \A x \in VarRegs : VarIn(e, x) = x
      /\ \A x : VarIn(e, x) \in {None, x}
  BY FirstVar
<1>2. PassOK(e)
  <2>1. \A x \in Sources : e.info[x].var \in VarRegs \cup {None}
    BY DEF FirstPass
  <2>2. \A x, y \in Sources :
          e.info[x].key = e.info[y].key \/ (e.info[x].var # None /\ e.info[x].var = e.info[y].var)
            => x = y
    BY <1>1
  <2>3. \A x \in Sources : e.info[x].key \in Nat
    BY <1>1
  <2>4. e.src \in Bodies /\ e.passes \in Nat /\ e.spill = {}
    BY DEF FirstPass
  <2> QED BY <1>1, <2>1, <2>2, <2>3, <2>4 DEF PassOK
<1>3. PlacesOK(e, <<>>)
  BY DEF PlacesOK
<1>4. /\ e.src = source /\ Len(source) \in Nat /\ Originals(e) = 2 .. Len(source) + 1
      /\ Ids(f) = 1 .. Len(source) + 2 /\ Len(f.code) = Len(source) + 2
  BY DEF FirstPass, SourceIn, Originals
<1>5. \A a \in {1, Len(e.src) + 2} :
        f.code[a].op = "frame" /\ f.code[a].src = <<>> /\ f.code[a].dst = None
  BY <1>4 DEF SourceIn, Frame, Ins
<1>6. ASSUME NEW a \in Originals(e) PROVE AsWas(e, f, a)
  <2>1. a \in Ids(f) /\ a \notin {1, Len(source) + 2}
    BY <1>4
  <2>2. f.code[a] = Was(e, a) /\ BodyInstr(source, a - 1)
    BY <1>4, <2>1, FirstInstr DEF Was
  <2>3. Was(e, a).op = "receive" => Was(e, a).dst \in VarRegs
    BY <1>4, <2>2 DEF BodyInstr, Was
  <2> QED BY <1>1, <2>2, <2>3 DEF AsWas
<1>7. \A a \in Len(e.src) + 3 .. Len(f.code) : AsSpilled(e, f, <<>>, a)
  BY <1>4
<1>8. \A a, b \in 1 .. Len(e.src) + 2 : a < b => Pos(f, a) < Pos(f, b)
  BY <1>4 DEF SourceIn
<1>9. Shape(e, f, <<>>)
  BY <1>4, <1>5, <1>6, <1>7, <1>8 DEF Shape, SourceIn
<1>10. ReceivesLeft(e, f, {})
  BY DEF ReceivesLeft, FirstPass
<1>11. \A x \in DOMAIN e.info : x < f.tmp
  BY <1>1 DEF SourceIn
<1> QED BY <1>2, <1>3, <1>9, <1>10, <1>11 DEF Fits

\* Its values are known.
LEMMA DescribesAtFirst ==
  ASSUME source \in Bodies, NEW f, SourceIn(f), NEW e, FirstPass(e)
  PROVE  Describes(e, f, <<>>, {}, {}, RegAtFirst, MemAtFirst)
<1> DEFINE R == RegAtFirst
           M == MemAtFirst
<1>1. /\ DOMAIN e.info = Sources /\ Sources \subseteq Nat /\ VarRegs \subseteq Sources
      /\ \A x : VarIn(e, x) \in {None, x}
  BY FirstVar
<1>2. /\ e.src = source /\ Len(source) \in Nat /\ Originals(e) = 2 .. Len(source) + 1
      /\ Ids(f) = 1 .. Len(source) + 2
  BY DEF FirstPass, SourceIn, Originals
<1>3. \A a, x \in Nat : R[a][x] = {x} \cap Sources
  BY DEF RegAtFirst
<1>4. \A a \in Nat, l \in Homes : M[a][l] = {}
  BY DEF MemAtFirst
<1>5. R \in RegFacts /\ M \in MemFacts
  BY DEF RegAtFirst, MemAtFirst, RegFacts, MemFacts
<1>6. ASSUME NEW a \in Ids(f)
      PROVE  /\ a \in Nat
             /\ f.code[a].op \notin {"load", "store", "push_arg"}
             /\ f.code[a].op # "frame" =>
                  a \in Originals(e) /\ f.code[a] = Was(e, a) /\ BodyInstr(source, a - 1)
  <2>1. CASE a \in {1, Len(source) + 2} /\ f.code[a] = Frame
    BY <1>2, <2>1 DEF Frame, Ins
  <2>2. CASE /\ a \in 2 .. Len(source) + 1 /\ f.code[a] = source[a - 1]
             /\ BodyInstr(source, a - 1)
    BY <1>2, <2>2 DEF Was, BodyInstr, SourceOps, Branches
  <2> QED BY <2>1, <2>2, FirstInstr
<1> HIDE DEF R, M
<1>7. Flow(e, f, <<>>, {}, {}, R, M)
  <2> SUFFICES ASSUME NEW a \in Ids(f), NEW b \in Ids(f)
               PROVE  /\ \A x \in Nat : \A q \in R[b][x] : RegAfter(e, f, <<>>, {}, {}, R, M, a, x, q)
                      /\ \A l \in Homes : \A q \in M[b][l] : MemAfter(e, f, <<>>, {}, {}, R, M, a, l, q)
    BY DEF Flow
  <2>1. ASSUME NEW x \in Nat, NEW q \in R[b][x] PROVE RegAfter(e, f, <<>>, {}, {}, R, M, a, x, q)
    <3>1. q = x /\ x \in Sources
      BY <1>3, <1>6
    <3>2. q \in R[a][x]
      BY <1>3, <1>6, <3>1
    <3>3. CASE Writes(f.code[a]) /\ x = f.code[a].dst
      <4>1. f.code[a].op \notin {"load", "store", "frame"}
        BY <1>6, <3>3 DEF Writes
      <4>2. f.code[a] = Was(e, a)
        BY <1>6, <4>1
      <4> QED BY <3>1, <3>3, <4>1, <4>2 DEF RegAfter, Written
    <3>4. CASE ~(Writes(f.code[a]) /\ x = f.code[a].dst)
      <4>1. Unchanged(e, f, a, q)
        <5> SUFFICES ASSUME Gives(f.code[a]) PROVE q # Was(e, a).dst
          BY DEF Unchanged
        <5>1. Writes(f.code[a]) /\ f.code[a].op # "frame"
          BY <1>6 DEF Gives, Writes
        <5> QED BY <1>6, <3>1, <3>4, <5>1
      <4> QED BY <3>2, <3>4, <4>1 DEF RegAfter
    <3> QED BY <3>3, <3>4
  <2>2. \A l \in Homes : M[b][l] = {}
    BY <1>4, <1>6
  <2> QED BY <2>1, <2>2
<1>8. OperandsKnown(e, f, {}, R, M)
  <2> SUFFICES ASSUME NEW a \in Originals(e)
               PROVE  /\ \A k \in DOMAIN f.code[a].src :
                           Known(e, {}, R, M, a, f.code[a].src[k], Was(e, a).src[k])
                      /\ f.code[a].op = "reg_store" => Known(e, {}, R, M, a, f.code[a].dst, Was(e, a).dst)
    BY DEF OperandsKnown
  <2>1. a \in Ids(f) /\ a \notin {1, Len(source) + 2}
    BY <1>2
  <2>2. f.code[a] = Was(e, a) /\ BodyInstr(source, a - 1) /\ a \in Nat
    BY <1>2, <1>6, <2>1, FirstInstr DEF Was
  <2>3. /\ \A k \in DOMAIN Was(e, a).src : Was(e, a).src[k] \in Sources
        /\ Was(e, a).op = "reg_store" => Was(e, a).dst \in Sources
    BY <1>2, <2>2 DEF BodyInstr, Was
  <2>4. \A x \in Sources : Known(e, {}, R, M, a, x, x)
    BY <1>1, <1>3, <2>2 DEF Known
  <2> QED BY <2>2, <2>3, <2>4
<1>9. StoresKnown(e, f, <<>>, {}, R, M)
  BY <1>6 DEF StoresKnown
<1>10. InBoth(e, f, R, M)
  <2> SUFFICES ASSUME NEW x \in DOMAIN e.info, NEW a \in Ids(f)
               PROVE  M[a][HomeIn(e, x)] \subseteq R[a][x]
    BY DEF InBoth
  <2>1. PassOK(e)
    BY FitsAtFirst DEF Fits
  <2>2. HomeIn(e, x) \in Homes
    BY <2>1, HomeType
  <2> QED BY <1>4, <1>6, <2>2
<1>11. Owned(e, f, R, M)
  <2> SUFFICES ASSUME NEW a \in Ids(f)
               PROVE  /\ \A x \in Nat : \A q \in R[a][x] : VarIn(e, x) \in {None, q} /\ x < f.tmp
                      /\ \A r, p \in Nat : M[a][<<r, p>>] = {}
    BY DEF Owned
  <2>1. \A r, p \in Nat : <<r, p>> \in Homes
    BY DEF Homes
  <2>2. \A r, p \in Nat : M[a][<<r, p>>] = {}
    BY <1>4, <1>6, <2>1
  <2>3. ASSUME NEW x \in Nat, NEW q \in R[a][x] PROVE VarIn(e, x) \in {None, q} /\ x < f.tmp
    <3>1. q = x /\ x \in Sources
      BY <1>3, <1>6
    <3> QED BY <1>1, <3>1 DEF SourceIn
  <2> QED BY <2>2, <2>3
<1> QED BY <1>5, <1>7, <1>8, <1>9, <1>10, <1>11 DEF Describes, R, M

\* The invariant holds initially.
LEMMA HeldInit == Init => Held
<1> SUFFICES ASSUME Init PROVE Held
  OBVIOUS
<1> DEFINE f == Listed(source)
           n == Len(source) + 2
<1>1. source \in Bodies /\ fn = mcfg_build_func(f)
  BY DEF Init
<1>2. /\ n \in Nat \ {0, 1} /\ Len(f.code) = n /\ f.code \in [1 .. n -> Instr]
      /\ f.tmp \in Nat
      /\ InOrder(f, n) /\ NodesUpTo(f, f, 0) /\ BranchesIn(f, n)
      /\ f.code[1] = Frame /\ f.code[n] = Frame
      /\ \A k \in 1 .. Len(source) : f.code[k + 1] = source[k]
      /\ \A q \in Sources : q < f.tmp
  BY <1>1, ListedCode
<1>3. Len(source) \in Nat
  BY <1>1, BodyFacts
<1> HIDE DEF f
<1>4. Built(fn, n) /\ SameList(f, fn)
  <2> HIDE DEF n
  <2> QED BY <1>1, <1>2, BuildMeans
<1>5. SourceIn(fn)
  <2>1. fn.code = f.code /\ fn.order = f.order /\ fn.tmp = f.tmp
    BY <1>4 DEF SameList
  <2>2. fn.order \in Seq(1 .. n) /\ Len(fn.order) = n /\ \A a \in 1 .. n : fn.order[a] = a
    BY <1>2, <2>1 DEF InOrder
  <2> HIDE DEF n
  <2>3. Ids(fn) = 1 .. n
    BY <1>2, <2>1 DEF Ids
  <2>4. DOMAIN fn.order = 1 .. n
    BY <2>2
  <2>5. \A a \in 1 .. n : Pos(fn, a) = a
    BY <2>2, <2>4 DEF Pos
  <2>6. fn.order[1] = 1
    BY <1>2, <2>2
  <2> QED BY <1>2, <1>3, <2>1, <2>3, <2>5, <2>6 DEF SourceIn, n
<1>6. /\ temps = <<>> /\ phase = "number" /\ spill = {} /\ passes = 0 /\ pc = 1
      /\ want = [r \in Sources |-> Junk]
      /\ info = [r \in Sources |-> [var |-> IF r \in VarRegs THEN r ELSE None, key |-> r]]
  BY DEF Init
<1>7. FirstPass(Pass)
  BY <1>6 DEF FirstPass, Pass
<1>8. Todo = {}
  BY <1>6 DEF Todo
<1>9. Fits(Pass, fn, temps, Todo, Todo)
  BY <1>1, <1>5, <1>6, <1>7, <1>8, FitsAtFirst
<1>10. Describes(Pass, fn, temps, Todo, Todo, RegAtFirst, MemAtFirst)
  BY <1>1, <1>5, <1>6, <1>7, <1>8, DescribesAtFirst
<1>11. Dynamic(RegAtFirst, MemAtFirst)
  BY <1>6 DEF Dynamic
<1>12. Walking
  BY <1>6 DEF Walking
<1> QED BY <1>9, <1>10, <1>11, <1>12 DEF Held, Carried

----------------------------------------------------------------------------
(* The code runs *)

\* Control goes where the list and the branches lead.
LEMMA FollowGoes ==
  ASSUME NEW n, NEW f, Sound(f, n), NEW a \in 1 .. n, NEW b \in CodeSucc(f, a)
  PROVE  b \in 1 .. n /\ Goes(f, a, b)
<1>1. Ids(f) = 1 .. n /\ Built(f, n) /\ n \in Nat
  BY SoundIds
<1>2. b \in 1 .. n
  BY <1>1 DEF CodeSucc
<1>3. CASE f.code[a].op \in Branches /\ b = f.code[a].jump
  BY <1>2, <1>3 DEF Goes, JumpsTo
<1>4. CASE f.code[a].op # "jump" /\ a # Last(f.order) /\ b = NextOf(f, a)
  <2>1. Before(f.order, a, b)
    BY <1>1, <1>2, <1>4, BeforeNext
  <2> QED BY <1>2, <1>4, <2>1 DEF Goes, FallsTo
<1> QED BY <1>2, <1>3, <1>4 DEF CodeSucc

\* What holds in front of the next instruction, from what held in front of this
Moved(e, R, M, a, b) ==
  /\ \A x \in Nat : \A q \in R[b][x] :
       q \in Sources /\ x \in 0 .. fn.tmp - 1 /\ RegAfter(e, fn, temps, {}, {}, R, M, a, x, q)
  /\ \A l \in Locations(temps) : \A q \in M[b][Entry(temps, l)] :
       q \in Sources /\ MemAfter(e, fn, temps, {}, {}, R, M, a, Entry(temps, l), q)

\* The machine at an instruction
Running(e, R, M, n) ==
  /\ Sound(fn, n) /\ pc \in 1 .. n
  /\ Fits(e, fn, temps, {}, {}) /\ Describes(e, fn, temps, {}, {}, R, M)
  /\ e.src = source
  /\ DOMAIN reg = 0 .. fn.tmp - 1 /\ DOMAIN mem = Locations(temps) /\ DOMAIN want = Sources
  /\ \A x \in Nat : \A q \in R[pc][x] : want[q] # Junk => reg[x] = want[q]
  /\ \A l \in Locations(temps) : \A q \in M[pc][Entry(temps, l)] :
       want[q] # Junk => mem[l] = want[q]

\* The registers and the frame agree with want at instruction b.
Agree(R, M, b, regs, frame, wanted) ==
  /\ \A x \in Nat : \A q \in R[b][x] : wanted[q] # Junk => regs[x] = wanted[q]
  /\ \A l \in Locations(temps) : \A q \in M[b][Entry(temps, l)] :
       wanted[q] # Junk => frame[l] = wanted[q]

\* A step of the code goes from an instruction to one behind it.
LEMMA StepMoves ==
  ASSUME NEW e, NEW R, NEW M, NEW n, Running(e, R, M, n), NEW b \in CodeSucc(fn, pc)
  PROVE  Moved(e, R, M, pc, b)
<1>1. b \in 1 .. n /\ Goes(fn, pc, b)
  BY FollowGoes DEF Running
<1>2. Ids(fn) = 1 .. n /\ n \in Nat /\ fn.tmp \in Nat
  BY SoundCode DEF Running
<1>3. pc \in 1 .. n /\ b \in Nat
  BY <1>1, <1>2 DEF Running
<1>4. /\ \A x \in Nat : \A q \in R[b][x] : RegAfter(e, fn, temps, {}, {}, R, M, pc, x, q)
      /\ \A h \in Homes : \A q \in M[b][h] : MemAfter(e, fn, temps, {}, {}, R, M, pc, h, q)
  BY <1>1, <1>2, <1>3 DEF Running, Describes, Flow
<1>5. \A x \in Nat : \A q \in R[b][x] : q \in Sources /\ x \in 0 .. fn.tmp - 1
  <2>1. \A x \in Nat : R[b][x] \subseteq Sources
    BY <1>3 DEF Running, Describes, RegFacts
  <2>2. \A x \in Nat : \A q \in R[b][x] : x < fn.tmp
    BY <1>1, <1>2 DEF Running, Describes, Owned
  <2> QED BY <1>2, <2>1, <2>2
<1>6. \A l \in Locations(temps) : Entry(temps, l) \in Homes
  BY EntryType DEF Running, Fits
<1>7. \A h \in Homes : M[b][h] \subseteq Sources
  BY <1>3 DEF Running, Describes, MemFacts
<1> QED BY <1>4, <1>5, <1>6, <1>7 DEF Moved

\* Where nothing is written everything stays.
LEMMA StepPasses ==
  ASSUME NEW e, NEW R, NEW M, NEW n, Running(e, R, M, n), NEW b \in CodeSucc(fn, pc),
         ~Writes(fn.code[pc]), fn.code[pc].op \notin {"store", "push_arg"}
  PROVE  Agree(R, M, b, reg, mem, want)
<1>1. Moved(e, R, M, pc, b)
  BY StepMoves
<1>2. \A x \in Nat : \A q \in R[b][x] : q \in R[pc][x]
  BY <1>1 DEF Moved, RegAfter
<1>3. \A h : ~ToHome(e, fn, temps, {}, pc, h)
  BY DEF ToHome
<1>4. \A l \in Locations(temps) : \A q \in M[b][Entry(temps, l)] : q \in M[pc][Entry(temps, l)]
  BY <1>1, <1>3 DEF Moved, MemAfter
<1> QED BY <1>2, <1>4 DEF Running, Agree

\* A load brings what the home holds.
LEMMA StepLoad ==
  ASSUME NEW e, NEW R, NEW M, NEW n, Running(e, R, M, n), NEW b \in CodeSucc(fn, pc),
         fn.code[pc].op = "load"
  PROVE  Agree(R, M, b, [reg EXCEPT ![fn.code[pc].dst] = mem[fn.code[pc].slot]], mem, want)
<1> DEFINE i == fn.code[pc]
           regs == [reg EXCEPT ![i.dst] = mem[i.slot]]
<1>1. Moved(e, R, M, pc, b)
  BY StepMoves
<1>2. i.slot \in Locations(temps)
  BY Kinds DEF Running, Fits
<1>3. ASSUME NEW x \in Nat, NEW q \in R[b][x], want[q] # Junk PROVE regs[x] = want[q]
  <2>1. x \in DOMAIN reg /\ RegAfter(e, fn, temps, {}, {}, R, M, pc, x, q)
    BY <1>1 DEF Moved, Running
  <2>2. CASE x = i.dst
    <3>1. q \in M[pc][Entry(temps, i.slot)]
      BY <2>1, <2>2 DEF RegAfter, Writes, Written
    <3> QED BY <1>2, <1>3, <2>1, <2>2, <3>1 DEF Running
  <2>3. CASE x # i.dst
    <3>1. q \in R[pc][x]
      BY <2>1, <2>3 DEF RegAfter
    <3> QED BY <1>3, <2>1, <2>3, <3>1 DEF Running
  <2> QED BY <2>2, <2>3
<1>4. \A h : ~ToHome(e, fn, temps, {}, pc, h)
  BY DEF ToHome
<1>5. \A l \in Locations(temps) : \A q \in M[b][Entry(temps, l)] : q \in M[pc][Entry(temps, l)]
  BY <1>1, <1>4 DEF Moved, MemAfter
<1> HIDE DEF regs
<1> QED BY <1>3, <1>5 DEF Running, Agree, regs

\* A store, or a push, goes to one place of the frame.
LEMMA StepToFrame ==
  ASSUME NEW e, NEW R, NEW M, NEW n, Running(e, R, M, n), NEW b \in CodeSucc(fn, pc),
         fn.code[pc].op \in {"store", "push_arg"}
  PROVE  /\ fn.code[pc].slot \in Locations(temps)
         /\ \A x \in Nat : \A q \in R[b][x] : q \in Sources /\ q \in R[pc][x] /\ Unchanged(e, fn, pc, q)
         /\ \A l \in Locations(temps) : \A q \in M[b][Entry(temps, l)] :
              /\ q \in Sources
              /\ l = fn.code[pc].slot => Written(e, fn, temps, {}, R, M, pc, q)
              /\ l # fn.code[pc].slot => q \in M[pc][Entry(temps, l)] /\ Unchanged(e, fn, pc, q)
<1> DEFINE i == fn.code[pc]
<1>1. Moved(e, R, M, pc, b)
  BY StepMoves
<1>2. i.slot \in Locations(temps) /\ PlacesOK(e, temps)
  BY Kinds DEF Running, Fits
<1>3. ~Writes(i)
  BY DEF Writes
<1>4. \A x \in Nat : \A q \in R[b][x] : q \in Sources /\ q \in R[pc][x] /\ Unchanged(e, fn, pc, q)
  BY <1>1, <1>3 DEF Moved, RegAfter
<1>5. \A h : ToHome(e, fn, temps, {}, pc, h) <=> h = Entry(temps, i.slot)
  BY DEF ToHome
<1>6. \A l \in Locations(temps) : l # i.slot => Entry(temps, l) # Entry(temps, i.slot)
  BY <1>2, EntriesApart
<1>7. \A l \in Locations(temps) : \A q \in M[b][Entry(temps, l)] :
        /\ q \in Sources
        /\ l = i.slot => Written(e, fn, temps, {}, R, M, pc, q)
        /\ l # i.slot => q \in M[pc][Entry(temps, l)] /\ Unchanged(e, fn, pc, q)
  BY <1>1, <1>5, <1>6 DEF Moved, MemAfter
<1> QED BY <1>2, <1>4, <1>7

\* A store takes the value to the home.
LEMMA StepStore ==
  ASSUME NEW e, NEW R, NEW M, NEW n, Running(e, R, M, n), NEW b \in CodeSucc(fn, pc),
         fn.code[pc].op = "store"
  PROVE  Agree(R, M, b, reg, [mem EXCEPT ![fn.code[pc].slot] = reg[fn.code[pc].src[1]]], want)
<1> DEFINE i == fn.code[pc]
           frame == [mem EXCEPT ![i.slot] = reg[i.src[1]]]
<1>1. /\ i.slot \in Locations(temps)
      /\ \A x \in Nat : \A q \in R[b][x] : q \in R[pc][x]
      /\ \A l \in Locations(temps) : \A q \in M[b][Entry(temps, l)] :
           /\ l = i.slot => Written(e, fn, temps, {}, R, M, pc, q)
           /\ l # i.slot => q \in M[pc][Entry(temps, l)]
  BY StepToFrame
<1>2. i.src[1] \in Nat
  <2>1. 1 \in DOMAIN i.src
    BY Kinds DEF Running, Fits
  <2> QED BY <2>1, SoundCode DEF Running
<1>3. ASSUME NEW l \in Locations(temps), NEW q \in M[b][Entry(temps, l)], want[q] # Junk
      PROVE  frame[l] = want[q]
  <2>1. l \in DOMAIN mem
    BY DEF Running
  <2>2. CASE l = i.slot
    <3>1. q \in R[pc][i.src[1]]
      BY <1>1, <2>2 DEF Written, Known
    <3> QED BY <1>2, <1>3, <2>1, <2>2, <3>1 DEF Running
  <2>3. CASE l # i.slot
    BY <1>1, <1>3, <2>1, <2>3 DEF Running
  <2> QED BY <2>2, <2>3
<1> HIDE DEF frame, i
<1> QED BY <1>1, <1>3 DEF Running, Agree, frame, i

\* An argument that is pushed is the register's new value, and its home's.
LEMMA StepPush ==
  ASSUME NEW e, NEW R, NEW M, NEW n, Running(e, R, M, n), NEW b \in CodeSucc(fn, pc),
         fn.code[pc].op = "push_arg", NEW v
  PROVE  Agree(R, M, b, reg, [mem EXCEPT ![fn.code[pc].slot] = v],
               [want EXCEPT ![source[pc - 1].dst] = v])
<1> DEFINE i == fn.code[pc]
           w == source[pc - 1].dst
           frame == [mem EXCEPT ![i.slot] = v]
           wanted == [want EXCEPT ![w] = v]
<1>1. /\ i.slot \in Locations(temps)
      /\ \A x \in Nat : \A q \in R[b][x] : q \in Sources /\ q \in R[pc][x] /\ Unchanged(e, fn, pc, q)
      /\ \A l \in Locations(temps) : \A q \in M[b][Entry(temps, l)] :
           /\ q \in Sources
           /\ l = i.slot => Written(e, fn, temps, {}, R, M, pc, q)
           /\ l # i.slot => q \in M[pc][Entry(temps, l)] /\ Unchanged(e, fn, pc, q)
  BY StepToFrame
<1>2. Was(e, pc).dst = w
  BY DEF Was, Running
<1>3. \A q : /\ Unchanged(e, fn, pc, q) => q # w
             /\ Written(e, fn, temps, {}, R, M, pc, q) => q = w
  BY <1>2 DEF Unchanged, Written, Gives
<1>4. DOMAIN want = Sources /\ DOMAIN mem = Locations(temps)
  BY DEF Running
<1>5. \A q \in Sources : wanted[q] = IF q = w THEN v ELSE want[q]
  BY <1>4
<1>6. \A l \in Locations(temps) : frame[l] = IF l = i.slot THEN v ELSE mem[l]
  BY <1>4
<1> HIDE DEF frame, wanted, w, i
<1>7. ASSUME NEW x \in Nat, NEW q \in R[b][x], wanted[q] # Junk PROVE reg[x] = wanted[q]
  BY <1>1, <1>3, <1>5, <1>7 DEF Running
<1>8. ASSUME NEW l \in Locations(temps), NEW q \in M[b][Entry(temps, l)], wanted[q] # Junk
      PROVE  frame[l] = wanted[q]
  BY <1>1, <1>3, <1>5, <1>6, <1>8 DEF Running
<1> QED BY <1>7, <1>8 DEF Agree, frame, wanted, w, i

\* A definition gives its register the new value.
LEMMA StepDef ==
  ASSUME NEW e, NEW R, NEW M, NEW n, Running(e, R, M, n), NEW b \in CodeSucc(fn, pc),
         fn.code[pc].op \in {"op", "call", "receive"}, fn.code[pc].dst # None, NEW v
  PROVE  Agree(R, M, b, [reg EXCEPT ![fn.code[pc].dst] = v], mem,
               [want EXCEPT ![source[pc - 1].dst] = v])
<1> DEFINE i == fn.code[pc]
           w == source[pc - 1].dst
           regs == [reg EXCEPT ![i.dst] = v]
           wanted == [want EXCEPT ![w] = v]
<1>1. Moved(e, R, M, pc, b)
  BY StepMoves
<1>2. Was(e, pc).dst = w
  BY DEF Was, Running
<1>3. Writes(i) /\ Gives(i) /\ i.op \notin {"load", "store", "push_arg"}
  BY DEF Writes, Gives
<1>4. \A q : /\ Unchanged(e, fn, pc, q) => q # w
             /\ Written(e, fn, temps, {}, R, M, pc, q) => q = w
  BY <1>2, <1>3 DEF Unchanged, Written
<1>5. \A h : ~ToHome(e, fn, temps, {}, pc, h)
  BY <1>3 DEF ToHome
<1>6. DOMAIN want = Sources /\ DOMAIN reg = 0 .. fn.tmp - 1
  BY DEF Running
<1>7. \A q \in Sources : wanted[q] = IF q = w THEN v ELSE want[q]
  BY <1>6
<1>8. \A x \in 0 .. fn.tmp - 1 : regs[x] = IF x = i.dst THEN v ELSE reg[x]
  BY <1>6
<1>9. \A x \in Nat : \A q \in R[b][x] :
        /\ q \in Sources /\ x \in 0 .. fn.tmp - 1
        /\ x = i.dst => q = w
        /\ x # i.dst => q \in R[pc][x] /\ q # w
  BY <1>1, <1>3, <1>4 DEF Moved, RegAfter
<1>10. \A l \in Locations(temps) : \A q \in M[b][Entry(temps, l)] :
         q \in Sources /\ q \in M[pc][Entry(temps, l)] /\ q # w
  BY <1>1, <1>4, <1>5 DEF Moved, MemAfter
<1> HIDE DEF regs, wanted, w, i
<1>11. ASSUME NEW x \in Nat, NEW q \in R[b][x], wanted[q] # Junk PROVE regs[x] = wanted[q]
  BY <1>7, <1>8, <1>9, <1>11 DEF Running
<1>12. ASSUME NEW l \in Locations(temps), NEW q \in M[b][Entry(temps, l)], wanted[q] # Junk
       PROVE  mem[l] = wanted[q]
  BY <1>7, <1>10, <1>12 DEF Running
<1> QED BY <1>11, <1>12 DEF Agree, regs, wanted, w, i

\* While the code runs, registers and homes agree with what is known of them.
LEMMA RunsKnown ==
  ASSUME IInv, phase = "run", Walking, Carried
  PROVE  /\ Todo = {} /\ Fits(Pass, fn, temps, {}, {}) /\ Pass.src = source
         /\ \E R, M : Running(Pass, R, M, Len(fn.code))
<1>1. Todo = {}
  BY DEF Todo
<1>2. PICK R, M : Describes(Pass, fn, temps, {}, {}, R, M) /\ Dynamic(R, M)
  BY <1>1 DEF Carried
<1>3. Fits(Pass, fn, temps, {}, {}) /\ Pass.src = source
  BY <1>1 DEF Carried, Pass
<1>4. Sound(fn, Len(fn.code)) /\ pc \in 1 .. Len(fn.code)
  BY DEF IInv, WalkOK
<1>5. Running(Pass, R, M, Len(fn.code))
  <2> DEFINE e == Pass
  <2> HIDE DEF e
  <2>1. Describes(e, fn, temps, {}, {}, R, M) /\ Fits(e, fn, temps, {}, {}) /\ e.src = source
    BY <1>2, <1>3 DEF e
  <2>2. DOMAIN reg = 0 .. fn.tmp - 1 /\ DOMAIN mem = Locations(temps) /\ DOMAIN want = Sources
    BY DEF Walking
  <2>3. Running(e, R, M, Len(fn.code))
    BY <1>2, <1>4, <2>1, <2>2 DEF Running, Dynamic
  <2> QED BY <2>3 DEF e
<1> QED BY <1>1, <1>3, <1>5

\* A step of the machine that keeps them in agreement keeps the invariant.
LEMMA RunHeld ==
  ASSUME IInv, phase = "run", Walking, Carried,
         UNCHANGED <<source, phase, alloc>>,
         DOMAIN reg' = DOMAIN reg, DOMAIN mem' = DOMAIN mem, DOMAIN want' = DOMAIN want,
         \A R, M : Running(Pass, R, M, Len(fn.code)) => Agree(R, M, pc', reg', mem', want')
  PROVE  (Walking /\ Carried)'
<1>1. /\ source' = source /\ phase' = "run" /\ fn' = fn /\ info' = info /\ temps' = temps
      /\ passes' = passes /\ spill' = spill
  BY DEF alloc
<1>2. /\ Todo = {} /\ Fits(Pass, fn, temps, {}, {})
  BY RunsKnown
<1>3. PICK R, M : Running(Pass, R, M, Len(fn.code))
  BY RunsKnown
<1>4. Pass' = Pass
  BY <1>1 DEF Pass
<1>5. Todo' = {}
  BY <1>1 DEF Todo
<1>6. Describes(Pass, fn, temps, {}, {}, R, M)
  BY <1>3 DEF Running
<1>7. Agree(R, M, pc', reg', mem', want')
  BY <1>3
<1>8. Dynamic(R, M)'
  <2>1. Locations(temps)' = Locations(temps) /\ \A l : Entry(temps, l)' = Entry(temps, l)
    BY <1>1 DEF Locations, Entry
  <2>2. /\ \A x \in Nat : \A q \in R[pc'][x] : want'[q] # Junk => reg'[x] = want'[q]
        /\ \A l \in Locations(temps) : \A q \in M[pc'][Entry(temps, l)] :
             want'[q] # Junk => mem'[l] = want'[q]
    BY <1>7 DEF Agree
  <2> QED BY <2>1, <2>2 DEF Dynamic
<1>9. Fits(Pass, fn, temps, Todo, Todo)' /\ Describes(Pass, fn, temps, Todo, Todo, R, M)'
  BY <1>1, <1>2, <1>4, <1>5, <1>6
<1>10. Carried'
  BY <1>8, <1>9 DEF Carried
<1>11. Walking'
  <2>1. DOMAIN reg' = 0 .. fn.tmp - 1 /\ DOMAIN mem' = Locations(temps) /\ DOMAIN want' = Sources
    BY DEF Walking
  <2>2. Locations(temps)' = Locations(temps)
    BY <1>1 DEF Locations
  <2> QED BY <1>1, <2>1, <2>2 DEF Walking
<1> QED BY <1>10, <1>11

\* Every step keeps the values known.
LEMMA HeldNext == IInv /\ Held /\ [Next]_vars => Held'
<1> SUFFICES ASSUME IInv, Held, [Next]_vars PROVE Held'
  OBVIOUS
<1>1. CASE NumberRegs
  BY <1>1, HeldNumberRegs
<1>2. CASE \E j \in todo : SpillReg(j)
  BY <1>2, HeldSpillReg
<1>3. CASE NextInstr
  BY <1>3, HeldNextInstr
<1>4. CASE PassEnd
  BY <1>4, HeldPassEnd
<1>5. ASSUME phase = "run", UNCHANGED <<source, phase, alloc>>,
             DOMAIN reg' = DOMAIN reg, DOMAIN mem' = DOMAIN mem, DOMAIN want' = DOMAIN want,
             \A R, M : Running(Pass, R, M, Len(fn.code)) => Agree(R, M, pc', reg', mem', want')
      PROVE  Held'
  <2> SUFFICES ASSUME Usual' PROVE (Walking /\ Carried)'
    BY DEF Held
  <2>1. odd' = odd
    BY <1>5 DEF alloc
  <2>2. Walking /\ Carried
    BY <2>1 DEF Held, Usual
  <2> QED BY <1>5, <2>2, RunHeld
<1>6. CASE RunLoad
  <2>1. /\ phase = "run" /\ fn.code[pc].op = "load" /\ pc' \in CodeSucc(fn, pc)
        /\ reg' = [reg EXCEPT ![fn.code[pc].dst] = mem[fn.code[pc].slot]]
        /\ UNCHANGED <<source, phase, alloc>> /\ mem' = mem /\ want' = want
    BY <1>6 DEF RunLoad, At, Follow
  <2>2. ASSUME NEW R, NEW M, Running(Pass, R, M, Len(fn.code))
        PROVE  Agree(R, M, pc', reg', mem', want')
    BY <2>1, <2>2, StepLoad
  <2> QED BY <1>5, <2>1, <2>2
<1>7. CASE RunStore
  <2>1. /\ phase = "run" /\ fn.code[pc].op = "store" /\ pc' \in CodeSucc(fn, pc)
        /\ mem' = [mem EXCEPT ![fn.code[pc].slot] = reg[fn.code[pc].src[1]]]
        /\ UNCHANGED <<source, phase, alloc>> /\ reg' = reg /\ want' = want
    BY <1>7 DEF RunStore, At, Follow
  <2>2. ASSUME NEW R, NEW M, Running(Pass, R, M, Len(fn.code))
        PROVE  Agree(R, M, pc', reg', mem', want')
    BY <2>1, <2>2, StepStore
  <2> QED BY <1>5, <2>1, <2>2
<1>8. CASE RunPushArg
  <2>1. PICK v : /\ mem' = [mem EXCEPT ![fn.code[pc].slot] = v]
                 /\ want' = [want EXCEPT ![source[pc - 1].dst] = v]
    BY <1>8 DEF RunPushArg
  <2>2. /\ phase = "run" /\ fn.code[pc].op = "push_arg" /\ pc' \in CodeSucc(fn, pc)
        /\ UNCHANGED <<source, phase, alloc>> /\ reg' = reg
    BY <1>8 DEF RunPushArg, At, Follow
  <2>3. ASSUME NEW R, NEW M, Running(Pass, R, M, Len(fn.code))
        PROVE  Agree(R, M, pc', reg', mem', want')
    BY <2>1, <2>2, <2>3, StepPush
  <2> QED BY <1>5, <2>1, <2>2, <2>3
<1>9. CASE RunDef
  <2>1. PICK v : /\ reg' = [reg EXCEPT ![fn.code[pc].dst] = v]
                 /\ want' = [want EXCEPT ![source[pc - 1].dst] = v]
    BY <1>9 DEF RunDef
  <2>2. /\ phase = "run" /\ fn.code[pc].op \in {"op", "call", "receive"} /\ fn.code[pc].dst # None
        /\ pc' \in CodeSucc(fn, pc) /\ UNCHANGED <<source, phase, alloc>> /\ mem' = mem
    BY <1>9 DEF RunDef, At, Follow
  <2>3. ASSUME NEW R, NEW M, Running(Pass, R, M, Len(fn.code))
        PROVE  Agree(R, M, pc', reg', mem', want')
    BY <2>1, <2>2, <2>3, StepDef
  <2> QED BY <1>5, <2>1, <2>2, <2>3
<1>10. CASE RunOther
  <2>1. /\ phase = "run" /\ pc' \in CodeSucc(fn, pc)
        /\ UNCHANGED <<source, phase, alloc>> /\ reg' = reg /\ mem' = mem /\ want' = want
    BY <1>10 DEF RunOther, Follow
  <2>2. ~Writes(fn.code[pc]) /\ fn.code[pc].op \notin {"store", "push_arg"}
    BY <1>10 DEF RunOther, Writes, Branches
  <2>3. ASSUME NEW R, NEW M, Running(Pass, R, M, Len(fn.code))
        PROVE  Agree(R, M, pc', reg', mem', want')
    BY <2>1, <2>2, <2>3, StepPasses
  <2> QED BY <1>5, <2>1, <2>3
<1>11. ASSUME UNCHANGED <<source, fn, info, temps, passes, spill, cur, instr, todo, odd, mach>>,
              phase' = phase \/ (phase = "run" /\ phase' = "done")
       PROVE  Held'
  <2> SUFFICES ASSUME Usual' PROVE (Walking /\ Carried)'
    BY DEF Held
  <2>1. Walking /\ Carried
    BY <1>11 DEF Held, Usual
  <2>2. Pass' = Pass
    BY <1>11 DEF Pass
  <2>3. Todo' = Todo
    BY <1>11 DEF Todo
  <2>4. PICK R, M : Describes(Pass, fn, temps, Todo, Todo, R, M) /\ Dynamic(R, M)
    BY <2>1 DEF Carried
  <2>5. Dynamic(R, M)'
    BY <1>11, <2>4 DEF Dynamic, mach, Locations, Entry
  <2>6. Fits(Pass, fn, temps, Todo, Todo)' /\ Describes(Pass, fn, temps, Todo, Todo, R, M)'
    BY <1>11, <2>1, <2>2, <2>3, <2>4 DEF Carried
  <2>7. Carried'
    BY <2>5, <2>6 DEF Carried
  <2>8. Walking'
    BY <1>11, <2>1 DEF Walking, mach, Locations, Pos
  <2> QED BY <2>7, <2>8
<1>12. CASE RunEnd
  BY <1>11, <1>12 DEF RunEnd, alloc, mach
<1>13. CASE UNCHANGED vars
  BY <1>11, <1>13 DEF vars, alloc, mach
<1> QED BY <1>1, <1>2, <1>3, <1>4, <1>6, <1>7, <1>8, <1>9, <1>10, <1>12, <1>13 DEF Next

\* What the operands of an instruction hold follows.
LEMMA HeldUses == IInv /\ Held => UsesReadLast
<1> SUFFICES ASSUME IInv, Held, odd \subseteq {"joined"}, phase = "run", pc \in 2 .. Len(source) + 1,
                    NEW r \in Reads, want[r[2]] # Junk
             PROVE  reg[r[1]] = want[r[2]]
  BY DEF UsesReadLast, AllReadLast
<1> DEFINE e == Pass
           n == Len(fn.code)
           i == fn.code[pc]
           s == source[pc - 1]
<1>1. Walking /\ Carried
  BY DEF Held, Usual
<1>2. PICK R, M : Running(e, R, M, n)
  BY <1>1, RunsKnown
<1>3. e.src = source
  BY DEF Pass
<1> HIDE DEF e, n
<1>4. pc \in Originals(e) /\ s = Was(e, pc)
  BY <1>3 DEF Originals, Was
<1>5. pc \in 1 .. n /\ Sound(fn, n) /\ Fits(e, fn, temps, {}, {}) /\ Describes(e, fn, temps, {}, {}, R, M)
  BY <1>2 DEF Running
<1>6. BodyInstr(e.src, pc - 1)
  BY <1>4, <1>5, Kinds DEF Fits
<1>7. CASE AsReceived(e, fn, temps, pc)
  <2>1. s.op = "receive" /\ s.src = <<>>
    BY <1>4, <1>6, <1>7 DEF AsReceived, BodyInstr, Was
  <2>2. Reads = {}
    BY <2>1 DEF Reads
  <2> QED BY <2>2
<1>8. CASE AsWas(e, fn, pc)
  <2>1. i.op = s.op /\ DOMAIN i.src = DOMAIN s.src /\ (i.dst = None <=> s.dst = None)
    BY <1>4, <1>8 DEF AsWas
  <2>2. s.op # "push_arg" /\ (s.op = "reg_store" => s.dst # None)
    BY <1>4, <1>6 DEF BodyInstr, Was, SourceOps, Branches
  <2>3. /\ \A k \in DOMAIN i.src : s.src[k] \in R[pc][i.src[k]]
        /\ i.op = "reg_store" => s.dst \in R[pc][i.dst]
    BY <1>4, <1>5, <2>1, <2>2 DEF Describes, OperandsKnown, Known
  <2>4. /\ \A k \in DOMAIN i.src : i.src[k] \in Nat
        /\ i.dst \in Nat \cup {None}
    BY <1>5, SoundCode
  <2>5. \A x \in Nat : \A q \in R[pc][x] : want[q] # Junk => reg[x] = want[q]
    BY <1>2 DEF Running
  <2>6. \/ \E k \in DOMAIN s.src : r = <<i.src[k], s.src[k]>>
        \/ s.op = "reg_store" /\ r = <<i.dst, s.dst>>
    BY DEF Reads
  <2>7. \A k \in DOMAIN s.src : r = <<i.src[k], s.src[k]>> => reg[r[1]] = want[r[2]]
    BY <2>1, <2>3, <2>4, <2>5
  <2>8. s.op = "reg_store" /\ r = <<i.dst, s.dst>> => reg[r[1]] = want[r[2]]
    BY <2>1, <2>2, <2>3, <2>4, <2>5
  <2> QED BY <2>6, <2>7, <2>8
<1> QED BY <1>4, <1>5, <1>7, <1>8 DEF Fits, Shape

\* The values are known in every state, unless one of the situations came up
\* that gen_spill_code does not provide for.
LEMMA ValuesKnown == Spec => []Held
<1>1. Spec => []IInv
  BY Inductive
<1> QED BY HeldInit, HeldNext, <1>1, PTL DEF Spec

\* Whatever registers are marked, in however many passes, each instruction of
\* the source reads the values assigned last, from the registers and the places
\* of the frame that gen_spill_code gave them.
THEOREM UsesAreRight == Spec => []UsesReadLast
BY Inductive, ValuesKnown, HeldUses, PTL
=============================================================================
