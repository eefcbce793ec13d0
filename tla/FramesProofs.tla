---------------------------- MODULE FramesProofs ----------------------------
(***************************************************************************)
(* Proofs about Frames, for all programs: any declarations in any tree of  *)
(* scopes, any calls inlined, any number of registers spilled.             *)
(*                                                                         *)
(* SlotsDisjoint says nothing of why two variables are apart, and after a  *)
(* call was inlined neither the offsets nor the sizes are those that       *)
(* set_scope_offsets worked with.  The invariant says where the records of *)
(* the functions that were not inlined are (Placement): behind everything  *)
(* in the scopes inside of theirs (Roomy), in the order of the list        *)
(* (InOrder), each in one place of one scope (Apart), and, in functions    *)
(* into which nothing was inlined, in the very slots they were given       *)
(* (Untouched).  The last one is what inlining depends on: the slots of a  *)
(* function that has one scope with variables start at zero, and           *)
(* copy_locals moves them to where the caller ends.  A function that was   *)
(* inlined can be left, with its records moved: they stay in order, and no *)
(* later copy moves them again, since they are in no scope of a function   *)
(* that is still to be inlined (ClosedScopes).  TempPlaces says the same   *)
(* of the temporaries.                                                     *)
(* The frame is large enough since variables leave room for the            *)
(* temporaries by which add_temps_to_scopes makes a function's scope grow. *)
(* That a record has the space its type needs (Stored) is part of being a  *)
(* record here.                                                            *)
(***************************************************************************)
EXTENDS Frames, IndexLemmas, SequenceTheorems

----------------------------------------------------------------------------
(* Sums *)

Sums(f, ns) == f[0] = 0 /\ \A i \in 1 .. Len(ns) : f[i] = f[i - 1] + ns[i]

\* The sum of a list is what has been added up at its end.
LEMMA TotalSums ==
  ASSUME NEW ns \in Seq(Nat)
  PROVE  \E f \in [0 .. Len(ns) -> Nat] : Sums(f, ns) /\ Total(ns) = f[Len(ns)]
<1> DEFINE n == Len(ns)
           step == [p \in Nat \X (1 .. n) |-> p[1] + ns[p[2]]]
           Body(g) == [i \in 0 .. n |-> IF i = 0 THEN 0 ELSE g[i - 1] + ns[i]]
           f == CHOOSE g : g = Body(g)
<1>1. n \in Nat /\ \A i \in 1 .. n : ns[i] \in Nat
  OBVIOUS
<1>2. step \in Rounds(Nat, n)
  BY <1>1 DEF Rounds
<1>10. n = Len(ns)
  OBVIOUS
<1> HIDE DEF n
<1>3. PICK g \in [0 .. n -> Nat] : g[0] = 0 /\ \A i \in 1 .. n : g[i] = step[<<g[i - 1], i>>]
  <2> DEFINE S == Nat
             start == 0
  <2>1. start \in S /\ step \in Rounds(S, n) /\ n \in Nat
    BY <1>1, <1>2
  <2> HIDE DEF step, S, start
  <2>2. \E g \in [0 .. n -> S] : g[0] = start /\ \A i \in 1 .. n : g[i] = step[<<g[i - 1], i>>]
    BY <2>1, LoopExists, SMTT(30)
  <2> QED BY <2>2 DEF S, start
<1>4. g = Body(g)
  <2>1. ASSUME NEW i \in 0 .. n PROVE g[i] = IF i = 0 THEN 0 ELSE g[i - 1] + ns[i]
    <3>1. CASE i = 0
      BY <1>3, <3>1
    <3>2. CASE i # 0
      <4>1. i \in 1 .. n /\ g[i - 1] \in Nat
        BY <1>1, <3>2
      <4>2. step[<<g[i - 1], i>>] = g[i - 1] + ns[i]
        BY <4>1
      <4> QED BY <1>3, <3>2, <4>1, <4>2
    <3> QED BY <3>1, <3>2
  <2>2. g = [i \in 0 .. n |-> g[i]]
    OBVIOUS
  <2> QED BY <2>1, <2>2, Zenon
<1>5. f = Body(f)
  <2> HIDE DEF Body
  <2> QED BY <1>4
<1>12. {0} \cup DOMAIN ns = 0 .. n
  <2>1. DOMAIN ns = 1 .. Len(ns)
    OBVIOUS
  <2>2. {0} \cup 1 .. Len(ns) = 0 .. Len(ns)
    BY <1>1, <1>10
  <2> QED BY <1>10, <2>1, <2>2
<1>6. Total(ns) = f[n]
  BY <1>10, <1>12 DEF Total
<1> HIDE DEF f
<1>7. f[0] = 0 /\ \A i \in 1 .. n : f[i] = f[i - 1] + ns[i]
  <2>1. 0 \in 0 .. n /\ \A i \in 1 .. n : i \in 0 .. n /\ i # 0
    BY <1>1
  <2> HIDE DEF n
  <2>2. \A i \in 0 .. n : f[i] = IF i = 0 THEN 0 ELSE f[i - 1] + ns[i]
    BY <1>5
  <2> HIDE DEF Body
  <2> QED BY <2>1, <2>2
<1>8. \A i \in 0 .. n : f[i] \in Nat
  <2> DEFINE T == {i \in 0 .. n : f[i] \in Nat}
  <2>1. 0 \in T
    BY <1>1, <1>7
  <2>2. ASSUME NEW i \in 1 .. n, i - 1 \in T PROVE i \in T
    <3>1. f[i - 1] \in Nat /\ ns[i] \in Nat /\ f[i] = f[i - 1] + ns[i] /\ i \in 0 .. n
      BY <1>1, <1>7, <2>2
    <3> QED BY <3>1
  <2> HIDE DEF T
  <2>3. 0 .. n \subseteq T
    BY <1>1, <2>1, <2>2, Upward
  <2> QED BY <2>3 DEF T
<1>9. f \in [0 .. n -> Nat]
  <2> HIDE DEF n
  <2> QED BY <1>5, <1>8
<1>11. Sums(f, ns)
  BY <1>7, <1>10 DEF Sums
<1> QED BY <1>6, <1>9, <1>10, <1>11

\* Two lists that agree up to k have the same sums up to there.
LEMMA SumsAgree ==
  ASSUME NEW ns \in Seq(Nat), NEW ms \in Seq(Nat), NEW k \in Nat,
         k <= Len(ns), k <= Len(ms), \A i \in 1 .. k : ns[i] = ms[i],
         NEW f \in [0 .. Len(ns) -> Nat], Sums(f, ns),
         NEW g \in [0 .. Len(ms) -> Nat], Sums(g, ms)
  PROVE  \A i \in 0 .. k : f[i] = g[i]
<1> DEFINE T == {i \in 0 .. k : f[i] = g[i]}
<1>1. 0 \in T
  BY DEF Sums
<1>2. ASSUME NEW i \in 1 .. k, i - 1 \in T PROVE i \in T
  <2>1. i \in 1 .. Len(ns) /\ i \in 1 .. Len(ms) /\ ns[i] = ms[i]
    OBVIOUS
  <2> QED BY <1>2, <2>1 DEF Sums
<1>3. 0 .. k \subseteq T
  <2> HIDE DEF T
  <2> QED BY <1>1, <1>2, Upward
<1> QED BY <1>3

Upto(ns, k) == Total(SubSeq(ns, 1, k))

\* The sums of the first elements
LEMMA UptoSums ==
  ASSUME NEW ns \in Seq(Nat)
  PROVE  \E f \in [0 .. Len(ns) -> Nat] :
            Sums(f, ns) /\ \A k \in 0 .. Len(ns) : Upto(ns, k) = f[k]
<1> DEFINE n == Len(ns)
<1>1. PICK f \in [0 .. n -> Nat] : Sums(f, ns) /\ Total(ns) = f[n]
  BY TotalSums
<1>2. n \in Nat
  OBVIOUS
<1>3. ASSUME NEW k \in 0 .. n PROVE Upto(ns, k) = f[k]
  <2> DEFINE ms == SubSeq(ns, 1, k)
  <2>1. ms \in Seq(Nat) /\ Len(ms) = k /\ \A i \in 1 .. k : ns[i] = ms[i]
    OBVIOUS
  <2> HIDE DEF ms
  <2>2. PICK g \in [0 .. Len(ms) -> Nat] : Sums(g, ms) /\ Total(ms) = g[Len(ms)]
    BY <2>1, TotalSums
  <2>3. k \in Nat /\ k <= Len(ns) /\ k <= Len(ms) /\ k \in 0 .. k
    BY <2>1
  <2>4. f \in [0 .. Len(ns) -> Nat] /\ Sums(f, ns) /\ g \in [0 .. Len(ms) -> Nat] /\ Sums(g, ms)
    BY <1>1, <2>2
  <2>5. \A i \in 0 .. k : f[i] = g[i]
    BY <2>1, <2>3, <2>4, SumsAgree, ZenonT(30)
  <2> QED BY <2>1, <2>2, <2>3, <2>5 DEF Upto, ms
<1> QED BY <1>1, <1>3

\* The sum of the first numbers of a list is a number.
LEMMA UptoNat ==
  ASSUME NEW ns \in Seq(Nat), NEW k \in 0 .. Len(ns)
  PROVE  Upto(ns, k) \in Nat
BY UptoSums

\* No numbers add up to zero.
LEMMA UptoNone ==
  ASSUME NEW ns \in Seq(Nat)
  PROVE  Upto(ns, 0) = 0
<1>1. 0 \in 0 .. Len(ns)
  OBVIOUS
<1> QED BY <1>1, UptoSums DEF Sums

\* One more number is added to the sum of those before it.
LEMMA UptoStep ==
  ASSUME NEW ns \in Seq(Nat), NEW k \in 1 .. Len(ns)
  PROVE  Upto(ns, k) = Upto(ns, k - 1) + ns[k]
<1>1. k \in 0 .. Len(ns) /\ k - 1 \in 0 .. Len(ns)
  OBVIOUS
<1> QED BY <1>1, UptoSums DEF Sums

\* The whole list is a beginning of itself.
LEMMA UptoAll ==
  ASSUME NEW ns \in Seq(Nat)
  PROVE  Total(ns) = Upto(ns, Len(ns)) /\ Total(ns) \in Nat
<1>1. SubSeq(ns, 1, Len(ns)) = ns /\ Len(ns) \in 0 .. Len(ns)
  OBVIOUS
<1> QED BY <1>1, UptoNat DEF Upto

\* They grow.
LEMMA UptoGrows ==
  ASSUME NEW ns \in Seq(Nat), NEW k \in 0 .. Len(ns), NEW l \in k .. Len(ns)
  PROVE  Upto(ns, k) <= Upto(ns, l)
<1> DEFINE n == Len(ns)
           T == {i \in 0 .. l - k : Upto(ns, k) <= Upto(ns, k + i)}
<1>1. n \in Nat /\ k \in 0 .. n /\ l \in k .. n /\ l - k \in Nat
  OBVIOUS
<1> HIDE DEF n
<1>2. 0 \in T
  <2>1. Upto(ns, k) \in Nat /\ k + 0 = k
    BY UptoNat
  <2> QED BY <1>1, <2>1
<1>3. ASSUME NEW i \in 1 .. l - k, i - 1 \in T PROVE i \in T
  <2>1. k + i \in 1 .. Len(ns) /\ (k + i) - 1 = k + (i - 1) /\ ns[k + i] \in Nat
        /\ k + (i - 1) \in 0 .. Len(ns)
    BY <1>1 DEF n
  <2>2. Upto(ns, k + i) = Upto(ns, k + (i - 1)) + ns[k + i]
    BY <2>1, UptoStep
  <2>3. Upto(ns, k) \in Nat /\ Upto(ns, k + (i - 1)) \in Nat
    BY <2>1, UptoNat
  <2> QED BY <1>3, <2>1, <2>2, <2>3
<1>4. 0 .. l - k \subseteq T
  <2> DEFINE m == l - k
  <2>1. m \in Nat
    BY <1>1
  <2>2. \A i \in 1 .. m : i - 1 \in T => i \in T
    BY <1>3
  <2> HIDE DEF T, m
  <2>3. 0 .. m \subseteq T
    BY <1>2, <2>1, <2>2, Upward
  <2> QED BY <2>3 DEF m
<1>5. l - k \in T /\ k + (l - k) = l
  BY <1>1, <1>4
<1> QED BY <1>5

\* The sum of two lists one after the other is the sum of their sums.
LEMMA TotalConcat ==
  ASSUME NEW ns \in Seq(Nat), NEW ms \in Seq(Nat)
  PROVE  Total(ns \o ms) = Total(ns) + Total(ms)
<1> DEFINE all == ns \o ms
           n == Len(ns)
           m == Len(ms)
           T == {i \in 0 .. m : Upto(all, n + i) = Total(ns) + Upto(ms, i)}
<1>1. /\ all \in Seq(Nat) /\ Len(all) = n + m /\ n \in Nat /\ m \in Nat
      /\ \A i \in 1 .. m : all[n + i] = ms[i] /\ ms[i] \in Nat
  OBVIOUS
<1>2. Total(ns) \in Nat /\ m = Len(ms)
  BY UptoAll
<1>3. Upto(all, n) = Total(ns)
  <2>1. SubSeq(all, 1, n) = ns
    OBVIOUS
  <2> QED BY <2>1 DEF Upto
<1> HIDE DEF all, n, m
<1>4. 0 \in T
  <2>1. n + 0 = n /\ Upto(ms, 0) = 0
    BY <1>1, UptoNone
  <2> QED BY <1>1, <1>2, <1>3, <2>1
<1>5. ASSUME NEW i \in 1 .. m, i - 1 \in T PROVE i \in T
  <2>1. n + i \in 1 .. Len(all) /\ (n + i) - 1 = n + (i - 1) /\ all[n + i] = ms[i]
    BY <1>1
  <2>2. Upto(all, n + i) = Upto(all, n + (i - 1)) + ms[i]
    BY <1>1, <2>1, UptoStep
  <2>3. i \in 1 .. Len(ms) /\ i - 1 \in 0 .. Len(ms)
    BY <1>1, <1>2
  <2>4. Upto(ms, i) = Upto(ms, i - 1) + ms[i] /\ Upto(ms, i - 1) \in Nat
    BY <2>3, UptoNat, UptoStep
  <2>5. Upto(all, n + (i - 1)) = Total(ns) + Upto(ms, i - 1)
    BY <1>5
  <2>6. ms[i] \in Nat /\ i \in 0 .. m
    BY <1>1
  <2>7. Upto(all, n + i) = Total(ns) + Upto(ms, i)
    BY <1>2, <2>2, <2>4, <2>5, <2>6
  <2> QED BY <2>6, <2>7
<1>6. m \in T
  <2>1. 0 .. m \subseteq T
    <3> HIDE DEF T
    <3> QED BY <1>1, <1>4, <1>5, Upward
  <2> QED BY <1>1, <2>1
<1>7. Total(all) = Upto(all, n + m) /\ Total(ms) = Upto(ms, m)
  BY <1>1, <1>2, UptoAll
<1> QED BY <1>6, <1>7 DEF all

\* The product of a list of numbers is what was multiplied up to its end,
LEMMA ProductRun ==
  ASSUME NEW ns \in Seq(Nat)
  PROVE  \E f \in [0 .. Len(ns) -> Nat] :
            /\ f[0] = 1 /\ \A i \in 1 .. Len(ns) : f[i] = f[i - 1] * ns[i]
            /\ Product(ns) = f[Len(ns)]
<1> DEFINE n == Len(ns)
           step == [p \in Nat \X (1 .. n) |-> p[1] * ns[p[2]]]
           Body(g) == [i \in 0 .. n |-> IF i = 0 THEN 1 ELSE g[i - 1] * ns[i]]
           f == CHOOSE g : g = Body(g)
<1>1. n \in Nat /\ \A i \in 1 .. n : ns[i] \in Nat
  OBVIOUS
<1>0. \A i, j \in Nat : i * j \in Nat
  OBVIOUS
<1>2. step \in Rounds(Nat, n)
  BY <1>0, <1>1 DEF Rounds
<1>11. n = Len(ns)
  OBVIOUS
<1> HIDE DEF n
<1>3. PICK g \in [0 .. n -> Nat] : g[0] = 1 /\ \A i \in 1 .. n : g[i] = step[<<g[i - 1], i>>]
  <2> DEFINE S == Nat
             start == 1
  <2>1. start \in S /\ step \in Rounds(S, n) /\ n \in Nat
    BY <1>1, <1>2
  <2> HIDE DEF step, S, start
  <2>2. \E g \in [0 .. n -> S] : g[0] = start /\ \A i \in 1 .. n : g[i] = step[<<g[i - 1], i>>]
    BY <2>1, LoopExists, SMTT(30)
  <2> QED BY <2>2 DEF S, start
<1>4. g = Body(g)
  <2>1. ASSUME NEW i \in 0 .. n PROVE g[i] = IF i = 0 THEN 1 ELSE g[i - 1] * ns[i]
    <3>1. CASE i = 0
      BY <1>3, <3>1
    <3>2. CASE i # 0
      <4>1. i \in 1 .. n /\ g[i - 1] \in Nat
        BY <1>1, <3>2
      <4>2. step[<<g[i - 1], i>>] = g[i - 1] * ns[i]
        BY <4>1
      <4> QED BY <1>3, <3>2, <4>1, <4>2
    <3> QED BY <3>1, <3>2
  <2>2. g = [i \in 0 .. n |-> g[i]]
    OBVIOUS
  <2> QED BY <2>1, <2>2, Zenon
<1>5. f = Body(f)
  <2> HIDE DEF Body
  <2> QED BY <1>4
<1>6. Product(ns) = f[n]
  BY DEF Product, n
<1> HIDE DEF f
<1>7. f[0] = 1 /\ \A i \in 1 .. n : f[i] = f[i - 1] * ns[i]
  <2>1. 0 \in 0 .. n /\ \A i \in 1 .. n : i \in 0 .. n /\ i # 0
    BY <1>1
  <2> HIDE DEF n
  <2>2. \A i \in 0 .. n : f[i] = IF i = 0 THEN 1 ELSE f[i - 1] * ns[i]
    BY <1>5
  <2> HIDE DEF Body
  <2> QED BY <2>1, <2>2
<1> DEFINE T == {i \in 0 .. n : f[i] \in Nat}
<1>8. 0 \in T
  BY <1>1, <1>7
<1>9. ASSUME NEW i \in 1 .. n, i - 1 \in T PROVE i \in T
  <2>1. f[i - 1] \in Nat /\ ns[i] \in Nat /\ f[i] = f[i - 1] * ns[i] /\ i \in 0 .. n
    BY <1>1, <1>7, <1>9
  <2> QED BY <1>0, <2>1
<1>10. 0 .. n \subseteq T
  <2> HIDE DEF T, n
  <2> QED BY <1>1, <1>8, <1>9, Upward
<1>12. f \in [0 .. n -> Nat]
  <2>1. f = [i \in 0 .. n |-> f[i]]
    <3>1. f = [i \in 0 .. n |-> IF i = 0 THEN 1 ELSE f[i - 1] * ns[i]]
      BY <1>5, Zenon
    <3> QED BY <3>1
  <2>2. \A i \in 0 .. n : f[i] \in Nat
    BY <1>10
  <2> HIDE DEF T
  <2> QED BY <2>1, <2>2
<1> QED BY <1>1, <1>6, <1>7, <1>11, <1>12

\* and is a number.
LEMMA ProductNat ==
  ASSUME NEW ns \in Seq(Nat)
  PROVE  Product(ns) \in Nat
<1>1. Len(ns) \in Nat
  OBVIOUS
<1> QED BY <1>1, ProductRun

----------------------------------------------------------------------------
(* Sizes of types *)

\* A type whose structs are defined
WellSized(t) == IsSized(t) /\ (~IsPlain(t) => Base(t).n \in DOMAIN UTypes)

\* The signature of a type that has a size is a list of elements that ends
\* with the base.
LEMMA SignatureOf ==
  ASSUME NEW t, IsSized(t)
  PROVE  /\ t.s \in Seq(Elems) /\ Len(t.s) \in Nat \ {0} /\ DOMAIN t.s = 1 .. Len(t.s)
         /\ \A i \in DOMAIN t.s : t.s[i].n \in Nat
         /\ Base(t) = t.s[Len(t.s)]
<1>1. t.s \in Seq(Elems) /\ t.s # <<>>
  BY DEF IsSized
<1>2. Len(t.s) \in Nat \ {0} /\ DOMAIN t.s = 1 .. Len(t.s)
  BY <1>1
<1>3. \A i \in DOMAIN t.s : t.s[i] \in Elems
  BY <1>1
<1> QED BY <1>1, <1>2, <1>3 DEF Elems, Base, Last

\* A primitive other than void has a size.
LEMMA PrimitiveNat ==
  ASSUME NEW e, e.k # "void"
  PROVE  sizeof_primitive(e) \in Nat
BY SizesAssumption DEF sizeof_primitive

\* The sizes of the dimensions of an array are numbers.
LEMMA ExtentsNat ==
  ASSUME NEW t, IsSized(t), NEW z \in Nat
  PROVE  Extents(t, z) \in Seq(Nat)
<1>1. Len(t.s) \in Nat /\ DOMAIN t.s = 1 .. Len(t.s) /\ \A i \in DOMAIN t.s : t.s[i].n \in Nat
  BY SignatureOf
<1> QED BY <1>1 DEF Extents

\* The leftmost element of some kinds is one of the signature, or there is
\* none.
LEMMA LeftmostIn ==
  ASSUME NEW s, NEW n \in Nat, DOMAIN s = 1 .. n, NEW kinds
  PROVE  /\ Leftmost(s, kinds) \in 0 .. n
         /\ (\E i \in DOMAIN s : s[i].k \in kinds) =>
               Leftmost(s, kinds) \in DOMAIN s /\ s[Leftmost(s, kinds)].k \in kinds
<1> DEFINE found == {i \in DOMAIN s : s[i].k \in kinds}
<1>1. CASE found = {}
  BY <1>1 DEF Leftmost
<1>2. CASE found # {}
  <2>1. found \in SUBSET Nat
    OBVIOUS
  <2>2. PICK m \in found : \A j \in found : m <= j
    <3> HIDE DEF found
    <3> QED BY <1>2, <2>1, Least
  <2>3. Leftmost(s, kinds) = CHOOSE i \in found : \A j \in found : i <= j
    BY <1>2 DEF Leftmost
  <2>4. Leftmost(s, kinds) \in found
    <3> HIDE DEF found
    <3> QED BY <2>2, <2>3
  <2> QED BY <2>4
<1> QED BY <1>1, <1>2

\* A history has a depth.
LEMMA DepthNat ==
  ASSUME NEW t, IsSized(t)
  PROVE  get_history_depth(t) \in Nat
<1>1. Len(t.s) \in Nat /\ DOMAIN t.s = 1 .. Len(t.s) /\ \A i \in DOMAIN t.s : t.s[i].n \in Nat
  BY SignatureOf
<1>2. Leftmost(t.s, {"history"}) \in 0 .. Len(t.s)
  BY <1>1, LeftmostIn
<1> QED BY <1>1, <1>2 DEF get_history_depth

\* Products of numbers are numbers.
LEMMA Times ==
  ASSUME NEW i \in Nat, NEW j \in Nat
  PROVE  i * j \in Nat
OBVIOUS

\* A type without structs has a size.
LEMMA PlainSizeNat ==
  ASSUME NEW t, IsSized(t)
  PROVE  PlainSize(t) \in Nat
<1>1. /\ Len(t.s) \in Nat \ {0} /\ DOMAIN t.s = 1 .. Len(t.s) /\ Base(t) = t.s[Len(t.s)]
      /\ Base(t).k = "void" => t.s[1].k = "pointer" /\ ~is_array_type(t)
  BY SignatureOf DEF IsSized
<1>2. CASE is_primitive(t) /\ ~is_struct_type(t)
  <2>1. Base(t).k # "void"
    BY <1>1, <1>2 DEF is_primitive
  <2> QED BY <1>2, <2>1, PrimitiveNat DEF PlainSize
<1>3. CASE ~(is_primitive(t) /\ ~is_struct_type(t)) /\ is_array_type(t)
  <2>1. sizeof_primitive(Base(t)) \in Nat
    BY <1>1, <1>3, PrimitiveNat
  <2>2. Product(Extents(t, 1)) \in Nat
    BY ExtentsNat, ProductNat
  <2>3. sizeof_array(t) \in Nat
    BY <2>1, <2>2, Times DEF sizeof_array
  <2> QED BY <1>3, <2>3 DEF PlainSize
<1>4. CASE ~(is_primitive(t) /\ ~is_struct_type(t)) /\ ~is_array_type(t)
  BY <1>4, SizesAssumption DEF PlainSize
<1> QED BY <1>2, <1>3, <1>4

\* A history takes a number of bytes.
LEMMA HistoryBytesNat ==
  ASSUME NEW t, IsSized(t), NEW size \in Nat
  PROVE  HistoryBytes(t, size) \in Nat
<1>1. CASE ~is_history_type(t)
  BY <1>1 DEF HistoryBytes
<1>2. CASE is_history_type(t) /\ is_array_type(t)
  <2>1. sizeof_primitive(Base(t)) \in Nat
    BY <1>2, PrimitiveNat DEF IsSized
  <2>2. get_num_elements(t) \in Nat
    BY ExtentsNat, UptoAll DEF get_num_elements
  <2>3. get_history_depth(t) - 1 \in Nat
    BY <1>2, DepthNat DEF IsSized
  <2>4. HistoryBytes(t, size) =
          get_num_elements(t) * sizeof_primitive(Base(t)) * (get_history_depth(t) - 1)
    BY <1>2 DEF HistoryBytes
  <2> QED BY <2>1, <2>2, <2>3, <2>4, Times
<1>3. CASE is_history_type(t) /\ ~is_array_type(t)
  BY <1>3, DepthNat, Times DEF HistoryBytes
<1> QED BY <1>1, <1>2, <1>3

\* What a member takes, when sizes gives the sizes of the structs
MemberSize(m, sizes) ==
  LET size == IF IsPlain(m) THEN PlainSize(m) ELSE sizes[Base(m).n]
  IN  size + HistoryBytes(m, size)
Members(i, sizes) == [j \in DOMAIN UTypes[i] |-> MemberSize(UTypes[i][j], sizes)]

\* Every struct has a size: it has members of structs before it only.
LEMMA StructSizeNat == \A i \in DOMAIN UTypes : StructSize[i] \in Nat
<1> DEFINE n == Len(UTypes)
           Signatures == [decl : STRING, s : Seq(Elems)]
           Body(f) == [i \in DOMAIN UTypes |-> Total(Members(i, f))]
           step == [p \in [1 .. n -> Nat] \X (1 .. n) |-> Total(Members(p[2], p[1]))]
<1>1. n \in Nat /\ DOMAIN UTypes = 1 .. n /\ \A i \in 1 .. n : UTypes[i] \in Seq(Signatures)
  BY UTypesAssumption
<1> HIDE DEF n, Signatures
<1>2. ASSUME NEW i \in 1 .. n, NEW j \in DOMAIN UTypes[i]
      PROVE  LET m == UTypes[i][j] IN IsSized(m) /\ (~IsPlain(m) => Base(m).n \in 1 .. i - 1)
  BY <1>1, UTypesAssumption
<1>3. ASSUME NEW i \in 1 .. n, NEW f, \A k \in 1 .. i - 1 : f[k] \in Nat
      PROVE  Members(i, f) \in Seq(Nat)
  <2>1. ASSUME NEW j \in DOMAIN UTypes[i] PROVE MemberSize(UTypes[i][j], f) \in Nat
    <3> DEFINE m == UTypes[i][j]
               size == IF IsPlain(m) THEN PlainSize(m) ELSE f[Base(m).n]
    <3>1. IsSized(m) /\ (~IsPlain(m) => Base(m).n \in 1 .. i - 1)
      BY <1>2
    <3> HIDE DEF m
    <3>2. size \in Nat
      BY <1>3, <3>1, PlainSizeNat
    <3>3. HistoryBytes(m, size) \in Nat
      <4> HIDE DEF size
      <4> QED BY <3>1, <3>2, HistoryBytesNat
    <3>4. MemberSize(m, f) = size + HistoryBytes(m, size)
      BY DEF MemberSize
    <3> HIDE DEF size
    <3> QED BY <3>2, <3>3, <3>4 DEF m
  <2>2. UTypes[i] \in Seq(Signatures)
    BY <1>1
  <2>3. DOMAIN UTypes[i] = 1 .. Len(UTypes[i]) /\ Len(UTypes[i]) \in Nat
    BY <2>2
  <2> QED BY <2>1, <2>3 DEF Members
<1>4. ASSUME NEW i \in 1 .. n, NEW f, NEW g, \A k \in 1 .. i - 1 : f[k] = g[k]
      PROVE  Members(i, f) = Members(i, g)
  <2> SUFFICES ASSUME NEW j \in DOMAIN UTypes[i]
               PROVE  MemberSize(UTypes[i][j], f) = MemberSize(UTypes[i][j], g)
    BY DEF Members
  <2>1. LET m == UTypes[i][j] IN IsSized(m) /\ (~IsPlain(m) => Base(m).n \in 1 .. i - 1)
    BY <1>2
  <2> QED BY <1>4, <2>1 DEF MemberSize
<1>5. step \in Courses(Nat, n)
  <2>1. ASSUME NEW f \in [1 .. n -> Nat], NEW i \in 1 .. n PROVE Total(Members(i, f)) \in Nat
    <3>1. \A k \in 1 .. i - 1 : f[k] \in Nat
      BY <1>1
    <3> QED BY <1>3, <3>1, UptoAll
  <2> QED BY <2>1 DEF Courses
<1>6. ASSUME NEW f \in [1 .. n -> Nat], NEW g \in [1 .. n -> Nat], NEW i \in 1 .. n,
             \A k \in 1 .. i - 1 : f[k] = g[k]
      PROVE  step[<<f, i>>] = step[<<g, i>>]
  BY <1>4, <1>6
<1>7. PICK f \in [1 .. n -> Nat] : Course(f, n, step)
  <2> DEFINE S == Nat
  <2>1. S # {} /\ step \in Courses(S, n)
    BY <1>5
  <2>2. \A f, g \in [1 .. n -> S] : \A i \in 1 .. n :
          (\A k \in 1 .. i - 1 : f[k] = g[k]) => step[<<f, i>>] = step[<<g, i>>]
    BY <1>6
  <2> HIDE DEF S, step
  <2>3. \E f \in [1 .. n -> S] : Course(f, n, step)
    BY <1>1, <2>1, <2>2, CourseUp
  <2> QED BY <2>3 DEF S
<1>8. f = Body(f)
  <2>1. \A i \in 1 .. n : f[i] = Total(Members(i, f))
    BY <1>7 DEF Course
  <2>2. f = [i \in 1 .. n |-> f[i]]
    OBVIOUS
  <2> QED BY <1>1, <2>1, <2>2, Zenon
<1>9. StructSize = Body(StructSize)
  <2>1. StructSize = CHOOSE g : g = Body(g)
    BY DEF StructSize, Members, MemberSize
  <2> HIDE DEF Body
  <2> QED BY <1>8, <2>1
<1>10. \A i \in 1 .. n : StructSize[i] = Total(Members(i, StructSize))
  BY <1>1, <1>9
<1> DEFINE T == {i \in 0 .. n : \A k \in 1 .. i : StructSize[k] \in Nat}
<1>11. 0 \in T
  BY <1>1
<1>12. ASSUME NEW i \in 1 .. n, i - 1 \in T PROVE i \in T
  <2>1. \A k \in 1 .. i - 1 : StructSize[k] \in Nat
    BY <1>12
  <2>2. StructSize[i] \in Nat
    BY <1>3, <1>10, <2>1, UptoAll
  <2>3. \A k \in 1 .. i : k \in 1 .. i - 1 \/ k = i
    OBVIOUS
  <2> QED BY <2>1, <2>2, <2>3
<1>13. n \in T
  <2> HIDE DEF T
  <2>1. 0 .. n \subseteq T
    BY <1>1, <1>11, <1>12, Upward
  <2>2. n \in 0 .. n
    BY <1>1
  <2> QED BY <2>1, <2>2
<1> QED BY <1>1, <1>13

\* Every type of a declaration has a size.
LEMMA EntryNat ==
  ASSUME NEW t, WellSized(t)
  PROVE  sizeof_type(t) \in Nat /\ sizeof_history(t) \in Nat /\ entry_size(t) \in Nat
<1>1. IsSized(t) /\ (~IsPlain(t) => Base(t).n \in DOMAIN UTypes)
  BY DEF WellSized
<1>2. sizeof_type(t) \in Nat
  BY <1>1, PlainSizeNat, StructSizeNat DEF sizeof_type, sizeof_utype
<1>3. sizeof_history(t) \in Nat
  BY <1>1, <1>2, HistoryBytesNat DEF sizeof_history
<1> QED BY <1>2, <1>3 DEF entry_size

----------------------------------------------------------------------------
(* The space of a type *)

\* Where all numbers but one are zero, they add up to that one,
LEMMA OneOfTotal ==
  ASSUME NEW ns \in Seq(Nat), NEW k \in 1 .. Len(ns),
         \A i \in 1 .. Len(ns) : i # k => ns[i] = 0
  PROVE  Total(ns) = ns[k]
<1>1. PICK f \in [0 .. Len(ns) -> Nat] : Sums(f, ns) /\ Total(ns) = f[Len(ns)]
  BY TotalSums
<1> DEFINE n == Len(ns)
           T == {i \in 0 .. n : f[i] = IF k <= i THEN ns[k] ELSE 0}
<1>2. n \in Nat /\ k \in 1 .. n /\ \A i \in 1 .. n : ns[i] \in Nat
  OBVIOUS
<1>3. f[0] = 0 /\ \A i \in 1 .. n : f[i] = f[i - 1] + ns[i]
  BY <1>1 DEF Sums
<1>4. \A i \in 1 .. n : i # k => ns[i] = 0
  OBVIOUS
<1> HIDE DEF n
<1>5. 0 \in T
  BY <1>2, <1>3
<1>6. ASSUME NEW i \in 1 .. n, i - 1 \in T PROVE i \in T
  <2>1. f[i] = f[i - 1] + ns[i] /\ i \in 0 .. n
    BY <1>2, <1>3
  <2>2. f[i - 1] = IF k <= i - 1 THEN ns[k] ELSE 0
    BY <1>6
  <2>3. CASE i = k
    BY <1>2, <2>1, <2>2, <2>3
  <2>4. CASE i # k
    <3>1. ns[i] = 0 /\ (k <= i - 1 <=> k <= i) /\ ns[k] \in Nat
      BY <1>2, <1>4, <2>4
    <3> QED BY <2>1, <2>2, <3>1
  <2> QED BY <2>3, <2>4
<1>7. 0 .. n \subseteq T
  <2> HIDE DEF T
  <2> QED BY <1>2, <1>5, <1>6, Upward
<1>8. n \in T
  BY <1>2, <1>7
<1> QED BY <1>1, <1>2, <1>8 DEF n

\* and where all but one are one, that one is their product.
LEMMA OneOfProduct ==
  ASSUME NEW ns \in Seq(Nat), NEW k \in 1 .. Len(ns),
         \A i \in 1 .. Len(ns) : i # k => ns[i] = 1
  PROVE  Product(ns) = ns[k]
<1>1. PICK f \in [0 .. Len(ns) -> Nat] :
          /\ f[0] = 1 /\ \A i \in 1 .. Len(ns) : f[i] = f[i - 1] * ns[i]
          /\ Product(ns) = f[Len(ns)]
  BY ProductRun
<1> DEFINE n == Len(ns)
           T == {i \in 0 .. n : f[i] = IF k <= i THEN ns[k] ELSE 1}
<1>2. n \in Nat /\ k \in 1 .. n /\ \A i \in 1 .. n : ns[i] \in Nat
  OBVIOUS
<1>3. f[0] = 1 /\ \A i \in 1 .. n : f[i] = f[i - 1] * ns[i]
  BY <1>1
<1>4. \A i \in 1 .. n : i # k => ns[i] = 1
  OBVIOUS
<1> HIDE DEF n
<1>5. 0 \in T
  BY <1>2, <1>3
<1>6. ASSUME NEW i \in 1 .. n, i - 1 \in T PROVE i \in T
  <2>1. f[i] = f[i - 1] * ns[i] /\ i \in 0 .. n
    BY <1>2, <1>3
  <2>2. f[i - 1] = IF k <= i - 1 THEN ns[k] ELSE 1
    BY <1>6
  <2>3. CASE i = k
    <3>1. f[i - 1] = 1 /\ ns[k] \in Nat
      BY <1>2, <2>2, <2>3
    <3> QED BY <2>1, <2>3, <3>1
  <2>4. CASE i # k
    <3>1. ns[i] = 1 /\ (k <= i - 1 <=> k <= i) /\ ns[k] \in Nat
      BY <1>2, <1>4, <2>4
    <3> QED BY <2>1, <2>2, <3>1
  <2> QED BY <2>3, <2>4
<1>7. 0 .. n \subseteq T
  <2> HIDE DEF T
  <2> QED BY <1>2, <1>5, <1>6, Upward
<1>8. n \in T
  BY <1>2, <1>7
<1> QED BY <1>1, <1>2, <1>8 DEF n

\* A type without dimensions has one element,
LEMMA OneElement ==
  ASSUME NEW t, IsSized(t), ~is_array_type(t)
  PROVE  Product(Extents(t, 1)) = 1
<1> DEFINE ns == Extents(t, 1)
<1>1. DOMAIN t.s = 1 .. Len(t.s) /\ Len(t.s) \in Nat \ {0}
  BY SignatureOf
<1>2. ns \in Seq(Nat)
  BY ExtentsNat
<1>3. Len(ns) = Len(t.s) /\ \A i \in 1 .. Len(t.s) : ns[i] = 1
  BY <1>1 DEF Extents, is_array_type, Has
<1>4. 1 \in 1 .. Len(ns)
  BY <1>1, <1>3
<1> HIDE DEF ns
<1>5. Product(ns) = ns[1]
  BY <1>2, <1>3, <1>4, OneOfProduct
<1> QED BY <1>3, <1>4, <1>5 DEF ns

\* and one of a single dimension has as many as that dimension says.
LEMMA OneDimension ==
  ASSUME NEW t, IsSized(t), is_array_type(t), ~(get_num_dimensions(t) > 1)
  PROVE  LET n == t.s[Leftmost(t.s, {"array"})].n
         IN  n \in Nat /\ Product(Extents(t, 1)) = n /\ get_num_elements(t) = n
<1> DEFINE k == Leftmost(t.s, {"array"})
           all == {i \in DOMAIN t.s : t.s[i].k = "array"}
           ns == Extents(t, 1)
           ms == Extents(t, 0)
<1>1. /\ DOMAIN t.s = 1 .. Len(t.s) /\ Len(t.s) \in Nat \ {0}
      /\ \A i \in DOMAIN t.s : t.s[i].n \in Nat
  BY SignatureOf
<1>2. k \in DOMAIN t.s /\ t.s[k].k = "array"
  BY <1>1, LeftmostIn DEF is_array_type, Has
<1>3. k \in all
  BY <1>2
<1>4. all = {k}
  <2>1. IsFiniteSet(all)
    <3>1. IsFiniteSet(1 .. Len(t.s))
      BY <1>1, FS_Interval
    <3> QED BY <1>1, <3>1, FS_Subset
  <2>2. Cardinality(all) \in Nat /\ ~(Cardinality(all) > 1)
    BY <2>1, FS_CardinalityType DEF get_num_dimensions
  <2> HIDE DEF all, k
  <2>3. IsFiniteSet({k}) /\ Cardinality({k}) = 1
    BY FS_Singleton
  <2>4. Cardinality({k}) = Cardinality(all)
    <3>1. Cardinality({k}) <= Cardinality(all)
      BY <1>3, <2>1, FS_Subset
    <3> QED BY <2>2, <2>3, <3>1
  <2> QED BY <1>3, <2>1, <2>4, FS_Subset
<1>5. ns \in Seq(Nat) /\ ms \in Seq(Nat)
  BY ExtentsNat
<1>6. /\ Len(ns) = Len(t.s) /\ Len(ms) = Len(t.s)
      /\ \A i \in 1 .. Len(t.s) : i # k => ns[i] = 1 /\ ms[i] = 0
      /\ ns[k] = t.s[k].n /\ ms[k] = t.s[k].n
  BY <1>1, <1>2, <1>4 DEF Extents
<1>7. k \in 1 .. Len(ns) /\ k \in 1 .. Len(ms)
  BY <1>1, <1>2, <1>6
<1>8. t.s[k].n \in Nat
  BY <1>1, <1>2
<1> HIDE DEF ns, ms, k
<1>9. Product(ns) = ns[k] /\ Total(ms) = ms[k]
  BY <1>5, <1>6, <1>7, OneOfProduct, OneOfTotal
<1> QED BY <1>6, <1>8, <1>9 DEF ns, ms, k, get_num_elements

\* A declared type has pointers on the outside, and no addresses.
LEMMA DeclaredShape ==
  ASSUME NEW t \in Types \cup ArgTypes
  PROVE  /\ IsSized(t) /\ (Base(t).k = "utype" => Base(t).n \in DOMAIN UTypes)
         /\ t.decl # "function" /\ (t.decl = "user" => is_struct_type(t))
         /\ t \in Types /\ is_struct_type(t) => t.decl = "user"
         /\ t.s[1].k # "address"
         /\ is_address_type(t) <=> Has(t, {"pointer"})
         /\ Has(t, {"pointer"}) <=> t.s[1].k = "pointer"
<1>1. /\ IsSized(t) /\ (Base(t).k = "utype" => Base(t).n \in DOMAIN UTypes)
      /\ \A i \in 1 .. Len(t.s) - 1 :
            /\ t.s[i].k \in {"pointer", "array", "history"}
            /\ t.s[i + 1].k = "pointer" => t.s[i].k = "pointer"
      /\ t \in Types => t.decl = IF is_struct_type(t) THEN "user" ELSE "variable"
      /\ t \in ArgTypes => t.decl = "argument"
  BY TypesAssumption
<1>2. /\ DOMAIN t.s = 1 .. Len(t.s) /\ Len(t.s) \in Nat \ {0} /\ Base(t) = t.s[Len(t.s)]
      /\ Base(t).k \in BaseKinds /\ t.s # <<>>
  BY <1>1, SignatureOf DEF IsSized
<1>3. \A i \in DOMAIN t.s : t.s[i].k # "address"
  BY <1>1, <1>2 DEF BaseKinds
<1>4. Has(t, {"pointer"}) => t.s[1].k = "pointer"
  <2> SUFFICES ASSUME Has(t, {"pointer"}) PROVE t.s[1].k = "pointer"
    OBVIOUS
  <2> DEFINE P == {i \in 1 .. Len(t.s) : t.s[i].k = "pointer"}
  <2>1. P # {} /\ P \in SUBSET Nat
    BY <1>2 DEF Has
  <2> HIDE DEF P
  <2>2. PICK m \in P : \A j \in P : m <= j
    BY <2>1, Least
  <2>3. m \in 1 .. Len(t.s) /\ t.s[m].k = "pointer"
    BY DEF P
  <2>4. ASSUME m # 1 PROVE FALSE
    <3>1. m - 1 \in 1 .. Len(t.s) - 1 /\ m - 1 \in 1 .. Len(t.s) /\ (m - 1) + 1 = m
      BY <1>2, <2>3, <2>4
    <3>2. t.s[m - 1].k = "pointer"
      BY <1>1, <2>3, <3>1
    <3>3. m - 1 \in P
      BY <3>1, <3>2 DEF P
    <3> QED BY <2>2, <2>3, <3>3
  <2> QED BY <2>3, <2>4
<1>5. t.s[1].k = "pointer" => Has(t, {"pointer"})
  BY <1>2 DEF Has
<1>6. is_address_type(t) <=> Has(t, {"pointer"})
  BY <1>3 DEF is_address_type, Has
<1>7. t.s[1].k # "address"
  BY <1>2, <1>3
<1> QED BY <1>1, <1>4, <1>5, <1>6, <1>7

\* A record has the space that is made use of, if its size is taken from its
\* own type.
Stored(r) ==
  LET t == r.type
  IN  ~MeasuredByBase(t) /\ ~IndexWisePointers(t) /\ ~BaseCopy(t) => entry_size(t) >= r.need

\* One more than so many times a number
LEMMA Multiples ==
  ASSUME NEW a \in Nat, NEW b \in Nat, NEW d \in Nat, b <= a
  PROVE  /\ b * (d + 1) <= a + d * a
         /\ d # 0 => b + b * (d - 1) = b * d
<1>1. b * (d + 1) = b * d + b /\ d * a = a * d
  OBVIOUS
<1>2. b * d <= a * d
  <2>1. PICK c \in Nat : a = b + c
    <3>1. a - b \in Nat /\ a = b + (a - b)
      OBVIOUS
    <3> QED BY <3>1
  <2>2. a * d = b * d + c * d /\ c * d \in Nat /\ b * d \in Nat
    BY <2>1
  <2> QED BY <2>2
<1>3. b * d \in Nat /\ a * d \in Nat
  OBVIOUS
<1>4. b * (d - 1) = b * d - b
  OBVIOUS
<1> QED BY <1>1, <1>2, <1>3, <1>4

\* An array of primitives is as large as all its elements,
LEMMA ArrayStored ==
  ASSUME NEW t \in Types \cup ArgTypes, is_array_type(t), ~MeasuredByBase(t)
  PROVE  entry_size(t) = Needed(t)
<1>1. IsSized(t) /\ t.decl # "function" /\ (t.decl = "user" => is_struct_type(t))
  BY DeclaredShape
<1>2. /\ DOMAIN t.s = 1 .. Len(t.s) /\ Len(t.s) \in Nat \ {0} /\ Base(t) = t.s[Len(t.s)]
      /\ t.s # <<>>
  BY <1>1, SignatureOf DEF IsSized
<1>3. ~Has(t, {"pointer"}) /\ Base(t).k # "utype"
  BY <1>2 DEF MeasuredByBase, Has
<1>4. ~is_struct_type(t) /\ ~is_address_type(t) /\ t.s[1].k # "address"
  BY <1>3, DeclaredShape DEF is_struct_type
<1> DEFINE z == sizeof_primitive(Base(t))
           p == Product(Extents(t, 1))
           d == get_history_depth(t)
<1>5. z \in Nat /\ p \in Nat /\ d \in Nat
  BY <1>1, PrimitiveNat, ExtentsNat, ProductNat, DepthNat DEF IsSized
<1>6. ~is_primitive(t)
  <2>1. Base(t).k # "array"
    BY <1>1 DEF IsSized, BaseKinds
  <2> QED BY <1>2, <1>4, <2>1 DEF is_primitive, is_array_type, Has
<1>7. sizeof_type(t) = z * p
  BY <1>4, <1>6 DEF sizeof_type, IsPlain, PlainSize, sizeof_array
<1>8. Values(t) = z * p
  BY <1>4 DEF Values, OneValue
<1>9. CASE ~is_history_type(t)
  <2>1. sizeof_history(t) = 0 /\ Needed(t) = z * p
    BY <1>8, <1>9 DEF sizeof_history, HistoryBytes, Needed
  <2>2. z * p \in Nat
    BY <1>5, Times
  <2> QED BY <1>7, <2>1, <2>2 DEF entry_size
<1>10. CASE is_history_type(t)
  <2>1. d # 0
    BY <1>1, <1>10, <1>5 DEF IsSized
  <2>2. get_num_elements(t) = p
    BY <1>1, <1>10, OneDimension DEF MeasuredByBase
  <2>3. sizeof_history(t) = p * z * (d - 1)
    BY <1>10, <2>2 DEF sizeof_history, HistoryBytes
  <2>4. Needed(t) = (z * p) * d
    BY <1>8, <1>10 DEF Needed
  <2>5. entry_size(t) = z * p + p * z * (d - 1)
    BY <1>7, <2>3 DEF entry_size
  <2> HIDE DEF z, p, d
  <2>6. p * z = z * p /\ z * p \in Nat
    BY <1>5
  <2>7. entry_size(t) = z * p + (z * p) * (d - 1)
    BY <2>5, <2>6
  <2>8. z * p + (z * p) * (d - 1) = (z * p) * d
    <3> DEFINE b == z * p
    <3>1. b \in Nat /\ b <= b
      BY <2>6
    <3> HIDE DEF b
    <3>2. b + b * (d - 1) = b * d
      BY <1>5, <2>1, <3>1, Multiples
    <3> QED BY <3>2 DEF b
  <2> QED BY <2>4, <2>7, <2>8
<1> QED BY <1>9, <1>10

\* any other type as one value at least,
LEMMA ValueStored ==
  ASSUME NEW t \in Types \cup ArgTypes, ~is_array_type(t)
  PROVE  OneValue(t) \in Nat /\ sizeof_type(t) \in Nat /\ OneValue(t) <= sizeof_type(t)
<1>1. /\ IsSized(t) /\ t.decl # "function" /\ (t.decl = "user" => is_struct_type(t))
      /\ t.s[1].k # "address" /\ (Base(t).k = "utype" => Base(t).n \in DOMAIN UTypes)
      /\ is_address_type(t) <=> t.s[1].k = "pointer"
  BY DeclaredShape
<1>2. /\ DOMAIN t.s = 1 .. Len(t.s) /\ Len(t.s) \in Nat \ {0} /\ Base(t) = t.s[Len(t.s)]
      /\ Base(t).k \in BaseKinds /\ t.s # <<>>
  BY <1>1, SignatureOf DEF IsSized
<1>3. is_struct_type(t) <=> Base(t).k = "utype"
  BY <1>2 DEF is_struct_type
<1>4. CASE t.s[1].k = "pointer"
  <2>1. ~is_primitive(t)
    BY <1>1, <1>2, <1>4 DEF is_primitive, BaseKinds
  <2>2. sizeof_type(t) = IC_SIZEOF_POINTER
    BY <1>1, <1>4, <2>1 DEF sizeof_type, IsPlain, PlainSize
  <2>3. OneValue(t) = IC_SIZEOF_POINTER
    BY <1>1, <1>4 DEF OneValue
  <2> QED BY <2>2, <2>3, SizesAssumption
<1>5. CASE t.s[1].k # "pointer" /\ is_struct_type(t)
  <2>1. sizeof_type(t) = StructSize[Base(t).n]
    BY <1>5 DEF sizeof_type, IsPlain, sizeof_utype
  <2>2. OneValue(t) = StructSize[Base(t).n]
    BY <1>1, <1>5 DEF OneValue
  <2>3. StructSize[Base(t).n] \in Nat
    BY <1>1, <1>3, <1>5, StructSizeNat
  <2> QED BY <2>1, <2>2, <2>3
<1>6. CASE t.s[1].k # "pointer" /\ ~is_struct_type(t)
  <2>1. OneValue(t) = sizeof_primitive(Base(t))
    BY <1>1, <1>6 DEF OneValue
  <2>2. Base(t).k # "void"
    BY <1>1, <1>6 DEF IsSized
  <2>3. sizeof_type(t) \in {sizeof_primitive(Base(t)), IC_SIZEOF_INT}
    BY <1>1, <1>6 DEF sizeof_type, IsPlain, PlainSize
  <2>4. sizeof_primitive(Base(t)) \in Nat /\ sizeof_primitive(Base(t)) <= IC_SIZEOF_INT
    BY <2>2, SizesAssumption DEF sizeof_primitive
  <2> QED BY <2>1, <2>3, <2>4, SizesAssumption
<1> QED BY <1>4, <1>5, <1>6

\* and so a declared variable has the space of its values and histories.
LEMMA VariableStored ==
  ASSUME NEW t \in Types \cup ArgTypes
  PROVE  Stored(Variable(t))
<1> SUFFICES ASSUME ~MeasuredByBase(t) PROVE entry_size(t) >= Needed(t)
  BY DEF Stored, Variable, Record
<1>1. IsSized(t) /\ get_history_depth(t) \in Nat
  BY DeclaredShape, DepthNat
<1>2. CASE is_array_type(t)
  <2>1. entry_size(t) = Needed(t) /\ entry_size(t) \in Nat
    BY <1>2, ArrayStored, DeclaredShape, EntryNat DEF WellSized, IsPlain
  <2> QED BY <2>1
<1>3. CASE ~is_array_type(t)
  <2> DEFINE v == OneValue(t)
             size == sizeof_type(t)
             d == get_history_depth(t)
  <2>1. v \in Nat /\ size \in Nat /\ v <= size
    BY <1>3, ValueStored
  <2>2. Values(t) = v
    BY <1>1, <1>3, <2>1, OneElement DEF Values
  <2>3. CASE ~is_history_type(t)
    <3>1. entry_size(t) = size + 0 /\ Needed(t) = v
      BY <2>2, <2>3 DEF entry_size, sizeof_history, HistoryBytes, Needed
    <3> QED BY <2>1, <3>1
  <2>4. CASE is_history_type(t)
    <3>1. entry_size(t) = size + d * size /\ Needed(t) = v * (d + 1)
      BY <1>3, <2>2, <2>4 DEF entry_size, sizeof_history, HistoryBytes, Needed
    <3> HIDE DEF v, size, d
    <3>2. v * (d + 1) <= size + d * size
      BY <1>1, <2>1, Multiples DEF d
    <3>3. d \in Nat
      BY <1>1 DEF d
    <3>4. v * (d + 1) \in Nat /\ size + d * size \in Nat
      BY <2>1, <3>3
    <3> QED BY <3>1, <3>2, <3>4
  <2> QED BY <2>3, <2>4
<1> QED BY <1>2, <1>3

----------------------------------------------------------------------------
(* Declarations *)

IsRecord(r) ==
  /\ r = [type |-> r.type, offset |-> r.offset, need |-> r.need]
  /\ WellSized(r.type) /\ Stored(r) /\ r.offset \in Nat

IsList(q) == (\E S : q \in Seq(S)) /\ \A i \in DOMAIN q : IsRecord(q[i])
Sizes(q) == [i \in DOMAIN q |-> entry_size(q[i].type)]

\* A list has the records of its parts and their sizes.
LEMMA ListOf ==
  ASSUME NEW q, IsList(q)
  PROVE  /\ Len(q) \in Nat /\ DOMAIN q = 1 .. Len(q)
         /\ Sizes(q) \in Seq(Nat) /\ Len(Sizes(q)) = Len(q)
<1>1. PICK S : q \in Seq(S)
  BY DEF IsList
<1>2. Len(q) \in Nat /\ DOMAIN q = 1 .. Len(q)
  BY <1>1
<1>3. \A i \in DOMAIN q : entry_size(q[i].type) \in Nat
  BY EntryNat DEF IsList, IsRecord
<1> QED BY <1>2, <1>3 DEF Sizes

\* Two lists of records, one behind the other, are a list of records.
LEMMA JoinedLists ==
  ASSUME NEW p, NEW q, IsList(p), IsList(q)
  PROVE  /\ IsList(p \o q) /\ Len(p \o q) = Len(p) + Len(q)
         /\ \A i \in 1 .. Len(p) : (p \o q)[i] = p[i]
         /\ \A i \in 1 .. Len(q) : (p \o q)[Len(p) + i] = q[i]
         /\ Sizes(p \o q) = Sizes(p) \o Sizes(q)
<1> DEFINE n == Len(p)
           m == Len(q)
           all == p \o q
<1>1. PICK S : p \in Seq(S)
  BY DEF IsList
<1>2. PICK R : q \in Seq(R)
  BY DEF IsList
<1>3. p \in Seq(S \cup R) /\ q \in Seq(S \cup R)
  BY <1>1, <1>2
<1>4. /\ all \in Seq(S \cup R) /\ Len(all) = n + m /\ n \in Nat /\ m \in Nat
      /\ DOMAIN all = 1 .. n + m /\ DOMAIN p = 1 .. n /\ DOMAIN q = 1 .. m
      /\ \A i \in 1 .. n : all[i] = p[i]
      /\ \A i \in 1 .. m : all[n + i] = q[i]
  BY <1>3
<1>5. Sizes(p) \in Seq(Nat) /\ Len(Sizes(p)) = n /\ Sizes(q) \in Seq(Nat) /\ Len(Sizes(q)) = m
  BY ListOf
<1> HIDE DEF all, n, m
<1>6. ASSUME NEW i \in 1 .. n + m
      PROVE  IF i <= n THEN i \in 1 .. n /\ all[i] = p[i]
             ELSE i - n \in 1 .. m /\ all[i] = q[i - n]
  <2>1. CASE i <= n
    BY <1>4, <2>1
  <2>2. CASE ~(i <= n)
    <3>1. i - n \in 1 .. m /\ n + (i - n) = i
      BY <1>4, <2>2
    <3> QED BY <1>4, <2>2, <3>1
  <2> QED BY <2>1, <2>2
<1>7. IsList(all)
  <2>1. ASSUME NEW i \in DOMAIN all PROVE IsRecord(all[i])
    <3>1. \A j \in 1 .. n : IsRecord(p[j])
      BY <1>4 DEF IsList
    <3>2. \A j \in 1 .. m : IsRecord(q[j])
      BY <1>4 DEF IsList
    <3> QED BY <1>4, <1>6, <3>1, <3>2
  <2> QED BY <1>4, <2>1 DEF IsList
<1>8. Sizes(all) = Sizes(p) \o Sizes(q)
  <2> DEFINE both == Sizes(p) \o Sizes(q)
  <2>1. both \in Seq(Nat) /\ Len(both) = n + m
        /\ \A i \in 1 .. n + m : both[i] = IF i <= n THEN Sizes(p)[i] ELSE Sizes(q)[i - n]
    BY <1>4, <1>5
  <2>2. \A i \in 1 .. n : Sizes(p)[i] = entry_size(p[i].type)
    BY <1>4 DEF Sizes
  <2>3. \A i \in 1 .. m : Sizes(q)[i] = entry_size(q[i].type)
    BY <1>4 DEF Sizes
  <2>4. Sizes(all) = [i \in 1 .. n + m |-> entry_size(all[i].type)]
    BY <1>4 DEF Sizes
  <2>5. both = [i \in 1 .. n + m |-> both[i]]
    <3> HIDE DEF both
    <3>1. DOMAIN both = 1 .. n + m
      BY <1>4, <2>1
    <3>2. both = [i \in DOMAIN both |-> both[i]]
      BY <2>1
    <3> QED BY <3>1, <3>2
  <2> HIDE DEF both
  <2>6. \A i \in 1 .. n + m : both[i] = entry_size(all[i].type)
    BY <1>6, <2>1, <2>2, <2>3
  <2>7. both = [i \in 1 .. n + m |-> entry_size(all[i].type)]
    BY <2>5, <2>6
  <2> QED BY <2>4, <2>7 DEF both
<1> QED BY <1>4, <1>7, <1>8 DEF all, n, m

\* One record is a list of records.
LEMMA ListOfOne ==
  ASSUME NEW r, IsRecord(r)
  PROVE  IsList(<<r>>) /\ Len(<<r>>) = 1
<1>1. <<r>> \in Seq({r})
  OBVIOUS
<1>2. \A i \in DOMAIN <<r>> : <<r>>[i] = r
  OBVIOUS
<1> QED BY <1>1, <1>2 DEF IsList

\* Two records are a list of records.
LEMMA ListOfTwo ==
  ASSUME NEW r, NEW q, IsRecord(r), IsRecord(q)
  PROVE  IsList(<<r, q>>)
<1>1. <<r, q>> \in Seq({r, q})
  OBVIOUS
<1>2. \A i \in DOMAIN <<r, q>> : <<r, q>>[i] = r \/ <<r, q>>[i] = q
  OBVIOUS
<1> QED BY <1>1, <1>2 DEF IsList

\* Four records, or three, are a list of records.
LEMMA ListOfFour ==
  ASSUME NEW a, NEW b, NEW c, NEW d, IsRecord(a), IsRecord(b), IsRecord(c), IsRecord(d)
  PROVE  IsList(<<a, b, c, d>>) /\ IsList(<<a, b, c>>)
<1>1. <<a, b, c, d>> \in Seq({a, b, c, d}) /\ <<a, b, c>> \in Seq({a, b, c})
  OBVIOUS
<1>2. \A i \in DOMAIN <<a, b, c, d>> : <<a, b, c, d>>[i] \in {a, b, c, d}
  OBVIOUS
<1>3. \A i \in DOMAIN <<a, b, c>> : <<a, b, c>>[i] \in {a, b, c}
  OBVIOUS
<1> QED BY <1>1, <1>2, <1>3 DEF IsList

\* A record of a type that has a size is one.
LEMMA NewRecord ==
  ASSUME NEW t, NEW need, WellSized(t), Stored(Record(t, need))
  PROVE  IsRecord(Record(t, need))
BY DEF IsRecord, Record

\* It stays one wherever it is put.
LEMMA MovedRecord ==
  ASSUME NEW r, IsRecord(r), NEW o \in Nat
  PROVE  IsRecord([type |-> r.type, offset |-> o, need |-> r.need])
<1> DEFINE q == [type |-> r.type, offset |-> o, need |-> r.need]
<1>1. q.type = r.type /\ q.need = r.need /\ q.offset = o
  OBVIOUS
<1>2. WellSized(r.type) /\ Stored(r)
  BY DEF IsRecord
<1>3. q = [type |-> q.type, offset |-> q.offset, need |-> q.need]
  OBVIOUS
<1> HIDE DEF q
<1>4. Stored(q)
  BY <1>1, <1>2 DEF Stored
<1> QED BY <1>1, <1>2, <1>3, <1>4 DEF IsRecord, q

\* The types of declarations have sizes.
LEMMA DeclaredType ==
  ASSUME NEW t \in Types \cup ArgTypes
  PROVE  WellSized(t)
BY TypesAssumption DEF WellSized, IsPlain, is_struct_type, IsSized

\* The base of a variable with histories
IsBase(e) ==
  /\ e \in Elems /\ e.k \in BaseKinds \ {"void"}
  /\ e.k = "utype" => e.n \in DOMAIN UTypes

\* A base alone has a size.
LEMMA SizedOne ==
  ASSUME NEW d, NEW e, IsBase(e)
  PROVE  WellSized(Sig(d, <<e>>))
<1> DEFINE t == Sig(d, <<e>>)
<1>1. t.s = <<e>> /\ t.s \in Seq(Elems) /\ t.s # <<>> /\ Len(t.s) = 1 /\ DOMAIN t.s = {1}
      /\ t.s[1] = e
  BY DEF Sig, IsBase
<1> HIDE DEF t
<1>2. Base(t) = e
  BY <1>1 DEF Base, Last
<1>3. ~is_history_type(t)
  BY <1>1 DEF is_history_type, Has, IsBase, BaseKinds
<1>4. IsSized(t)
  BY <1>1, <1>2, <1>3 DEF IsSized, IsBase
<1>5. IsPlain(t) \/ e.k = "utype"
  BY <1>2 DEF IsPlain, is_struct_type
<1> QED BY <1>2, <1>4, <1>5 DEF WellSized, IsBase, t

\* An array of a base and a pointer to it have sizes.
LEMMA SizedTwo ==
  ASSUME NEW d, NEW e, IsBase(e), NEW f \in Elems, f.k \in {"array", "pointer"}
  PROVE  WellSized(Sig(d, <<f, e>>))
<1> DEFINE t == Sig(d, <<f, e>>)
<1>1. t.s \in Seq(Elems) /\ t.s # <<>> /\ Len(t.s) = 2 /\ DOMAIN t.s = {1, 2}
      /\ t.s[1] = f /\ t.s[2] = e
  BY DEF Sig, IsBase
<1> HIDE DEF t
<1>2. Base(t) = e
  BY <1>1 DEF Base, Last
<1>3. ~is_history_type(t)
  BY <1>1 DEF is_history_type, Has, IsBase, BaseKinds
<1>4. IsSized(t)
  BY <1>1, <1>2, <1>3 DEF IsSized, IsBase
<1>5. IsPlain(t)
  BY <1>1 DEF IsPlain, is_array_type, Has
<1> QED BY <1>4, <1>5 DEF WellSized, t

\* A pointer to a pointer has a size.
LEMMA SizedThree ==
  ASSUME NEW d, NEW e, IsBase(e)
  PROVE  WellSized(Sig(d, <<Pointer, Pointer, e>>))
<1> DEFINE t == Sig(d, <<Pointer, Pointer, e>>)
<1>1. Pointer \in Elems /\ Pointer.k = "pointer"
  BY DEF Pointer, Elem, Elems
<1>2. t.s \in Seq(Elems) /\ t.s # <<>> /\ Len(t.s) = 3 /\ DOMAIN t.s = {1, 2, 3}
      /\ t.s[1] = Pointer /\ t.s[2] = Pointer /\ t.s[3] = e
  BY <1>1 DEF Sig, IsBase
<1> HIDE DEF t
<1>3. Base(t) = e
  BY <1>2 DEF Base, Last
<1>4. ~is_history_type(t)
  BY <1>1, <1>2 DEF is_history_type, Has, IsBase, BaseKinds
<1>5. IsSized(t)
  BY <1>2, <1>3, <1>4 DEF IsSized, IsBase
<1>6. IsPlain(t)
  BY <1>1, <1>2 DEF IsPlain
<1> QED BY <1>5, <1>6 DEF WellSized, t

\* Lists of one and of two elements, put together.
LEMMA OneBehind ==
  ASSUME NEW S, NEW p \in S, NEW e \in S
  PROVE  <<p>> \o <<e>> = <<p, e>> /\ <<p, p>> \o <<e>> = <<p, p, e>>
<1> DEFINE one == <<p>> \o <<e>>
           two == <<p, p>> \o <<e>>
<1>1. one \in Seq(S) /\ Len(one) = 2 /\ one[1] = p /\ one[2] = e
  OBVIOUS
<1>2. two \in Seq(S) /\ Len(two) = 3 /\ two[1] = p /\ two[2] = p /\ two[3] = e
  OBVIOUS
<1> HIDE DEF one, two
<1>3. one = <<p, e>>
  BY <1>1
<1>4. two = <<p, p, e>>
  BY <1>2
<1> QED BY <1>3, <1>4 DEF one, two

\* A pointer in front of a base, and of a pointer to it
LEMMA PtrTypes ==
  ASSUME NEW e, IsBase(e), NEW d
  PROVE  /\ create_ptr_to_type(d, e, 1) = Sig(d, <<Pointer, e>>)
         /\ create_ptr_to_type(d, e, 2) = Sig(d, <<Pointer, Pointer, e>>)
<1>1. [i \in 1 .. 1 |-> Pointer] = <<Pointer>> /\ [i \in 1 .. 2 |-> Pointer] = <<Pointer, Pointer>>
  OBVIOUS
<1>2. e \in Elems /\ Pointer \in Elems
  BY DEF IsBase, Pointer, Elem, Elems
<1> HIDE DEF Pointer
<1>3. <<Pointer>> \o <<e>> = <<Pointer, e>>
      /\ <<Pointer, Pointer>> \o <<e>> = <<Pointer, Pointer, e>>
  BY <1>2, OneBehind
<1> QED BY <1>1, <1>3, Zenon DEF create_ptr_to_type

\* The records that history storage adds as one scalar
LEMMA ScalarRecord ==
  ASSUME NEW need, NEW e, IsBase(e), e.k # "utype",
         NEW d, d = "internal" => need = sizeof_primitive(e), d \in {"internal", "base_copy"}
  PROVE  IsRecord(Record(Sig(d, <<e>>), need))
<1> DEFINE u == Sig(d, <<e>>)
<1>1. u.s = <<e>> /\ Len(u.s) = 1 /\ u.s # <<>> /\ u.decl = d
  BY DEF Sig
<1>2. WellSized(u)
  BY SizedOne
<1> HIDE DEF u
<1>3. Base(u) = e /\ u.s[1] = e /\ DOMAIN u.s = {1}
  BY <1>1 DEF Base, Last
<1>4. ~is_struct_type(u) /\ ~is_history_type(u) /\ is_primitive(u)
  BY <1>1, <1>3 DEF is_struct_type, is_history_type, Has, is_primitive, IsBase, BaseKinds
<1>5. entry_size(u) = sizeof_primitive(e) + 0 /\ sizeof_primitive(e) \in Nat
  BY <1>3, <1>4, PrimitiveNat
     DEF entry_size, sizeof_type, sizeof_history, HistoryBytes, IsPlain, PlainSize, IsBase
<1>6. Stored(Record(u, need))
  BY <1>1, <1>5 DEF Stored, Record, BaseCopy
<1> QED BY <1>2, <1>6, NewRecord DEF u

\* and as an array,
LEMMA ArrayRecord ==
  ASSUME NEW need, NEW e, IsBase(e), e.k # "utype", NEW n \in Nat,
         NEW d, d = "internal" => need = sizeof_primitive(e) * n, d \in {"internal", "base_copy"}
  PROVE  IsRecord(Record(create_array_type(d, e, n), need))
<1> DEFINE f == Array(n)
           u == Sig(d, <<f, e>>)
           ns == Extents(u, 1)
<1>1. f \in Elems /\ f.k = "array" /\ f.n = n
  BY DEF Array, Elem, Elems
<1> HIDE DEF f
<1>2. u.s = <<f, e>> /\ Len(u.s) = 2 /\ u.s # <<>> /\ u.decl = d
      /\ u.s[1] = f /\ u.s[2] = e /\ DOMAIN u.s = 1 .. 2
  BY DEF Sig
<1>3. WellSized(u)
  BY <1>1, SizedTwo
<1> HIDE DEF u
<1>4. Base(u) = e
  BY <1>2 DEF Base, Last
<1>5. ~is_struct_type(u) /\ ~is_history_type(u) /\ is_array_type(u) /\ ~is_primitive(u)
  BY <1>1, <1>2, <1>4
     DEF is_struct_type, is_history_type, is_array_type, Has, is_primitive, IsBase, BaseKinds
<1>6. ns \in Seq(Nat) /\ Len(ns) = 2 /\ ns[1] = n /\ ns[2] = 1
  <2>1. ns \in Seq(Nat)
    BY <1>3, ExtentsNat DEF WellSized
  <2>2. ns = [i \in 1 .. 2 |-> IF u.s[i].k = "array" THEN u.s[i].n ELSE 1]
    BY <1>2 DEF Extents
  <2>3. e.k # "array"
    BY DEF IsBase, BaseKinds
  <2>4. ns[1] = n /\ ns[2] = 1
    BY <1>1, <1>2, <2>2, <2>3
  <2>6. Len(ns) = 2
    BY <2>2
  <2> QED BY <2>1, <2>4, <2>6
<1> HIDE DEF ns
<1>7. Product(ns) = n
  <2>1. 1 \in 1 .. Len(ns) /\ \A i \in 1 .. Len(ns) : i # 1 => ns[i] = 1
    BY <1>6
  <2> QED BY <1>6, <2>1, OneOfProduct
<1>8. entry_size(u) = sizeof_primitive(e) * n + 0
  BY <1>4, <1>5, <1>7
     DEF entry_size, sizeof_type, sizeof_history, HistoryBytes, IsPlain, PlainSize, sizeof_array, ns
<1>9. sizeof_primitive(e) * n \in Nat
  BY PrimitiveNat, Times DEF IsBase
<1>10. Stored(Record(u, need))
  BY <1>2, <1>8, <1>9 DEF Stored, Record, BaseCopy
<1> QED BY <1>3, <1>10, NewRecord DEF u, f, create_array_type

\* and as a pointer.
LEMMA PtrRecord ==
  ASSUME NEW e, IsBase(e), NEW levels \in {1, 2}, NEW need,
         NEW d, d = "internal" => need = IC_SIZEOF_POINTER, d \in {"internal", "element_pointers"}
  PROVE  IsRecord(Record(create_ptr_to_type(d, e, levels), need))
<1> DEFINE u == create_ptr_to_type(d, e, levels)
<1>1. Pointer \in Elems /\ Pointer.k = "pointer"
  BY DEF Pointer, Elem, Elems
<1>2. u = Sig(d, <<Pointer, e>>) \/ u = Sig(d, <<Pointer, Pointer, e>>)
  BY PtrTypes
<1>3. WellSized(u)
  BY <1>1, <1>2, SizedTwo, SizedThree
<1>4. /\ u.decl = d /\ u.s \in {<<Pointer, e>>, <<Pointer, Pointer, e>>}
      /\ u.s[1].k = "pointer" /\ Len(u.s) > 1
      /\ \A i \in DOMAIN u.s : u.s[i].k \in {"pointer"} \cup BaseKinds
  BY <1>1, <1>2 DEF Sig, IsBase
<1> HIDE DEF u
<1>5. ~is_history_type(u) /\ ~is_array_type(u) /\ ~is_primitive(u)
  BY <1>4 DEF is_history_type, is_array_type, is_primitive, Has, BaseKinds
<1>6. entry_size(u) = IC_SIZEOF_POINTER + 0
  BY <1>4, <1>5
     DEF entry_size, sizeof_type, sizeof_history, HistoryBytes, IsPlain, PlainSize
<1>7. Stored(Record(u, need))
  BY <1>4, <1>6, SizesAssumption DEF Stored, Record, IndexWisePointers
<1> QED BY <1>3, <1>7, NewRecord DEF u

\* What the declaration of a variable adds to a scope
Added(t) == <<Variable(t)>> \o history_add_internal_names(t)

\* No records take no space.
LEMMA EmptyList == IsList(<<>>) /\ Len(<<>>) = 0 /\ Sizes(<<>>) = <<>> /\ Total(Sizes(<<>>)) = 0
<1>1. <<>> \in Seq({}) /\ Len(<<>>) = 0 /\ DOMAIN <<>> = {}
  OBVIOUS
<1>2. IsList(<<>>)
  BY <1>1 DEF IsList
<1>3. Sizes(<<>>) = <<>>
  BY <1>1 DEF Sizes
<1>4. <<>> \in Seq(Nat)
  OBVIOUS
<1>5. Total(<<>>) = Upto(<<>>, 0) /\ Upto(<<>>, 0) = 0
  BY <1>1, <1>4, UptoAll, UptoNone
<1> QED BY <1>1, <1>2, <1>3, <1>5

\* Histories are kept of primitives.
LEMMA HistoryBase ==
  ASSUME NEW t \in Types, is_history_type(t)
  PROVE  IsBase(Base(t))
<1>1. IsSized(t) /\ (Base(t).k = "utype" => Base(t).n \in DOMAIN UTypes)
  BY TypesAssumption
<1>2. Base(t) = t.s[Len(t.s)] /\ t.s \in Seq(Elems) /\ Len(t.s) \in Nat \ {0}
  BY <1>1, SignatureOf
<1>3. Base(t) \in Elems
  BY <1>2
<1>4. Base(t).k \in BaseKinds /\ Base(t).k # "void"
  BY <1>1 DEF IsSized
<1> QED BY <1>1, <1>3, <1>4 DEF IsBase

\* Only an array has a history that is kept index-wise.
LEMMA IndexWiseIsArray ==
  ASSUME NEW t, IsSized(t), history_array_type(t) = "index_wise"
  PROVE  is_array_type(t)
<1> DEFINE i == Leftmost(t.s, {"history"})
<1>1. Len(t.s) \in Nat /\ DOMAIN t.s = 1 .. Len(t.s)
  BY SignatureOf
<1>2. i \in 0 .. Len(t.s)
  BY <1>1, LeftmostIn
<1>3. i # 0 /\ i > 1 /\ t.s[i - 1].k = "array"
  BY DEF history_array_type
<1> HIDE DEF i
<1>4. i - 1 \in DOMAIN t.s
  BY <1>1, <1>2, <1>3
<1> QED BY <1>3, <1>4 DEF is_array_type, Has

\* An array has a number of elements.
LEMMA ArrayExtent ==
  ASSUME NEW t, IsSized(t), is_array_type(t)
  PROVE  t.s[Leftmost(t.s, {"array"})].n \in Nat
<1>1. /\ Len(t.s) \in Nat /\ DOMAIN t.s = 1 .. Len(t.s)
      /\ \A i \in DOMAIN t.s : t.s[i].n \in Nat
  BY SignatureOf
<1>2. \E i \in DOMAIN t.s : t.s[i].k \in {"array"}
  BY DEF is_array_type, Has
<1>3. Leftmost(t.s, {"array"}) \in DOMAIN t.s
  BY <1>1, <1>2, LeftmostIn
<1> QED BY <1>1, <1>3

\* The copies, current values, lists and pointers that a history adds
LEMMA InternalRecords ==
  ASSUME NEW t \in Types, is_history_type(t), t.decl # "user"
  PROVE  /\ IsRecord(PtrTo(Base(t), 1)) /\ IsRecord(PtrTo(Base(t), 2))
         /\ IsRecord(Record(create_ptr_to_type("element_pointers", Base(t), 2),
                            get_num_elements(t) * IC_SIZEOF_POINTER))
         /\ IsRecord(ArrayOf(IntType, get_history_depth(t) * 2,
                             get_history_depth(t) * 2 * IC_SIZEOF_INT))
         /\ ~is_array_type(t) => IsRecord(OfOne(t))
         /\ is_array_type(t) => IsRecord(CopyOf(t))
<1> DEFINE e == Base(t)
           n == t.s[Leftmost(t.s, {"array"})].n
           m == get_history_depth(t) * 2
<1>1. /\ IsBase(e) /\ e.k # "utype" /\ IsSized(t) /\ ~is_struct_type(t)
      /\ is_address_type(t) <=> Has(t, {"pointer"})
  <2>1. t.s # <<>>
    BY DeclaredShape DEF IsSized
  <2> QED BY <2>1, HistoryBase, DeclaredShape DEF is_struct_type
<1>2. CopyDecl(t) \in {"internal", "base_copy"}
  BY DEF CopyDecl
<1>3. CopyDecl(t) = "internal" => ~MeasuredByBase(t) /\ OneValue(t) = sizeof_primitive(e)
  BY <1>1 DEF CopyDecl, OneValue
<1>4. IsRecord(PtrTo(e, 1)) /\ IsRecord(PtrTo(e, 2))
  BY <1>1, PtrRecord DEF PtrTo
<1>5. IsRecord(Record(create_ptr_to_type("element_pointers", e, 2),
                      get_num_elements(t) * IC_SIZEOF_POINTER))
  BY <1>1, PtrRecord
<1>6. IsRecord(ArrayOf(IntType, m, m * IC_SIZEOF_INT))
  <2>1. IsBase(IntType) /\ IntType.k # "utype" /\ sizeof_primitive(IntType) = IC_SIZEOF_INT
    BY DEF IsBase, IntType, Elem, Elems, BaseKinds, sizeof_primitive
  <2>2. m \in Nat /\ m * IC_SIZEOF_INT = IC_SIZEOF_INT * m
    BY <1>1, DepthNat, SizesAssumption
  <2> HIDE DEF m
  <2> QED BY <2>1, <2>2, ArrayRecord DEF ArrayOf
<1>7. IsRecord(OfOne(t))
  BY <1>1, <1>2, <1>3, ScalarRecord DEF OfOne
<1>8. ASSUME is_array_type(t) PROVE IsRecord(CopyOf(t))
  <2>1. n \in Nat
    BY <1>1, <1>8, ArrayExtent
  <2>2. CopyDecl(t) = "internal" => Values(t) = sizeof_primitive(e) * n
    BY <1>1, <1>3, <1>8, OneDimension DEF Values, MeasuredByBase
  <2> QED BY <1>1, <1>2, <2>1, <2>2, ArrayRecord DEF CopyOf
<1> QED BY <1>4, <1>5, <1>6, <1>7, <1>8

\* What history storage adds to a variable is a list of records.
LEMMA InternalNames ==
  ASSUME NEW t \in Types
  PROVE  IsList(history_add_internal_names(t))
<1> DEFINE base == Base(t)
           elements == get_num_elements(t)
           depth == get_history_depth(t)
           pointers == Record(create_ptr_to_type("element_pointers", base, 2),
                              elements * IC_SIZEOF_POINTER)
           list == ArrayOf(IntType, depth * 2, depth * 2 * IC_SIZEOF_INT)
<1>1. IsSized(t)
  BY TypesAssumption
<1>2. CASE ~is_history_type(t) \/ t.decl = "user"
  BY <1>2, EmptyList DEF history_add_internal_names
<1>3. CASE is_history_type(t) /\ t.decl # "user"
  <2>1. /\ IsRecord(PtrTo(base, 1)) /\ IsRecord(PtrTo(base, 2))
        /\ IsRecord(pointers) /\ IsRecord(list)
        /\ ~is_array_type(t) => IsRecord(OfOne(t))
        /\ is_array_type(t) => IsRecord(CopyOf(t))
    BY <1>3, InternalRecords
  <2>2. CASE history_array_type(t) = "index_wise"
    <3>1. history_add_internal_names(t) = << pointers, CopyOf(t) >>
      BY <1>3, <2>2 DEF history_add_internal_names
    <3> HIDE DEF pointers
    <3> QED BY <1>1, <2>1, <2>2, <3>1, IndexWiseIsArray, ListOfTwo
  <2>3. CASE history_array_type(t) # "index_wise" /\ is_array_type(t) /\ cflags.order_d
    <3>1. history_add_internal_names(t) = << PtrTo(base, 2), CopyOf(t), list, PtrTo(base, 1) >>
      BY <1>3, <2>3 DEF history_add_internal_names
    <3> HIDE DEF list, base
    <3> QED BY <2>1, <2>3, <3>1, ListOfFour
  <2>4. CASE history_array_type(t) # "index_wise" /\ is_array_type(t) /\ ~cflags.order_d
    <3>1. history_add_internal_names(t) = << PtrTo(base, 1), CopyOf(t) >>
      BY <1>3, <2>4 DEF history_add_internal_names
    <3> HIDE DEF base
    <3> QED BY <2>1, <2>4, <3>1, ListOfTwo
  <2>5. CASE history_array_type(t) # "index_wise" /\ ~is_array_type(t) /\ Flat(t)
    <3>1. history_add_internal_names(t) = << OfOne(t) >>
      BY <1>3, <2>5 DEF history_add_internal_names
    <3> QED BY <2>1, <2>5, <3>1, ListOfOne
  <2>6. CASE history_array_type(t) # "index_wise" /\ ~is_array_type(t) /\ ~Flat(t)
    <3>1. history_add_internal_names(t) = << OfOne(t), PtrTo(base, 1), OfOne(t) >>
      BY <1>3, <2>6 DEF history_add_internal_names
    <3> HIDE DEF base
    <3> QED BY <2>1, <2>6, <3>1, ListOfFour
  <2> QED BY <2>2, <2>3, <2>4, <2>5, <2>6
<1> QED BY <1>2, <1>3

\* A declaration adds at least one record.
LEMMA AddedList ==
  ASSUME NEW t \in Types
  PROVE  IsList(Added(t)) /\ Len(Added(t)) >= 1
<1>1. IsRecord(Variable(t))
  BY DeclaredType, VariableStored, NewRecord DEF Variable
<1>2. IsList(<<Variable(t)>>) /\ Len(<<Variable(t)>>) = 1
  BY <1>1, ListOfOne
<1>3. IsList(history_add_internal_names(t))
  BY InternalNames
<1>4. Len(history_add_internal_names(t)) \in Nat
  BY <1>3, ListOf
<1> QED BY <1>2, <1>3, <1>4, JoinedLists DEF Added

----------------------------------------------------------------------------

\* A list of entries as the parser of declarations builds it
Entries(l) ==
  /\ l = [recs |-> l.recs, size |-> l.size]
  /\ IsList(l.recs) /\ l.size \in Nat /\ l.size >= Total(Sizes(l.recs))

\* A scope without records may have a header.
LEMMA NoEntriesYet ==
  ASSUME NEW size \in Nat
  PROVE  Entries([recs |-> <<>>, size |-> size])
BY EmptyList DEF Entries

\* add_entries appends records to those of a scope, which then is large
\* enough for all.
LEMMA MoreEntries ==
  ASSUME NEW l, NEW new, Entries(l), IsList(new), NEW extra \in Nat
  PROVE  /\ Entries(add_entries(l, new))
         /\ Entries([add_entries(l, new) EXCEPT !.size = @ + extra])
         /\ add_entries(l, new).recs = l.recs \o new
         /\ Len(add_entries(l, new).recs) = Len(l.recs) + Len(new)
<1> DEFINE recs == l.recs \o new
           more == Total(Sizes(new))
<1>1. add_entries(l, new) = [recs |-> recs, size |-> l.size + more]
  BY DEF add_entries, Sizes
<1>2. IsList(recs) /\ Sizes(recs) = Sizes(l.recs) \o Sizes(new) /\ Len(recs) = Len(l.recs) + Len(new)
  BY JoinedLists DEF Entries
<1>3. Sizes(l.recs) \in Seq(Nat) /\ Sizes(new) \in Seq(Nat)
  BY ListOf DEF Entries
<1>4. Total(Sizes(recs)) = Total(Sizes(l.recs)) + more
  BY <1>2, <1>3, TotalConcat
<1>5. Total(Sizes(l.recs)) \in Nat /\ more \in Nat /\ l.size \in Nat /\ l.size >= Total(Sizes(l.recs))
  BY <1>3, UptoAll DEF Entries
<1> HIDE DEF recs, more
<1>6. l.size + more \in Nat /\ l.size + more + extra \in Nat
      /\ l.size + more >= Total(Sizes(recs)) /\ l.size + more + extra >= Total(Sizes(recs))
  BY <1>4, <1>5
<1>7. Entries([recs |-> recs, size |-> l.size + more])
  BY <1>2, <1>6 DEF Entries
<1>8. Entries([recs |-> recs, size |-> l.size + more + extra])
  BY <1>2, <1>6 DEF Entries
<1>9. [add_entries(l, new) EXCEPT !.size = @ + extra] = [recs |-> recs, size |-> l.size + more + extra]
  BY <1>1
<1>10. add_entries(l, new).recs = recs
  BY <1>1
<1> QED BY <1>1, <1>2, <1>7, <1>8, <1>9, <1>10 DEF recs

\* parse_decl appends the records of one declaration.
LEMMA DeclareOne ==
  ASSUME NEW l, Entries(l), NEW t \in Types
  PROVE  /\ Entries(parse_decl(l, t)) /\ Len(parse_decl(l, t).recs) >= Len(l.recs) + 1
         /\ parse_decl(l, t).recs = l.recs \o Added(t)
<1> DEFINE extra == CountedTwice(t)
           new == Added(t)
<1>1. extra \in Nat
  BY DeclaredType, EntryNat DEF CountedTwice
<1>2. IsList(new) /\ Len(new) >= 1
  BY AddedList
<1>3. parse_decl(l, t) = [add_entries(l, new) EXCEPT !.size = @ + extra]
  BY DEF parse_decl, Added
<1>4. Len(l.recs) \in Nat /\ Len(new) \in Nat
  BY <1>2, ListOf DEF Entries
<1> HIDE DEF extra, new
<1>5. Entries([add_entries(l, new) EXCEPT !.size = @ + extra])
  BY <1>1, <1>2, MoreEntries
<1>6. Len(add_entries(l, new).recs) = Len(l.recs) + Len(new) /\ add_entries(l, new).recs = l.recs \o new
  BY <1>1, <1>2, MoreEntries
<1>7. [add_entries(l, new) EXCEPT !.size = @ + extra].recs = add_entries(l, new).recs
  BY DEF add_entries
<1> QED BY <1>2, <1>3, <1>4, <1>5, <1>6, <1>7 DEF new

\* The records that declarations can add
Addable == UNION {{Added(t)[i] : i \in DOMAIN Added(t)} : t \in Types}

\* The records of a declaration are among those that declarations add.
LEMMA AddedAddable ==
  ASSUME NEW t \in Types
  PROVE  Added(t) \in Seq(Addable)
<1> DEFINE new == Added(t)
<1>1. IsList(new)
  BY AddedList
<1>2. PICK S : new \in Seq(S)
  BY <1>1 DEF IsList
<1>3. \A i \in DOMAIN new : new[i] \in Addable
  BY DEF Addable
<1> HIDE DEF new
<1>4. new \in [1 .. Len(new) -> Addable] /\ Len(new) \in Nat
  BY <1>2, <1>3
<1>5. new \in Seq(Addable)
  BY <1>4
<1> QED BY <1>5 DEF new

\* The declarations of a block
LEMMA DeclareAll ==
  ASSUME NEW ts \in Seq(Types)
  PROVE  /\ Entries(parse_decls(ts))
         /\ Len(parse_decls(ts).recs) >= Len(ts)
<1> DEFINE n == Len(ts)
           S == {l \in [recs : Seq(Addable), size : Nat] : Entries(l)}
           step == [p \in S \X (1 .. n) |-> parse_decl(p[1], ts[p[2]])]
           Body(g) == [i \in 0 .. n |-> IF i = 0 THEN NoEntries ELSE parse_decl(g[i - 1], ts[i])]
           f == CHOOSE g : g = Body(g)
<1>1. n \in Nat /\ \A i \in 1 .. n : ts[i] \in Types
  OBVIOUS
<1>2. NoEntries \in S
  <2>1. 0 \in Nat /\ <<>> \in Seq(Addable)
    OBVIOUS
  <2>2. Entries([recs |-> <<>>, size |-> 0])
    BY <2>1, NoEntriesYet
  <2> QED BY <2>1, <2>2 DEF NoEntries
<1>3. ASSUME NEW l \in S, NEW i \in 1 .. n PROVE parse_decl(l, ts[i]) \in S
  <2> DEFINE m == parse_decl(l, ts[i])
  <2>1. Entries(l) /\ l.recs \in Seq(Addable)
    OBVIOUS
  <2>2. Entries(m) /\ m.recs = l.recs \o Added(ts[i])
    BY <1>1, <2>1, DeclareOne
  <2>3. Added(ts[i]) \in Seq(Addable)
    BY <1>1, AddedAddable
  <2> HIDE DEF m
  <2>4. m.recs \in Seq(Addable)
    BY <2>1, <2>2, <2>3
  <2>5. m \in [recs : Seq(Addable), size : Nat]
    BY <2>2, <2>4 DEF Entries
  <2> QED BY <2>2, <2>5 DEF m
<1>4. n = Len(ts)
  OBVIOUS
<1> HIDE DEF n
<1>5. step \in Rounds(S, n)
  <2> HIDE DEF S
  <2> QED BY <1>3 DEF Rounds
<1>6. PICK g \in [0 .. n -> S] : g[0] = NoEntries /\ \A i \in 1 .. n : g[i] = step[<<g[i - 1], i>>]
  <2> HIDE DEF step, S
  <2> QED BY <1>1, <1>2, <1>5, LoopExists
<1>7. \A i \in 1 .. n : g[i - 1] \in S /\ g[i] = parse_decl(g[i - 1], ts[i])
  <2> SUFFICES ASSUME NEW i \in 1 .. n PROVE g[i - 1] \in S /\ g[i] = parse_decl(g[i - 1], ts[i])
    OBVIOUS
  <2>1. i - 1 \in 0 .. n
    BY <1>1
  <2> HIDE DEF S
  <2>2. g[i - 1] \in S
    BY <2>1
  <2> QED BY <1>6, <2>2
<1>8. g = Body(g)
  <2>1. ASSUME NEW i \in 0 .. n PROVE g[i] = IF i = 0 THEN NoEntries ELSE parse_decl(g[i - 1], ts[i])
    <3>1. i = 0 \/ i \in 1 .. n
      BY <1>1
    <3> QED BY <1>6, <1>7, <3>1
  <2>2. g = [i \in 0 .. n |-> g[i]]
    OBVIOUS
  <2> QED BY <2>1, <2>2, Zenon
<1>9. f = Body(f)
  <2> HIDE DEF Body
  <2> QED BY <1>8
<1>10. parse_decls(ts) = f[n]
  BY DEF parse_decls, n
<1> HIDE DEF f
<1>11. f[0] = NoEntries /\ \A i \in 1 .. n : f[i] = parse_decl(f[i - 1], ts[i])
  <2>1. 0 \in 0 .. n /\ \A i \in 1 .. n : i \in 0 .. n /\ i # 0
    BY <1>1
  <2>2. \A i \in 0 .. n : f[i] = IF i = 0 THEN NoEntries ELSE parse_decl(f[i - 1], ts[i])
    BY <1>9
  <2> HIDE DEF Body
  <2> QED BY <2>1, <2>2
<1> DEFINE T == {i \in 0 .. n : Entries(f[i]) /\ Len(f[i].recs) >= i}
<1>12. 0 \in T
  <2>1. Entries(f[0]) /\ f[0].recs = <<>>
    BY <1>2, <1>11 DEF NoEntries
  <2> QED BY <1>1, <2>1
<1>13. ASSUME NEW i \in 1 .. n, i - 1 \in T PROVE i \in T
  <2>1. Entries(f[i - 1]) /\ Len(f[i - 1].recs) >= i - 1 /\ ts[i] \in Types
        /\ f[i] = parse_decl(f[i - 1], ts[i])
    BY <1>1, <1>11, <1>13
  <2>2. Entries(f[i]) /\ Len(f[i].recs) >= Len(f[i - 1].recs) + 1
    BY <2>1, DeclareOne
  <2>3. Len(f[i].recs) \in Nat /\ Len(f[i - 1].recs) \in Nat
    BY <2>1, <2>2, ListOf DEF Entries
  <2> DEFINE a == Len(f[i - 1].recs)
             b == Len(f[i].recs)
  <2>4. i \in Nat /\ a \in Nat /\ b \in Nat /\ b >= a + 1 /\ a >= i - 1
    BY <1>1, <2>1, <2>2, <2>3
  <2> HIDE DEF a, b
  <2>5. b >= i
    BY <2>4
  <2>6. Entries(f[i]) /\ Len(f[i].recs) >= i
    BY <2>2, <2>5 DEF b
  <2> QED BY <2>6
<1>14. n \in T
  <2> HIDE DEF T
  <2>1. 0 .. n \subseteq T
    BY <1>1, <1>12, <1>13, Upward
  <2>2. n \in 0 .. n
    BY <1>1
  <2> QED BY <2>1, <2>2
<1> QED BY <1>4, <1>10, <1>14

\* The arguments of a function
LEMMA DeclareArgs ==
  ASSUME NEW ts \in Seq(ArgTypes)
  PROVE  Entries(parse_func_args(ts)) /\ Len(parse_func_args(ts).recs) = Len(ts)
<1> DEFINE new == [i \in DOMAIN ts |-> Variable(ts[i])]
           l == [NoEntries EXCEPT !.size = IC_STACK_FRAME_HEADER_BYTES]
<1>1. Len(ts) \in Nat /\ DOMAIN ts = 1 .. Len(ts) /\ \A i \in 1 .. Len(ts) : ts[i] \in ArgTypes
  OBVIOUS
<1>2. \A i \in 1 .. Len(ts) : IsRecord(Variable(ts[i]))
  BY <1>1, DeclaredType, VariableStored, NewRecord DEF Variable
<1>3. new \in Seq({Variable(ts[i]) : i \in 1 .. Len(ts)}) /\ Len(new) = Len(ts) /\ DOMAIN new = 1 .. Len(ts)
  BY <1>1
<1>4. IsList(new)
  <2>1. \A i \in DOMAIN new : IsRecord(new[i])
    BY <1>1, <1>2
  <2> HIDE DEF new
  <2> QED BY <1>3, <2>1 DEF IsList
<1>5. l = [recs |-> <<>>, size |-> IC_STACK_FRAME_HEADER_BYTES] /\ IC_STACK_FRAME_HEADER_BYTES \in Nat
  BY FramesAssumption DEF NoEntries
<1>6. Entries(l) /\ l.recs = <<>>
  BY <1>5, NoEntriesYet
<1>7. parse_func_args(ts) = add_entries(l, new)
  BY DEF parse_func_args
<1> HIDE DEF new, l
<1>8. Entries(add_entries(l, new)) /\ Len(add_entries(l, new).recs) = Len(l.recs) + Len(new)
  <2>1. 0 \in Nat
    OBVIOUS
  <2> QED BY <1>4, <1>6, <2>1, MoreEntries
<1>9. Len(l.recs) + Len(new) = Len(ts)
  BY <1>1, <1>3, <1>6
<1> QED BY <1>7, <1>8, <1>9

----------------------------------------------------------------------------
(* Trees of scopes *)

FuncNames == Funcs \cup {""}
ScopeSet == [func : FuncNames, prev : Nat, recs : Seq(Nat), size : Nat]

\* The scope around a scope was opened before it.
Tree(sc) ==
  /\ sc \in Seq(ScopeSet) /\ sc # <<>>
  /\ sc[1].prev = 0
  /\ \A c \in 2 .. Len(sc) : sc[c].prev \in 1 .. c - 1

\* Scopes are a list that is not empty.
LEMMA TreeOf ==
  ASSUME NEW sc, Tree(sc)
  PROVE  /\ Len(sc) \in Nat \ {0} /\ DOMAIN sc = 1 .. Len(sc) /\ 1 \in DOMAIN sc
         /\ \A c \in DOMAIN sc : sc[c] \in ScopeSet
  BY DEF Tree

\* A scope has a name, a scope around it, records and a size.
LEMMA ScopeOf ==
  ASSUME NEW sc, Tree(sc), NEW c \in DOMAIN sc
  PROVE  /\ sc[c] = [func |-> sc[c].func, prev |-> sc[c].prev, recs |-> sc[c].recs,
                     size |-> sc[c].size]
         /\ sc[c].func \in FuncNames /\ sc[c].prev \in Nat
         /\ sc[c].recs \in Seq(Nat) /\ sc[c].size \in Nat
<1>1. sc[c] \in ScopeSet
  BY TreeOf
<1> QED BY <1>1 DEF ScopeSet

\* Every scope but the global one has a scope around it.
LEMMA PrevOf ==
  ASSUME NEW sc, Tree(sc), NEW c \in DOMAIN sc
  PROVE  /\ c # 1 => sc[c].prev \in 1 .. c - 1 /\ sc[c].prev \in DOMAIN sc
         /\ c = 1 <=> sc[c].prev = 0
<1>1. Len(sc) \in Nat \ {0} /\ DOMAIN sc = 1 .. Len(sc)
  BY TreeOf
<1>2. sc[1].prev = 0 /\ \A d \in 2 .. Len(sc) : sc[d].prev \in 1 .. d - 1
  BY DEF Tree
<1>3. c = 1 \/ c \in 2 .. Len(sc)
  BY <1>1
<1> QED BY <1>1, <1>2, <1>3

\* A scope inside another was opened after it.
LEMMA ChildOf ==
  ASSUME NEW sc, Tree(sc), NEW s \in DOMAIN sc, NEW c \in Children(sc, s)
  PROVE  c \in DOMAIN sc /\ c \in Nat /\ sc[c].prev = s /\ c > s /\ c # 1
<1>1. c \in DOMAIN sc /\ sc[c].prev = s
  BY DEF Children
<1>2. Len(sc) \in Nat /\ DOMAIN sc = 1 .. Len(sc)
  BY TreeOf
<1>3. c # 1 => sc[c].prev \in 1 .. c - 1
  BY <1>1, PrevOf
<1>4. c = 1 => sc[c].prev = 0
  BY <1>1, PrevOf
<1> QED BY <1>1, <1>2, <1>3, <1>4

\* From the outside inwards, and from the inside outwards
LEMMA Inwards ==
  ASSUME NEW sc, Tree(sc), NEW T, 1 \in T,
         \A c \in DOMAIN sc : c # 1 /\ sc[c].prev \in T => c \in T
  PROVE  \A c \in DOMAIN sc : c \in T
<1> DEFINE n == Len(sc)
           U == {i \in 0 .. n : \A k \in 1 .. i : k \in T}
<1>1. n \in Nat /\ DOMAIN sc = 1 .. n
  BY TreeOf
<1> HIDE DEF n
<1>2. 0 \in U
  BY <1>1
<1>3. ASSUME NEW i \in 1 .. n, i - 1 \in U PROVE i \in U
  <2>1. i \in DOMAIN sc /\ \A k \in 1 .. i - 1 : k \in T
    BY <1>1, <1>3
  <2>2. i = 1 \/ sc[i].prev \in 1 .. i - 1
    BY <2>1, PrevOf
  <2>3. i \in T
    BY <2>1, <2>2
  <2>4. \A k \in 1 .. i : k \in 1 .. i - 1 \/ k = i
    OBVIOUS
  <2> QED BY <2>1, <2>3, <2>4
<1>4. n \in U
  <2>1. 0 .. n \subseteq U
    <3> HIDE DEF U
    <3> QED BY <1>1, <1>2, <1>3, Upward
  <2>2. n \in 0 .. n
    BY <1>1
  <2> QED BY <2>1, <2>2
<1> QED BY <1>1, <1>4

\* What holds of a scope when it holds of all the scopes inside holds of
\* every scope.
LEMMA Outwards ==
  ASSUME NEW sc, Tree(sc), NEW T,
         \A c \in DOMAIN sc : (\A d \in Children(sc, c) : d \in T) => c \in T
  PROVE  \A c \in DOMAIN sc : c \in T
<1> DEFINE n == Len(sc)
           U == {i \in 0 .. n : \A k \in n + 1 - i .. n : k \in T}
<1>1. n \in Nat /\ DOMAIN sc = 1 .. n
  BY TreeOf
<1> HIDE DEF n
<1>2. 0 \in U
  BY <1>1
<1>3. ASSUME NEW i \in 1 .. n, i - 1 \in U PROVE i \in U
  <2> DEFINE c == n + 1 - i
  <2>1. c \in DOMAIN sc /\ \A k \in c + 1 .. n : k \in T
    BY <1>1, <1>3
  <2>2. c \in T
    <3>1. ASSUME NEW d \in Children(sc, c) PROVE d \in T
      <4>1. d \in DOMAIN sc /\ d > c /\ d \in Nat
        BY <2>1, ChildOf
      <4> QED BY <1>1, <2>1, <4>1
    <3> QED BY <2>1, <3>1
  <2>4. \A k \in c .. n : k \in c + 1 .. n \/ k = c
    BY <1>1
  <2> QED BY <2>1, <2>2, <2>4
<1>4. n \in U
  <2>1. 0 .. n \subseteq U
    <3> HIDE DEF U
    <3> QED BY <1>1, <1>2, <1>3, Upward
  <2>2. n \in 0 .. n
    BY <1>1
  <2> QED BY <2>1, <2>2
<1> QED BY <1>1, <1>4

----------------------------------------------------------------------------
(* Ancestors *)

\* Around a scope is what is around the scope it is in.
LEMMA AncestorsStep ==
  ASSUME NEW sc, Tree(sc), NEW s \in DOMAIN sc
  PROVE  Ancestors(sc, s) = {s} \cup (IF sc[s].prev = 0 THEN {} ELSE Ancestors(sc, sc[s].prev))
<1> DEFINE n == Len(sc)
           S == SUBSET (1 .. n)
           step == [p \in [1 .. n -> S] \X (1 .. n) |->
                      {p[2]} \cup (IF sc[p[2]].prev = 0 THEN {} ELSE p[1][sc[p[2]].prev])]
           Body(g) == [c \in DOMAIN sc |-> {c} \cup (IF sc[c].prev = 0 THEN {} ELSE g[sc[c].prev])]
           f == CHOOSE g : g = Body(g)
<1>1. n \in Nat /\ DOMAIN sc = 1 .. n
  BY TreeOf
<1> HIDE DEF n
<1>2. \A c \in 1 .. n : sc[c].prev = 0 \/ (sc[c].prev \in 1 .. c - 1 /\ sc[c].prev \in 1 .. n)
  BY <1>1, PrevOf
<1>3. step \in Courses(S, n)
  <2>1. ASSUME NEW g \in [1 .. n -> S], NEW i \in 1 .. n
        PROVE  {i} \cup (IF sc[i].prev = 0 THEN {} ELSE g[sc[i].prev]) \in S
    BY <1>2
  <2> HIDE DEF S
  <2> QED BY <2>1 DEF Courses
<1>4. \A g, h \in [1 .. n -> S] : \A i \in 1 .. n :
         (\A j \in 1 .. i - 1 : g[j] = h[j]) => step[<<g, i>>] = step[<<h, i>>]
  <2> SUFFICES ASSUME NEW g \in [1 .. n -> S], NEW h \in [1 .. n -> S], NEW i \in 1 .. n,
                      \A j \in 1 .. i - 1 : g[j] = h[j]
               PROVE  step[<<g, i>>] = step[<<h, i>>]
    OBVIOUS
  <2>1. sc[i].prev = 0 \/ g[sc[i].prev] = h[sc[i].prev]
    BY <1>2
  <2> HIDE DEF S
  <2>2. step[<<g, i>>] = {i} \cup (IF sc[i].prev = 0 THEN {} ELSE g[sc[i].prev])
    OBVIOUS
  <2>3. step[<<h, i>>] = {i} \cup (IF sc[i].prev = 0 THEN {} ELSE h[sc[i].prev])
    OBVIOUS
  <2> HIDE DEF step
  <2> QED BY <2>1, <2>2, <2>3
<1>5. PICK g \in [1 .. n -> S] : Course(g, n, step)
  <2>1. S # {}
    OBVIOUS
  <2> HIDE DEF S, step
  <2> QED BY <1>1, <1>3, <1>4, <2>1, CourseUp
<1>6. g = Body(g)
  <2>1. ASSUME NEW i \in 1 .. n
        PROVE  g[i] = {i} \cup (IF sc[i].prev = 0 THEN {} ELSE g[sc[i].prev])
    <3>1. g[i] = step[<<g, i>>]
      BY <1>5 DEF Course
    <3> HIDE DEF S
    <3> QED BY <3>1
  <2>2. g = [i \in 1 .. n |-> g[i]]
    OBVIOUS
  <2> QED BY <1>1, <2>1, <2>2, Zenon
<1>7. f = Body(f)
  <2> HIDE DEF Body
  <2> QED BY <1>6
<1>8. \A c : Ancestors(sc, c) = f[c]
  BY DEF Ancestors
<1> HIDE DEF f
<1>9. f[s] = {s} \cup (IF sc[s].prev = 0 THEN {} ELSE f[sc[s].prev])
  BY <1>7
<1> HIDE DEF Body
<1> QED BY <1>8, <1>9

\* One step at a time
LEMMA AncestorIs ==
  ASSUME NEW sc, Tree(sc), NEW s \in DOMAIN sc
  PROVE  /\ s \in Ancestors(sc, s)
         /\ \A a : a \in Ancestors(sc, s) /\ a # s => s # 1 /\ a \in Ancestors(sc, sc[s].prev)
         /\ s # 1 => \A a \in Ancestors(sc, sc[s].prev) : a \in Ancestors(sc, s)
         /\ s = 1 => Ancestors(sc, s) = {1}
BY AncestorsStep, PrevOf

\* Scopes around a scope were opened before it.
LEMMA AncestorsBefore ==
  ASSUME NEW sc, Tree(sc)
  PROVE  \A s \in DOMAIN sc : \A a \in Ancestors(sc, s) : a \in DOMAIN sc /\ a <= s
<1> DEFINE T == {s \in DOMAIN sc : \A a \in Ancestors(sc, s) : a \in DOMAIN sc /\ a <= s}
<1>1. Len(sc) \in Nat /\ DOMAIN sc = 1 .. Len(sc) /\ 1 \in DOMAIN sc
  BY TreeOf
<1>2. 1 \in T
  BY <1>1, AncestorIs
<1>3. ASSUME NEW c \in DOMAIN sc, c # 1, sc[c].prev \in T PROVE c \in T
  <2>1. sc[c].prev \in 1 .. c - 1 /\ sc[c].prev \in DOMAIN sc
    BY <1>3, PrevOf
  <2>2. ASSUME NEW a \in Ancestors(sc, c) PROVE a \in DOMAIN sc /\ a <= c
    <3>1. a = c \/ a \in Ancestors(sc, sc[c].prev)
      BY AncestorIs
    <3>2. a = c \/ (a \in DOMAIN sc /\ a <= sc[c].prev)
      BY <1>3, <3>1
    <3> QED BY <1>1, <2>1, <3>2
  <2> QED BY <2>2
<1>4. \A s \in DOMAIN sc : s \in T
  <2> HIDE DEF T
  <2> QED BY <1>2, <1>3, Inwards
<1> QED BY <1>4

\* Of two scopes around a scope one is around the other.
LEMMA AroundChain ==
  ASSUME NEW sc, Tree(sc)
  PROVE  \A s \in DOMAIN sc : \A a, b \in Ancestors(sc, s) :
            a \in Ancestors(sc, b) \/ b \in Ancestors(sc, a)
<1> DEFINE Good(s) == \A a, b \in Ancestors(sc, s) : a \in Ancestors(sc, b) \/ b \in Ancestors(sc, a)
           T == {s \in DOMAIN sc : Good(s)}
<1>1. 1 \in DOMAIN sc
  BY TreeOf
<1>2. 1 \in T
  <2>1. Ancestors(sc, 1) = {1}
    BY <1>1, AncestorIs
  <2> QED BY <1>1, <2>1
<1>3. ASSUME NEW c \in DOMAIN sc, c # 1, sc[c].prev \in T PROVE c \in T
  <2> SUFFICES ASSUME NEW a \in Ancestors(sc, c), NEW b \in Ancestors(sc, c)
               PROVE  a \in Ancestors(sc, b) \/ b \in Ancestors(sc, a)
    OBVIOUS
  <2>1. CASE a = c
    BY <2>1
  <2>2. CASE b = c
    BY <2>2
  <2>3. CASE a # c /\ b # c
    <3>1. a \in Ancestors(sc, sc[c].prev) /\ b \in Ancestors(sc, sc[c].prev)
      BY <2>3, AncestorIs
    <3> QED BY <1>3, <3>1
  <2> QED BY <2>1, <2>2, <2>3
<1>4. \A s \in DOMAIN sc : s \in T
  <2> HIDE DEF T
  <2> QED BY <1>2, <1>3, Inwards
<1> QED BY <1>4

\* Around the scope of a function there is only the global one, so a scope that is not
\* the global one is inside of one function.
LEMMA AroundRoot ==
  ASSUME NEW sc, Tree(sc), NEW r \in Children(sc, 1), NEW a \in Ancestors(sc, r)
  PROVE  a = r \/ a = 1
<1>1. 1 \in DOMAIN sc
  BY TreeOf
<1>2. r \in DOMAIN sc /\ sc[r].prev = 1
  BY <1>1, ChildOf
<1>3. Ancestors(sc, 1) = {1}
  BY <1>1, AncestorIs
<1> QED BY <1>2, <1>3, AncestorIs

\* A scope is inside the scope of one function only.
LEMMA OneRoot ==
  ASSUME NEW sc, Tree(sc), NEW r \in Children(sc, 1), NEW q \in Children(sc, 1),
         NEW s \in DOMAIN sc, r \in Ancestors(sc, s), q \in Ancestors(sc, s)
  PROVE  r = q
<1>1. r # 1 /\ q # 1
  BY TreeOf, ChildOf
<1>2. r \in Ancestors(sc, q) \/ q \in Ancestors(sc, r)
  BY AroundChain
<1> QED BY <1>1, <1>2, AroundRoot

\* The scopes around a scope of a function, but the global one, are of that
\* function.
LEMMA WithinRoot ==
  ASSUME NEW sc, Tree(sc), NEW r \in Children(sc, 1), NEW s \in DOMAIN sc,
         r \in Ancestors(sc, s), NEW a \in Ancestors(sc, s), a # 1
  PROVE  r \in Ancestors(sc, a)
<1>1. r \in DOMAIN sc
  BY TreeOf, ChildOf
<1>2. r \in Ancestors(sc, r)
  BY <1>1, AncestorIs
<1>3. r \in Ancestors(sc, a) \/ a \in Ancestors(sc, r)
  BY AroundChain
<1> QED BY <1>2, <1>3, AroundRoot

\* Trees that differ in what is in the scopes only
SameShape(sc, sd) ==
  /\ Tree(sc) /\ Tree(sd) /\ Len(sc) = Len(sd)
  /\ \A c \in DOMAIN sc : sc[c].prev = sd[c].prev /\ sc[c].func = sd[c].func

\* Trees of the same shape have the same scopes inside a scope.
LEMMA SameChildren ==
  ASSUME NEW sc, NEW sd, SameShape(sc, sd)
  PROVE  DOMAIN sc = DOMAIN sd /\ \A s : Children(sc, s) = Children(sd, s)
<1>1. DOMAIN sc = DOMAIN sd
  BY TreeOf DEF SameShape
<1> QED BY <1>1 DEF SameShape, Children

\* Trees of the same shape have the same scopes around a scope.
LEMMA SameAncestors ==
  ASSUME NEW sc, NEW sd, SameShape(sc, sd)
  PROVE  \A s \in DOMAIN sc : Ancestors(sc, s) = Ancestors(sd, s)
<1> DEFINE T == {s \in DOMAIN sc : Ancestors(sc, s) = Ancestors(sd, s)}
<1>1. Tree(sc) /\ Tree(sd) /\ DOMAIN sc = DOMAIN sd /\ \A c \in DOMAIN sc : sc[c].prev = sd[c].prev
  BY SameChildren DEF SameShape
<1>2. 1 \in DOMAIN sc
  BY <1>1, TreeOf
<1>3. 1 \in T
  BY <1>1, <1>2, AncestorIs
<1>4. ASSUME NEW c \in DOMAIN sc, c # 1, sc[c].prev \in T PROVE c \in T
  <2>1. Ancestors(sc, sc[c].prev) = Ancestors(sd, sd[c].prev) /\ sc[c].prev = sd[c].prev
    BY <1>1, <1>4
  <2>2. Ancestors(sc, c) = {c} \cup (IF sc[c].prev = 0 THEN {} ELSE Ancestors(sc, sc[c].prev))
    BY <1>1, AncestorsStep
  <2>3. Ancestors(sd, c) = {c} \cup (IF sd[c].prev = 0 THEN {} ELSE Ancestors(sd, sd[c].prev))
    BY <1>1, AncestorsStep
  <2>4. Ancestors(sc, c) = Ancestors(sd, c)
    BY <2>1, <2>2, <2>3
  <2> QED BY <2>4
<1>5. \A s \in DOMAIN sc : s \in T
  <2> HIDE DEF T
  <2> QED BY <1>1, <1>3, <1>4, Inwards
<1> QED BY <1>5

----------------------------------------------------------------------------
(* Sizes of scopes *)

\* A finite set of numbers has a largest one.
LEMMA LargestOf ==
  ASSUME NEW T \in SUBSET Nat, IsFiniteSet(T), T # {}
  PROVE  Largest(T) \in T /\ \A m \in T : m <= Largest(T)
<1>1. \E n \in T : \A m \in T : m <= n
  BY Greatest
<1> QED BY <1>1 DEF Largest

Inside(sc, s) == {0} \cup {max_scope_size(sc, d) : d \in Children(sc, s)}
Inner(sc, s) == Largest(Inside(sc, s))

\* A scope has finitely many scopes inside.
LEMMA FewChildren ==
  ASSUME NEW sc, Tree(sc), NEW s, NEW f
  PROVE  IsFiniteSet({0} \cup {f[d] : d \in Children(sc, s)})
<1>1. Len(sc) \in Nat /\ DOMAIN sc = 1 .. Len(sc)
  BY TreeOf
<1>2. IsFiniteSet(1 .. Len(sc))
  BY <1>1, FS_Interval
<1>3. IsFiniteSet(Children(sc, s))
  <2>1. Children(sc, s) \subseteq 1 .. Len(sc)
    BY <1>1 DEF Children
  <2> QED BY <1>2, <2>1, FS_Subset
<1> DEFINE C == Children(sc, s)
           W == {f[d] : d \in C}
<1>4. IsFiniteSet(W)
  <2> DEFINE g == [d \in C |-> f[d]]
  <2>1. IsFiniteSet(C)
    BY <1>3
  <2> HIDE DEF C
  <2>2. g \in Surjection(C, W)
    BY DEF Surjection
  <2> HIDE DEF g, W
  <2> QED BY <2>1, <2>2, FS_Surjection
<1>5. IsFiniteSet({0})
  BY FS_Singleton
<1> HIDE DEF W
<1>6. IsFiniteSet({0} \cup W)
  BY <1>4, <1>5, FS_Union
<1> QED BY <1>6 DEF W

\* The extent of a scope is its size and that of the largest scope inside.
LEMMA MaxStep ==
  ASSUME NEW sc, Tree(sc)
  PROVE  \A s \in DOMAIN sc : /\ max_scope_size(sc, s) = sc[s].size + Inner(sc, s)
                              /\ max_scope_size(sc, s) \in Nat
<1> DEFINE n == Len(sc)
           FromInside(g, c) == {0} \cup {g[d] : d \in Children(sc, c)}
           step == [p \in [1 .. n -> Nat] \X (1 .. n) |-> sc[p[2]].size + Largest(FromInside(p[1], p[2]))]
           Body(g) == [c \in DOMAIN sc |-> sc[c].size + Largest({0} \cup {g[d] : d \in Children(sc, c)})]
           f == CHOOSE g : g = Body(g)
<1>1. n \in Nat /\ DOMAIN sc = 1 .. n
  BY TreeOf
<1> HIDE DEF n
<1>2. ASSUME NEW c \in 1 .. n, NEW d \in Children(sc, c) PROVE d \in c + 1 .. n /\ d \in 1 .. n
  BY <1>1, ChildOf
<1>3. ASSUME NEW g, NEW c \in 1 .. n, \A d \in Children(sc, c) : g[d] \in Nat
      PROVE  sc[c].size + Largest(FromInside(g, c)) \in Nat
  <2>1. FromInside(g, c) \in SUBSET Nat /\ FromInside(g, c) # {}
    BY <1>3
  <2>2. IsFiniteSet(FromInside(g, c))
    BY FewChildren
  <2>3. Largest(FromInside(g, c)) \in Nat
    <3> DEFINE V == FromInside(g, c)
    <3>1. V \in SUBSET Nat /\ V # {} /\ IsFiniteSet(V)
      BY <2>1, <2>2
    <3> HIDE DEF V
    <3>2. Largest(V) \in V
      BY <3>1, LargestOf
    <3>3. Largest(V) \in Nat
      BY <3>1, <3>2
    <3> QED BY <3>3 DEF V
  <2>4. sc[c].size \in Nat
    BY <1>1, ScopeOf
  <2> HIDE DEF FromInside
  <2> QED BY <2>3, <2>4
<1>4. step \in Courses(Nat, n)
  <2>1. ASSUME NEW g \in [1 .. n -> Nat], NEW i \in 1 .. n
        PROVE  sc[i].size + Largest(FromInside(g, i)) \in Nat
    <3>1. \A d \in Children(sc, i) : g[d] \in Nat
      BY <1>2
    <3> HIDE DEF FromInside
    <3> QED BY <1>3, <3>1
  <2> HIDE DEF FromInside
  <2> QED BY <2>1 DEF Courses
<1>5. \A g, h \in [1 .. n -> Nat] : \A i \in 1 .. n :
         (\A j \in i + 1 .. n : g[j] = h[j]) => step[<<g, i>>] = step[<<h, i>>]
  <2> SUFFICES ASSUME NEW g \in [1 .. n -> Nat], NEW h \in [1 .. n -> Nat], NEW i \in 1 .. n,
                      \A j \in i + 1 .. n : g[j] = h[j]
               PROVE  step[<<g, i>>] = step[<<h, i>>]
    OBVIOUS
  <2>1. \A d \in Children(sc, i) : g[d] = h[d]
    BY <1>2
  <2>2. FromInside(g, i) = FromInside(h, i)
    BY <2>1
  <2> HIDE DEF FromInside
  <2>3. step[<<g, i>>] = sc[i].size + Largest(FromInside(g, i))
    OBVIOUS
  <2>4. step[<<h, i>>] = sc[i].size + Largest(FromInside(h, i))
    OBVIOUS
  <2> HIDE DEF step
  <2> QED BY <2>2, <2>3, <2>4
<1>6. PICK g \in [1 .. n -> Nat] : Course(g, n, step)
  <2> DEFINE S == Nat
  <2>1. S # {} /\ step \in Courses(S, n)
    BY <1>4
  <2>2. \A u, h \in [1 .. n -> S] : \A i \in 1 .. n :
          (\A j \in i + 1 .. n : u[j] = h[j]) => step[<<u, i>>] = step[<<h, i>>]
    BY <1>5
  <2> HIDE DEF S, step
  <2>3. \E u \in [1 .. n -> S] : Course(u, n, step)
    BY <1>1, <2>1, <2>2, CourseDown
  <2> QED BY <2>3 DEF S
<1>7. g = Body(g)
  <2>1. ASSUME NEW i \in 1 .. n
        PROVE  g[i] = sc[i].size + Largest({0} \cup {g[d] : d \in Children(sc, i)})
    <3>1. g[i] = step[<<g, i>>]
      BY <1>6 DEF Course
    <3>2. step[<<g, i>>] = sc[i].size + Largest(FromInside(g, i))
      <4> HIDE DEF FromInside
      <4> QED OBVIOUS
    <3> HIDE DEF step
    <3> QED BY <3>1, <3>2
  <2>2. g = [i \in 1 .. n |-> g[i]]
    OBVIOUS
  <2> QED BY <1>1, <2>1, <2>2, Zenon
<1>8. f = Body(f)
  <2> HIDE DEF Body
  <2> QED BY <1>7
<1>9. \A c : max_scope_size(sc, c) = f[c]
  BY DEF max_scope_size
<1> HIDE DEF f
<1>10. \A c \in DOMAIN sc : f[c] = sc[c].size + Largest({0} \cup {f[d] : d \in Children(sc, c)})
  BY <1>8
<1> HIDE DEF Body
<1>11. \A c \in DOMAIN sc : max_scope_size(sc, c) = sc[c].size + Inner(sc, c)
  <2> SUFFICES ASSUME NEW c \in DOMAIN sc
               PROVE  max_scope_size(sc, c) = sc[c].size + Inner(sc, c)
    OBVIOUS
  <2>1. {f[d] : d \in Children(sc, c)} = {max_scope_size(sc, d) : d \in Children(sc, c)}
    BY <1>9
  <2> QED BY <1>9, <1>10, <2>1 DEF Inner, Inside
<1> DEFINE T == {c \in DOMAIN sc : f[c] \in Nat}
<1>12. ASSUME NEW c \in DOMAIN sc, \A d \in Children(sc, c) : d \in T PROVE c \in T
  <2>1. sc[c].size + Largest(FromInside(f, c)) \in Nat
    <3>1. c \in 1 .. n /\ \A d \in Children(sc, c) : f[d] \in Nat
      BY <1>1, <1>12
    <3> HIDE DEF FromInside
    <3> QED BY <1>3, <3>1
  <2>2. f[c] = sc[c].size + Largest(FromInside(f, c))
    BY <1>10
  <2> HIDE DEF FromInside
  <2> QED BY <2>1, <2>2
<1>13. \A c \in DOMAIN sc : c \in T
  <2> HIDE DEF T
  <2> QED BY <1>12, Outwards
<1> QED BY <1>9, <1>11, <1>13

\* What is inside of a scope: the largest of the scopes in it.
LEMMA InnerIs ==
  ASSUME NEW sc, Tree(sc), NEW s \in DOMAIN sc
  PROVE  /\ Inner(sc, s) \in Nat
         /\ \A d \in Children(sc, s) : max_scope_size(sc, d) <= Inner(sc, s)
         /\ Children(sc, s) = {} => Inner(sc, s) = 0
<1> DEFINE V == Inside(sc, s)
<1>1. V \in SUBSET Nat /\ V # {} /\ 0 \in V
  <2>1. \A d \in Children(sc, s) : max_scope_size(sc, d) \in Nat
    BY MaxStep, ChildOf
  <2> QED BY <2>1 DEF Inside
<1>2. IsFiniteSet(V)
  <2> DEFINE f == [d \in DOMAIN sc |-> max_scope_size(sc, d)]
  <2>1. \A d \in Children(sc, s) : f[d] = max_scope_size(sc, d)
    BY ChildOf
  <2> HIDE DEF f
  <2>2. V = {0} \cup {f[d] : d \in Children(sc, s)}
    BY <2>1 DEF Inside
  <2> QED BY <2>2, FewChildren
<1>3. \A d \in Children(sc, s) : max_scope_size(sc, d) \in V
  BY DEF Inside
<1>4. Children(sc, s) = {} => V = {0}
  BY DEF Inside
<1> HIDE DEF V
<1>5. Largest(V) \in V /\ \A m \in V : m <= Largest(V)
  BY <1>1, <1>2, LargestOf
<1>6. Inner(sc, s) = Largest(V)
  BY DEF Inner, V
<1> QED BY <1>1, <1>3, <1>4, <1>5, <1>6

\* The same for one scope.
LEMMA MaxIs ==
  ASSUME NEW sc, Tree(sc), NEW s \in DOMAIN sc
  PROVE  /\ max_scope_size(sc, s) \in Nat /\ Inner(sc, s) \in Nat /\ sc[s].size \in Nat
         /\ max_scope_size(sc, s) = sc[s].size + Inner(sc, s)
BY MaxStep, InnerIs, ScopeOf

\* A scope fits into every scope around it.
LEMMA Nested ==
  ASSUME NEW sc, Tree(sc)
  PROVE  \A s \in DOMAIN sc : \A a \in Ancestors(sc, s) :
            a # s => max_scope_size(sc, s) <= Inner(sc, a)
<1> DEFINE Good(s) == \A a \in Ancestors(sc, s) : a # s => max_scope_size(sc, s) <= Inner(sc, a)
           T == {s \in DOMAIN sc : Good(s)}
<1>1. 1 \in DOMAIN sc
  BY TreeOf
<1>2. 1 \in T
  BY <1>1, AncestorIs
<1>3. ASSUME NEW c \in DOMAIN sc, c # 1, sc[c].prev \in T PROVE c \in T
  <2> DEFINE p == sc[c].prev
  <2>1. p \in DOMAIN sc /\ c \in Children(sc, p)
    BY <1>3, PrevOf DEF Children
  <2>2. max_scope_size(sc, c) <= Inner(sc, p) /\ max_scope_size(sc, c) \in Nat
    BY <2>1, InnerIs, MaxIs
  <2>3. Inner(sc, p) <= max_scope_size(sc, p) /\ Inner(sc, p) \in Nat /\ max_scope_size(sc, p) \in Nat
    BY <2>1, MaxIs
  <2>4. ASSUME NEW a \in Ancestors(sc, c), a # c PROVE max_scope_size(sc, c) <= Inner(sc, a)
    <3>1. a \in Ancestors(sc, p)
      BY <2>4, AncestorIs
    <3>2. a \in DOMAIN sc
      BY <2>1, <3>1, AncestorsBefore
    <3>3. Inner(sc, a) \in Nat
      BY <3>2, InnerIs
    <3>4. a = p \/ max_scope_size(sc, p) <= Inner(sc, a)
      BY <1>3, <3>1
    <3> HIDE DEF p
    <3> QED BY <2>2, <2>3, <3>3, <3>4
  <2> QED BY <2>4
<1>4. \A s \in DOMAIN sc : s \in T
  <2> HIDE DEF T
  <2> QED BY <1>2, <1>3, Inwards
<1> QED BY <1>4

\* A change of the sizes of some scopes is of no matter to the scopes they are not in.
LEMMA SameMax ==
  ASSUME NEW sc, NEW sd, SameShape(sc, sd), NEW R,
         \A c \in DOMAIN sc : c \in R \/ sc[c].size = sd[c].size,
         \A c \in DOMAIN sc : c \in R /\ c # 1 => sc[c].prev \in R
  PROVE  /\ \A s \in DOMAIN sc : s \in R \/ max_scope_size(sc, s) = max_scope_size(sd, s)
         /\ \A s \in DOMAIN sc : (\A d \in Children(sc, s) : d \notin R) => Inner(sc, s) = Inner(sd, s)
<1>1. Tree(sc) /\ Tree(sd) /\ DOMAIN sc = DOMAIN sd /\ \A s : Children(sc, s) = Children(sd, s)
  BY SameChildren DEF SameShape
<1> DEFINE T == {s \in DOMAIN sc : s \in R \/ max_scope_size(sc, s) = max_scope_size(sd, s)}
<1>2. ASSUME NEW s \in DOMAIN sc, \A d \in Children(sc, s) : d \in T,
             \A d \in Children(sc, s) : d \notin R
      PROVE  Inner(sc, s) = Inner(sd, s)
  <2>1. \A d \in Children(sc, s) : max_scope_size(sc, d) = max_scope_size(sd, d)
    BY <1>2
  <2>2. Inside(sc, s) = Inside(sd, s)
    BY <1>1, <2>1 DEF Inside
  <2> QED BY <2>2 DEF Inner
<1>3. ASSUME NEW s \in DOMAIN sc, \A d \in Children(sc, s) : d \in T PROVE s \in T
  <2>1. CASE s \in R
    BY <2>1
  <2>2. CASE s \notin R
    <3>1. \A d \in Children(sc, s) : d \notin R
      BY <1>1, <2>2, ChildOf
    <3>2. Inner(sc, s) = Inner(sd, s)
      <4> HIDE DEF T
      <4> QED BY <1>2, <1>3, <3>1
    <3>3. sc[s].size = sd[s].size
      BY <2>2
    <3> QED BY <1>1, <3>2, <3>3, MaxIs
  <2> QED BY <2>1, <2>2
<1>4. \A s \in DOMAIN sc : s \in T
  <2> HIDE DEF T
  <2> QED BY <1>1, <1>3, Outwards
<1>5. \A s \in DOMAIN sc : \A d \in Children(sc, s) : d \in T
  <2> HIDE DEF T
  <2> QED BY <1>1, <1>4, ChildOf
<1>6. ASSUME NEW s \in DOMAIN sc, \A d \in Children(sc, s) : d \notin R
      PROVE  Inner(sc, s) = Inner(sd, s)
  <2> HIDE DEF T
  <2> QED BY <1>2, <1>5, <1>6
<1> QED BY <1>4, <1>6

----------------------------------------------------------------------------
(* Records of a scope *)

Listed(rs, recs) == recs \in Seq(Nat) /\ \A i \in DOMAIN recs : recs[i] \in DOMAIN rs
SizesOf(rs, recs) == [i \in DOMAIN recs |-> entry_size(rs[recs[i]].type)]

\* The sizes of the records of a scope are numbers, and add up to that of
\* its records.
LEMMA SizesOfNat ==
  ASSUME NEW rs, NEW recs, IsList(rs), Listed(rs, recs)
  PROVE  /\ Len(recs) \in Nat /\ DOMAIN recs = 1 .. Len(recs)
         /\ SizesOf(rs, recs) \in Seq(Nat) /\ Len(SizesOf(rs, recs)) = Len(recs)
         /\ RecsSize(rs, recs) = Total(SizesOf(rs, recs)) /\ RecsSize(rs, recs) \in Nat
         /\ \A i \in DOMAIN recs : /\ SizesOf(rs, recs)[i] = entry_size(rs[recs[i]].type)
                                   /\ entry_size(rs[recs[i]].type) \in Nat
<1>1. Len(recs) \in Nat /\ DOMAIN recs = 1 .. Len(recs) /\ \A i \in DOMAIN recs : recs[i] \in DOMAIN rs
  BY DEF Listed
<1>2. \A i \in DOMAIN recs : entry_size(rs[recs[i]].type) \in Nat
  BY <1>1, EntryNat DEF IsList, IsRecord
<1>3. SizesOf(rs, recs) \in Seq(Nat) /\ Len(SizesOf(rs, recs)) = Len(recs)
  BY <1>1, <1>2 DEF SizesOf
<1>4. RecsSize(rs, recs) = Total(SizesOf(rs, recs))
  BY DEF RecsSize, SizesOf
<1>5. Total(SizesOf(rs, recs)) \in Nat
  BY <1>3, UptoAll
<1>6. \A i \in DOMAIN recs : SizesOf(rs, recs)[i] = entry_size(rs[recs[i]].type)
  BY DEF SizesOf
<1> QED BY <1>1, <1>2, <1>3, <1>4, <1>5, <1>6

\* Records of the same types take the same space.
LEMMA SameTypes ==
  ASSUME NEW rs, NEW rt, NEW recs,
         \A i \in DOMAIN recs : rs[recs[i]].type = rt[recs[i]].type
  PROVE  SizesOf(rs, recs) = SizesOf(rt, recs) /\ RecsSize(rs, recs) = RecsSize(rt, recs)
<1>1. SizesOf(rs, recs) = SizesOf(rt, recs)
  BY DEF SizesOf
<1>2. RecsSize(rs, recs) = Total(SizesOf(rs, recs)) /\ RecsSize(rt, recs) = Total(SizesOf(rt, recs))
  BY DEF RecsSize, SizesOf
<1> QED BY <1>1, <1>2

\* Functions on the same numbers with the same values are the same list.
LEMMA SameList ==
  ASSUME NEW S, NEW p \in Seq(S), NEW q \in Seq(S), Len(p) = Len(q),
         \A i \in 1 .. Len(p) : p[i] = q[i]
  PROVE  p = q
OBVIOUS

\* Two lists, one behind the other.
LEMMA Joined ==
  ASSUME NEW S, NEW p \in Seq(S), NEW q \in Seq(S)
  PROVE  /\ p \o q \in Seq(S) /\ Len(p \o q) = Len(p) + Len(q)
         /\ \A i \in 1 .. Len(p) : (p \o q)[i] = p[i]
         /\ \A i \in 1 .. Len(q) : (p \o q)[Len(p) + i] = q[i]
OBVIOUS

\* The beginning of a list.
LEMMA First ==
  ASSUME NEW S, NEW p \in Seq(S), NEW k \in 0 .. Len(p)
  PROVE  /\ SubSeq(p, 1, k) \in Seq(S) /\ Len(SubSeq(p, 1, k)) = k
         /\ \A i \in 1 .. k : SubSeq(p, 1, k)[i] = p[i]
OBVIOUS

\* The first records of a scope take what their sizes add up to.
LEMMA FirstSizes ==
  ASSUME NEW rs, NEW recs, IsList(rs), Listed(rs, recs), NEW k \in 0 .. Len(recs)
  PROVE  RecsSize(rs, SubSeq(recs, 1, k)) = Upto(SizesOf(rs, recs), k)
<1> DEFINE first == SubSeq(recs, 1, k)
           sizes == SizesOf(rs, recs)
           upto == SubSeq(sizes, 1, k)
<1>1. /\ Len(recs) \in Nat /\ DOMAIN recs = 1 .. Len(recs) /\ sizes \in Seq(Nat) /\ Len(sizes) = Len(recs)
      /\ \A i \in 1 .. Len(recs) : sizes[i] = entry_size(rs[recs[i]].type)
  BY SizesOfNat
<1>2. recs \in Seq(Nat) /\ \A i \in 1 .. Len(recs) : recs[i] \in DOMAIN rs
  BY <1>1 DEF Listed
<1>3. /\ first \in Seq(Nat) /\ Len(first) = k /\ DOMAIN first = 1 .. k
      /\ \A i \in 1 .. k : first[i] = recs[i]
  BY <1>2, First
<1>9. k \in Nat /\ \A i \in 1 .. k : i \in 1 .. Len(recs)
  BY <1>1
<1> HIDE DEF sizes
<1>4. /\ upto \in Seq(Nat) /\ Len(upto) = k
      /\ \A i \in 1 .. k : upto[i] = sizes[i]
  BY <1>1, First
<1> HIDE DEF first, upto
<1>5. Listed(rs, first)
  BY <1>2, <1>3, <1>9 DEF Listed
<1>6. /\ SizesOf(rs, first) \in Seq(Nat) /\ Len(SizesOf(rs, first)) = k
      /\ RecsSize(rs, first) = Total(SizesOf(rs, first))
      /\ \A i \in 1 .. k : SizesOf(rs, first)[i] = entry_size(rs[first[i]].type)
  BY <1>3, <1>5, SizesOfNat
<1>7. \A i \in 1 .. k : SizesOf(rs, first)[i] = upto[i]
  BY <1>1, <1>3, <1>4, <1>6, <1>9
<1>8. SizesOf(rs, first) = upto
  BY <1>4, <1>6, <1>7, SameList
<1> QED BY <1>6, <1>8 DEF Upto, upto, first, sizes

\* The records of two scopes take the space of both.
LEMMA BothListed ==
  ASSUME NEW rs, NEW p, NEW q, IsList(rs), Listed(rs, p), Listed(rs, q)
  PROVE  /\ Listed(rs, p \o q) /\ Len(p \o q) = Len(p) + Len(q)
         /\ \A i \in 1 .. Len(p) : (p \o q)[i] = p[i]
         /\ \A i \in 1 .. Len(q) : (p \o q)[Len(p) + i] = q[i]
         /\ RecsSize(rs, p \o q) = RecsSize(rs, p) + RecsSize(rs, q)
<1> DEFINE all == p \o q
           n == Len(p)
           m == Len(q)
           a == SizesOf(rs, p)
           b == SizesOf(rs, q)
           both == a \o b
           Size(r) == entry_size(rs[r].type)
           N == Nat
<1>1. /\ p \in Seq(N) /\ q \in Seq(N) /\ n \in Nat /\ m \in Nat
      /\ DOMAIN p = 1 .. n /\ DOMAIN q = 1 .. m
      /\ \A i \in 1 .. n : p[i] \in DOMAIN rs
      /\ \A i \in 1 .. m : q[i] \in DOMAIN rs
  BY DEF Listed
<1>2. /\ a \in Seq(N) /\ b \in Seq(N) /\ Len(a) = n /\ Len(b) = m
      /\ \A i \in 1 .. n : a[i] = Size(p[i])
      /\ \A i \in 1 .. m : b[i] = Size(q[i])
      /\ RecsSize(rs, p) = Total(a) /\ RecsSize(rs, q) = Total(b)
  BY <1>1, SizesOfNat
<1> HIDE DEF a, b, N
<1>3. /\ all \in Seq(N) /\ Len(all) = n + m
      /\ \A i \in 1 .. n : all[i] = p[i]
      /\ \A i \in 1 .. m : all[n + i] = q[i]
  BY <1>1, Joined
<1>4. /\ both \in Seq(N) /\ Len(both) = n + m
      /\ \A i \in 1 .. n : both[i] = a[i]
      /\ \A i \in 1 .. m : both[n + i] = b[i]
  <2> HIDE DEF n, m, all, Size
  <2>1. /\ both \in Seq(N) /\ Len(both) = Len(a) + Len(b)
        /\ \A i \in 1 .. Len(a) : both[i] = a[i]
        /\ \A i \in 1 .. Len(b) : both[Len(a) + i] = b[i]
    BY <1>2, Joined
  <2> HIDE DEF both
  <2> QED BY <1>2, <2>1
<1> HIDE DEF all, n, m, both, Size
<1>5. ASSUME NEW i \in 1 .. n + m
      PROVE  i \in 1 .. n \/ \E j \in 1 .. m : i = n + j
  <2>1. i \in 1 .. n \/ (i - n \in 1 .. m /\ n + (i - n) = i)
    BY <1>1
  <2> QED BY <2>1
<1>6. DOMAIN all = 1 .. n + m /\ \A i \in 1 .. m : n + i \in 1 .. n + m
  BY <1>1, <1>3 DEF N
<1>7. Listed(rs, all)
  <2>1. \A i \in 1 .. n + m : all[i] \in DOMAIN rs
    BY <1>1, <1>3, <1>5
  <2> QED BY <1>3, <1>6, <2>1 DEF Listed, N
<1>8. /\ SizesOf(rs, all) \in Seq(N) /\ Len(SizesOf(rs, all)) = n + m
      /\ RecsSize(rs, all) = Total(SizesOf(rs, all))
      /\ \A i \in 1 .. n + m : SizesOf(rs, all)[i] = Size(all[i])
  BY <1>3, <1>6, <1>7, SizesOfNat DEF N, Size
<1>9. \A i \in 1 .. n + m : SizesOf(rs, all)[i] = both[i]
  <2>1. \A i \in 1 .. n : SizesOf(rs, all)[i] = both[i]
    <3>1. \A i \in 1 .. n : i \in 1 .. n + m
      BY <1>1
    <3> QED BY <1>2, <1>3, <1>4, <1>8, <3>1
  <2>2. \A i \in 1 .. m : SizesOf(rs, all)[n + i] = both[n + i]
    BY <1>2, <1>3, <1>4, <1>6, <1>8
  <2> QED BY <1>5, <2>1, <2>2
<1>10. SizesOf(rs, all) = both
  BY <1>4, <1>8, <1>9, SameList
<1>11. Total(both) = Total(a) + Total(b)
  BY <1>2, TotalConcat DEF both, N
<1>12. RecsSize(rs, all) = RecsSize(rs, p) + RecsSize(rs, q)
  BY <1>2, <1>8, <1>10, <1>11
<1> QED BY <1>3, <1>7, <1>12 DEF all, n, m

\* Records that are added get the next numbers.
LEMMA NumbersOfNew ==
  ASSUME IsList(records), NEW new, IsList(new)
  PROVE  LET all == records \o new
         IN  /\ Listed(all, NewIds(Len(new)))
             /\ RecsSize(all, NewIds(Len(new))) = Total(Sizes(new))
             /\ Len(NewIds(Len(new))) = Len(new)
             /\ \A i \in 1 .. Len(new) : NewIds(Len(new))[i] = Len(records) + i
<1> DEFINE n == Len(records)
           m == Len(new)
           ids == NewIds(m)
           all == records \o new
<1>1. n \in Nat /\ m \in Nat /\ DOMAIN new = 1 .. m
  BY ListOf
<1>2. /\ IsList(all) /\ Len(all) = n + m
      /\ \A i \in 1 .. m : all[n + i] = new[i]
  BY JoinedLists
<1>3. DOMAIN all = 1 .. n + m
  BY <1>2, ListOf
<1>4. ids = [i \in 1 .. m |-> n + i]
  BY DEF NewIds
<1> HIDE DEF n, m, ids, all
<1>5. /\ ids \in Seq(Nat) /\ Len(ids) = m /\ DOMAIN ids = 1 .. m
      /\ \A i \in 1 .. m : ids[i] = n + i /\ n + i \in 1 .. n + m
  BY <1>1, <1>4
<1>6. Listed(all, ids)
  BY <1>3, <1>5 DEF Listed
<1>7. SizesOf(all, ids) = [i \in 1 .. m |-> entry_size(new[i].type)]
  BY <1>2, <1>5 DEF SizesOf
<1>8. SizesOf(all, ids) = Sizes(new)
  BY <1>1, <1>7 DEF Sizes
<1>9. RecsSize(all, ids) = Total(SizesOf(all, ids))
  BY <1>2, <1>6, SizesOfNat
<1> QED BY <1>5, <1>6, <1>8, <1>9 DEF all, ids, m, n

----------------------------------------------------------------------------
(* Copying a scope *)

\* Every scope has records that exist and is at least as large as they are.
Sound(sc, rs) ==
  /\ Tree(sc) /\ IsList(rs)
  /\ \A s \in DOMAIN sc : Listed(rs, sc[s].recs) /\ RecsSize(rs, sc[s].recs) <= sc[s].size

SameBut(sc, sd, dest) ==
  /\ SameShape(sc, sd)
  /\ \A s \in DOMAIN sc : s = dest \/ sd[s] = sc[s]
  /\ \A i \in DOMAIN sc[dest].recs :
        i \in DOMAIN sd[dest].recs /\ sd[dest].recs[i] = sc[dest].recs[i]

Retyped(rs, rt) ==
  DOMAIN rs = DOMAIN rt /\ \A r \in DOMAIN rs : rs[r].type = rt[r].type /\ rs[r].need = rt[r].need

\* Copies change the records and the size of one scope, and offsets.
Copied(sc, rs, sd, rt, dest) == Sound(sd, rt) /\ SameBut(sc, sd, dest) /\ Retyped(rs, rt)

Occurs(recs, r) == Cardinality({i \in DOMAIN recs : recs[i] = r})

\* A record occurs in a list a number of times.
LEMMA OccursNat ==
  ASSUME NEW recs, DOMAIN recs = 1 .. Len(recs), Len(recs) \in Nat, NEW r
  PROVE  Occurs(recs, r) \in Nat
<1> DEFINE I == {i \in DOMAIN recs : recs[i] = r}
<1>1. IsFiniteSet(1 .. Len(recs))
  BY FS_Interval
<1>2. I \subseteq 1 .. Len(recs)
  OBVIOUS
<1>3. IsFiniteSet(I)
  <2> HIDE DEF I
  <2> QED BY <1>1, <1>2, FS_Subset
<1>4. Cardinality(I) \in Nat
  <2> HIDE DEF I
  <2> QED BY <1>3, FS_CardinalityType
<1> QED BY <1>4 DEF Occurs

Widened(sc, rs, src, dest) == CopyScope(sc, rs, src, dest).scopes
Shifted(sc, rs, src, dest) == CopyScope(sc, rs, src, dest).records

\* CopyScope appends the records of one scope to another, which grows by
\* them.
LEMMA CopiedScopes ==
  ASSUME NEW sc, NEW rs, Sound(sc, rs), NEW src \in DOMAIN sc, NEW dest \in DOMAIN sc
  PROVE  /\ SameBut(sc, Widened(sc, rs, src, dest), dest)
         /\ Widened(sc, rs, src, dest)[dest].recs = sc[dest].recs \o sc[src].recs
         /\ Widened(sc, rs, src, dest)[dest].size = sc[dest].size + RecsSize(rs, sc[src].recs)
<1> DEFINE recs == sc[src].recs
           old == sc[dest]
           list == old.recs
           all == list \o recs
           more == RecsSize(rs, recs)
           new == Scope(old.func, old.prev, all, old.size + more)
           sd == Widened(sc, rs, src, dest)
           N == Nat
<1>1. Tree(sc) /\ sc \in Seq(ScopeSet) /\ Listed(rs, recs) /\ IsList(rs) /\ Listed(rs, list)
  BY DEF Sound, Tree
<1>3. sd = [sc EXCEPT ![dest] = new]
  BY DEF CopyScope, Widened, Extended
<1>4. list \in Seq(N) /\ recs \in Seq(N) /\ Len(list) \in Nat /\ Len(recs) \in Nat
      /\ DOMAIN list = 1 .. Len(list)
  BY <1>1 DEF Listed
<1>41. old.func \in FuncNames /\ old.prev \in Nat
  BY <1>1, ScopeOf
<1>42. old.size + more \in Nat
  <2>1. old.size \in Nat /\ more \in Nat
    BY <1>1, ScopeOf, SizesOfNat
  <2> HIDE DEF more, old
  <2> QED BY <2>1
<1>50. old = sc[dest] /\ list = old.recs
  OBVIOUS
<1> HIDE DEF old, recs, more, N
<1>6. /\ all \in Seq(N) /\ Len(all) = Len(list) + Len(recs)
      /\ \A i \in 1 .. Len(list) : all[i] = list[i]
  <2> HIDE DEF list
  <2> QED BY <1>4, Joined
<1> HIDE DEF all, new
<1> HIDE DEF list
<1>7. new = [func |-> old.func, prev |-> old.prev, recs |-> all, size |-> old.size + more]
  BY DEF Scope, new
<1>8. new \in ScopeSet
  <2> HIDE DEF new
  <2> QED BY <1>41, <1>42, <1>6, <1>7 DEF ScopeSet, N
<1> HIDE DEF sd
<1>9. sd \in Seq(ScopeSet) /\ Len(sd) = Len(sc) /\ sd[dest] = new
      /\ \A s \in DOMAIN sc : s # dest => sd[s] = sc[s]
  BY <1>1, <1>3, <1>8
<1>10. \A s \in DOMAIN sc : sd[s].prev = sc[s].prev /\ sd[s].func = sc[s].func
  BY <1>7, <1>9, <1>50
<1>11. Len(sc) \in Nat \ {0} /\ DOMAIN sc = 1 .. Len(sc) /\ DOMAIN sd = 1 .. Len(sc)
  BY <1>1, <1>9, TreeOf
<1>12. Tree(sd)
  <2>1. sd # <<>>
    BY <1>9, <1>11
  <2>2. sc[1].prev = 0 /\ \A c \in 2 .. Len(sc) : sc[c].prev \in 1 .. c - 1
    BY <1>1 DEF Tree
  <2>3. \A c \in 2 .. Len(sc) : c \in DOMAIN sc
    BY <1>11
  <2>4. 1 \in DOMAIN sc
    BY <1>11
  <2> QED BY <1>9, <1>10, <2>1, <2>2, <2>3, <2>4 DEF Tree
<1>13. SameShape(sc, sd)
  BY <1>1, <1>9, <1>10, <1>12 DEF SameShape
<1>14. ASSUME NEW i \in DOMAIN list PROVE i \in DOMAIN all /\ all[i] = list[i]
  <2>1. Len(list) \in Nat /\ Len(recs) \in Nat /\ i \in 1 .. Len(list)
    BY <1>4, <1>14
  <2>2. DOMAIN all = 1 .. Len(list) + Len(recs)
    BY <1>6
  <2> QED BY <1>6, <2>1, <2>2
<1>15. sd[dest].recs = all /\ sd[dest].size = old.size + more
  BY <1>7, <1>9
<1>16. SameBut(sc, sd, dest)
  <2>1. \A i \in DOMAIN sc[dest].recs :
          i \in DOMAIN sd[dest].recs /\ sd[dest].recs[i] = sc[dest].recs[i]
    BY <1>14, <1>15, <1>50
  <2> QED BY <1>9, <1>13, <2>1 DEF SameBut
<1> QED BY <1>15, <1>16 DEF sd, recs, all, list, old, more

\* CopyScope moves the records it copies by the extent of the scope they go
\* to.
LEMMA CopiedRecords ==
  ASSUME NEW sc, NEW rs, Sound(sc, rs), NEW src \in DOMAIN sc, NEW dest \in DOMAIN sc
  PROVE  /\ IsList(Shifted(sc, rs, src, dest)) /\ Retyped(rs, Shifted(sc, rs, src, dest))
         /\ \A r \in DOMAIN rs :
               Shifted(sc, rs, src, dest)[r].offset =
                  rs[r].offset + max_scope_size(sc, dest) * Occurs(sc[src].recs, r)
<1> DEFINE recs == sc[src].recs
           base == max_scope_size(sc, dest)
           rt == Shifted(sc, rs, src, dest)
<1>1. Tree(sc) /\ Listed(rs, recs) /\ IsList(rs)
  BY DEF Sound
<1>2. rt = [r \in DOMAIN rs |-> [rs[r] EXCEPT !.offset = @ + base * Occurs(recs, r)]]
  BY DEF CopyScope, Occurs, Shifted
<1>3. base \in Nat
  BY <1>1, MaxIs
<1>4. Len(recs) \in Nat /\ DOMAIN recs = 1 .. Len(recs)
  BY <1>1, SizesOfNat
<1>5. ASSUME NEW r \in DOMAIN rs
      PROVE  /\ rt[r] = [type |-> rs[r].type, offset |-> rs[r].offset + base * Occurs(recs, r),
                         need |-> rs[r].need]
             /\ rs[r].offset + base * Occurs(recs, r) \in Nat
             /\ WellSized(rs[r].type)
  <2>1. IsRecord(rs[r])
    BY <1>1 DEF IsList
  <2> DEFINE move == base * Occurs(recs, r)
  <2>2. move \in Nat
    <3>1. Occurs(recs, r) \in Nat
      BY <1>4, OccursNat
    <3> HIDE DEF base
    <3> QED BY <1>3, <3>1, Times
  <2>3. rt[r] = [rs[r] EXCEPT !.offset = @ + move]
    BY <1>2
  <2> HIDE DEF move, rt
  <2>4. rs[r].offset + move \in Nat /\ WellSized(rs[r].type)
    BY <2>1, <2>2 DEF IsRecord
  <2>5. rs[r] = [type |-> rs[r].type, offset |-> rs[r].offset, need |-> rs[r].need]
    BY <2>1 DEF IsRecord
  <2>6. rt[r] = [type |-> rs[r].type, offset |-> rs[r].offset + move, need |-> rs[r].need]
    BY <2>3, <2>5
  <2> QED BY <2>4, <2>6 DEF move
<1>6. DOMAIN rt = DOMAIN rs
  BY <1>2
<1> HIDE DEF rt, recs, base
<1>7. \A r \in DOMAIN rs : IsRecord(rt[r])
  <2> SUFFICES ASSUME NEW r \in DOMAIN rs PROVE IsRecord(rt[r])
    OBVIOUS
  <2> DEFINE o == rs[r].offset + base * Occurs(recs, r)
  <2>1. o \in Nat /\ IsRecord(rs[r])
    BY <1>1, <1>5 DEF IsList
  <2>2. rt[r] = [type |-> rs[r].type, offset |-> o, need |-> rs[r].need]
    BY <1>5
  <2> HIDE DEF o
  <2> QED BY <2>1, <2>2, MovedRecord
<1>8. \E S : rt \in Seq(S)
  <2>1. Len(rs) \in Nat /\ DOMAIN rs = 1 .. Len(rs)
    BY <1>1, ListOf
  <2>2. rt \in [1 .. Len(rs) -> {rt[r] : r \in 1 .. Len(rs)}]
    <3>1. rt = [r \in DOMAIN rs |-> rt[r]]
      BY <1>2
    <3> QED BY <2>1, <3>1
  <2>3. rt \in Seq({rt[r] : r \in 1 .. Len(rs)})
    BY <2>1, <2>2
  <2> QED BY <2>3
<1>9. IsList(rt)
  BY <1>6, <1>7, <1>8 DEF IsList
<1>10. ASSUME NEW r \in DOMAIN rs
       PROVE  rt[r].type = rs[r].type /\ rt[r].need = rs[r].need /\ rt[r].offset = rs[r].offset + base * Occurs(recs, r)
  <2> DEFINE o == rs[r].offset + base * Occurs(recs, r)
  <2>1. rt[r] = [type |-> rs[r].type, offset |-> o, need |-> rs[r].need]
    BY <1>5
  <2> HIDE DEF o
  <2>2. rt[r].type = rs[r].type /\ rt[r].need = rs[r].need /\ rt[r].offset = o
    BY <2>1
  <2> QED BY <2>2 DEF o
<1>11. Retyped(rs, rt)
  BY <1>6, <1>10 DEF Retyped
<1> QED BY <1>9, <1>10, <1>11 DEF rt, recs, base

\* Scopes and records are as they have to be after a scope was copied,
LEMMA CopyKept ==
  ASSUME NEW sc, NEW rs, Sound(sc, rs), NEW src \in DOMAIN sc, NEW dest \in DOMAIN sc
  PROVE  Copied(sc, rs, Widened(sc, rs, src, dest), Shifted(sc, rs, src, dest), dest)
<1> DEFINE sd == Widened(sc, rs, src, dest)
           rt == Shifted(sc, rs, src, dest)
           recs == sc[src].recs
           list == sc[dest].recs
<1>1. /\ SameBut(sc, sd, dest) /\ sd[dest].recs = list \o recs
      /\ sd[dest].size = sc[dest].size + RecsSize(rs, recs)
  BY CopiedScopes
<1>2. IsList(rt) /\ Retyped(rs, rt)
  BY CopiedRecords
<1>3. /\ Tree(sc) /\ IsList(rs) /\ Listed(rs, recs) /\ Listed(rs, list)
      /\ RecsSize(rs, list) <= sc[dest].size
      /\ \A s \in DOMAIN sc : Listed(rs, sc[s].recs) /\ RecsSize(rs, sc[s].recs) <= sc[s].size
  BY DEF Sound
<1>4. Tree(sd) /\ DOMAIN sd = DOMAIN sc
  BY <1>1, SameChildren DEF SameBut, SameShape
<1>5. ASSUME NEW l, Listed(rs, l) PROVE Listed(rt, l) /\ RecsSize(rt, l) = RecsSize(rs, l)
  <2>1. \A i \in DOMAIN l : l[i] \in DOMAIN rs
    BY <1>5 DEF Listed
  <2>2. \A i \in DOMAIN l : l[i] \in DOMAIN rt /\ rs[l[i]].type = rt[l[i]].type
    BY <1>2, <2>1 DEF Retyped
  <2>3. Listed(rt, l)
    BY <1>5, <2>2 DEF Listed
  <2>4. RecsSize(rt, l) = RecsSize(rs, l)
    BY <2>2, SameTypes
  <2> QED BY <2>3, <2>4
<1>6. /\ Listed(rs, list \o recs)
      /\ RecsSize(rs, list \o recs) = RecsSize(rs, list) + RecsSize(rs, recs)
  BY <1>3, BothListed
<1>7. ASSUME NEW s \in DOMAIN sd
      PROVE  Listed(rt, sd[s].recs) /\ RecsSize(rt, sd[s].recs) <= sd[s].size
  <2>1. CASE s = dest
    <3>1. Listed(rt, list \o recs) /\ RecsSize(rt, list \o recs) = RecsSize(rs, list) + RecsSize(rs, recs)
      BY <1>5, <1>6
    <3>2. RecsSize(rs, list) \in Nat /\ RecsSize(rs, recs) \in Nat /\ sc[dest].size \in Nat
      BY <1>3, SizesOfNat, ScopeOf
    <3> DEFINE a == RecsSize(rs, list)
               b == RecsSize(rs, recs)
               c == sc[dest].size
    <3>3. a + b <= c + b
      <4>1. a \in Nat /\ b \in Nat /\ c \in Nat /\ a <= c
        BY <1>3, <3>2
      <4> HIDE DEF a, b, c
      <4> QED BY <4>1
    <3> QED BY <1>1, <2>1, <3>1, <3>3
  <2>2. CASE s # dest
    <3>1. s \in DOMAIN sc /\ sd[s] = sc[s]
      BY <1>1, <1>4, <2>2 DEF SameBut
    <3> QED BY <1>3, <1>5, <3>1
  <2> QED BY <2>1, <2>2
<1>8. Sound(sd, rt)
  BY <1>2, <1>4, <1>7 DEF Sound
<1> QED BY <1>1, <1>2, <1>8 DEF Copied

\* when none is,
LEMMA CopiedSame ==
  ASSUME NEW sc, NEW rs, Sound(sc, rs), NEW dest
  PROVE  Copied(sc, rs, sc, rs, dest)
<1>1. SameShape(sc, sc)
  BY DEF Sound, SameShape
<1> QED BY <1>1 DEF Copied, SameBut, Retyped

\* and when several are.
LEMMA CopiedChain ==
  ASSUME NEW sc, NEW rs, NEW sd, NEW rt, NEW se, NEW ru, NEW dest,
         Copied(sc, rs, sd, rt, dest), Copied(sd, rt, se, ru, dest)
  PROVE  Copied(sc, rs, se, ru, dest)
<1>1. SameBut(sc, sd, dest) /\ SameBut(sd, se, dest) /\ Retyped(rs, rt) /\ Retyped(rt, ru)
  BY DEF Copied
<1>2. SameShape(sc, sd) /\ SameShape(sd, se)
  BY <1>1 DEF SameBut
<1>3. DOMAIN sc = DOMAIN sd /\ DOMAIN sd = DOMAIN se
  BY <1>2, SameChildren
<1>4. SameShape(sc, se)
  BY <1>2, <1>3 DEF SameShape
<1>5. \A s \in DOMAIN sc : s = dest \/ se[s] = sc[s]
  BY <1>1, <1>3 DEF SameBut
<1>6. \A i \in DOMAIN sc[dest].recs :
        i \in DOMAIN se[dest].recs /\ se[dest].recs[i] = sc[dest].recs[i]
  BY <1>1 DEF SameBut
<1>7. SameBut(sc, se, dest)
  BY <1>4, <1>5, <1>6 DEF SameBut
<1>8. Retyped(rs, ru)
  BY <1>1 DEF Retyped
<1> QED BY <1>7, <1>8 DEF Copied

RecordsLike(rs) == [type : {rs[i].type : i \in DOMAIN rs}, offset : Nat,
                    need : {rs[i].need : i \in DOMAIN rs}]

\* What the recursion of copy_locals makes of the scopes and the records
CopyStates(sc, rs, dest) ==
  {acc \in [scopes : Seq(ScopeSet), records : Seq(RecordsLike(rs))] :
      Copied(sc, rs, acc.scopes, acc.records, dest)}

\* What is reached by copying scopes is one of the states of copy_locals.
LEMMA CopyStateOf ==
  ASSUME NEW sc, NEW rs, NEW sd, NEW rt, NEW dest, Copied(sc, rs, sd, rt, dest)
  PROVE  [scopes |-> sd, records |-> rt] \in CopyStates(sc, rs, dest)
<1>1. IsList(rt) /\ Retyped(rs, rt) /\ sd \in Seq(ScopeSet)
  BY DEF Copied, Sound, Tree
<1>2. ASSUME NEW r \in DOMAIN rt PROVE rt[r] \in RecordsLike(rs)
  <2>1. IsRecord(rt[r])
    BY <1>1 DEF IsList
  <2>2. r \in DOMAIN rs /\ rt[r].type = rs[r].type /\ rt[r].need = rs[r].need
    BY <1>1 DEF Retyped
  <2> DEFINE A == {rs[i].type : i \in DOMAIN rs}
             B == {rs[i].need : i \in DOMAIN rs}
  <2>3. rt[r].type \in A /\ rt[r].need \in B
    BY <2>2
  <2>4. rt[r].offset \in Nat /\ rt[r] = [type |-> rt[r].type, offset |-> rt[r].offset, need |-> rt[r].need]
    BY <2>1 DEF IsRecord
  <2> HIDE DEF A, B
  <2>5. rt[r] \in [type : A, offset : Nat, need : B]
    BY <2>3, <2>4
  <2> QED BY <2>5 DEF A, B, RecordsLike
<1>3. rt \in Seq(RecordsLike(rs))
  <2> DEFINE R == RecordsLike(rs)
  <2>1. \A r \in DOMAIN rt : rt[r] \in R
    BY <1>2
  <2>2. PICK S : rt \in Seq(S)
    BY <1>1 DEF IsList
  <2> HIDE DEF R
  <2>3. rt \in Seq(R)
    <3>1. Len(rt) \in Nat /\ DOMAIN rt = 1 .. Len(rt) /\ rt = [i \in 1 .. Len(rt) |-> rt[i]]
      BY <2>2
    <3>2. rt \in [1 .. Len(rt) -> R]
      BY <2>1, <3>1
    <3> QED BY <3>1, <3>2
  <2> QED BY <2>3 DEF R
<1> DEFINE acc == [scopes |-> sd, records |-> rt]
<1>4. acc.scopes = sd /\ acc.records = rt
  OBVIOUS
<1>5. acc \in [scopes : Seq(ScopeSet), records : Seq(RecordsLike(rs))]
  BY <1>1, <1>3
<1> QED BY <1>4, <1>5 DEF CopyStates

\* A state of copy_locals is reached by copying scopes.
LEMMA CopyStateIs ==
  ASSUME NEW sc, NEW rs, NEW dest, NEW acc \in CopyStates(sc, rs, dest)
  PROVE  /\ Copied(sc, rs, acc.scopes, acc.records, dest)
         /\ acc = [scopes |-> acc.scopes, records |-> acc.records]
BY DEF CopyStates

CopyRound(src, dest, acc, s) ==
  IF src \in Ancestors(scopes, s) THEN CopyScope(acc.scopes, acc.records, s, dest) ELSE acc

\* The next scope can be copied in every such state.
LEMMA CopyMore ==
  ASSUME NEW sc, NEW rs, NEW dest \in DOMAIN sc, NEW acc \in CopyStates(sc, rs, dest),
         NEW s \in DOMAIN sc
  PROVE  CopyScope(acc.scopes, acc.records, s, dest) \in CopyStates(sc, rs, dest)
<1> DEFINE sd == acc.scopes
           rt == acc.records
           se == Widened(sd, rt, s, dest)
           ru == Shifted(sd, rt, s, dest)
<1>1. Copied(sc, rs, sd, rt, dest)
  BY CopyStateIs
<1>2. Sound(sd, rt) /\ DOMAIN sd = DOMAIN sc
  BY <1>1, SameChildren DEF Copied, SameBut
<1>3. Copied(sd, rt, se, ru, dest)
  <2> HIDE DEF sd, rt
  <2> QED BY <1>2, CopyKept
<1>4. Copied(sc, rs, se, ru, dest)
  <2> HIDE DEF sd, rt, se, ru
  <2> QED BY <1>1, <1>3, CopiedChain
<1>5. [scopes |-> se, records |-> ru] \in CopyStates(sc, rs, dest)
  <2> HIDE DEF se, ru
  <2> QED BY <1>4, CopyStateOf
<1>6. CopyScope(sd, rt, s, dest) = [scopes |-> se, records |-> ru]
  BY DEF CopyScope, Widened, Shifted
<1> QED BY <1>5, <1>6

\* The rounds of copy_locals, one for every scope.
LEMMA CopyRun ==
  ASSUME Sound(scopes, records), NEW src, NEW dest \in DOMAIN scopes
  PROVE  \E f \in [0 .. Len(scopes) -> CopyStates(scopes, records, dest)] :
            /\ f[0] = [scopes |-> scopes, records |-> records]
            /\ \A s \in 1 .. Len(scopes) : f[s] = CopyRound(src, dest, f[s - 1], s)
            /\ CopyScopes(src, dest) = f[Len(scopes)]
<1> DEFINE n == Len(scopes)
           S == CopyStates(scopes, records, dest)
           base == [scopes |-> scopes, records |-> records]
           step == [p \in S \X (1 .. n) |-> CopyRound(src, dest, p[1], p[2])]
           Body(g) == [s \in 0 .. n |->
                         IF s = 0 THEN base
                         ELSE IF src \in Ancestors(scopes, s)
                           THEN CopyScope(g[s - 1].scopes, g[s - 1].records, s, dest)
                         ELSE g[s - 1]]
           f == CHOOSE g : g = Body(g)
<1>1. n \in Nat /\ DOMAIN scopes = 1 .. n
  BY TreeOf DEF Sound
<1>2. base \in S
  BY CopiedSame, CopyStateOf
<1>3. ASSUME NEW acc \in S, NEW s \in 1 .. n PROVE CopyRound(src, dest, acc, s) \in S
  BY <1>1, CopyMore DEF CopyRound
<1>4. n = Len(scopes)
  OBVIOUS
<1> HIDE DEF n
<1>5. step \in Rounds(S, n)
  <2> HIDE DEF S
  <2> QED BY <1>3 DEF Rounds
<1>6. PICK g \in [0 .. n -> S] : g[0] = base /\ \A i \in 1 .. n : g[i] = step[<<g[i - 1], i>>]
  <2> HIDE DEF step, S, base
  <2> QED BY <1>1, <1>2, <1>5, LoopExists
<1>7. \A i \in 1 .. n : g[i - 1] \in S /\ g[i] = CopyRound(src, dest, g[i - 1], i)
  <2> SUFFICES ASSUME NEW i \in 1 .. n
               PROVE  g[i - 1] \in S /\ g[i] = CopyRound(src, dest, g[i - 1], i)
    OBVIOUS
  <2>1. i - 1 \in 0 .. n
    BY <1>1
  <2> HIDE DEF S
  <2>2. g[i - 1] \in S
    BY <2>1
  <2> QED BY <1>6, <2>2
<1>8. g = Body(g)
  <2>1. ASSUME NEW s \in 0 .. n
        PROVE  g[s] = IF s = 0 THEN base
                      ELSE IF src \in Ancestors(scopes, s)
                        THEN CopyScope(g[s - 1].scopes, g[s - 1].records, s, dest)
                      ELSE g[s - 1]
    <3>1. s = 0 \/ s \in 1 .. n
      BY <1>1
    <3> HIDE DEF base
    <3> QED BY <1>6, <1>7, <3>1 DEF CopyRound
  <2>2. g = [s \in 0 .. n |-> g[s]]
    OBVIOUS
  <2> HIDE DEF base, S
  <2> QED BY <2>1, <2>2, Zenon
<1>9. f = Body(f)
  <2> HIDE DEF Body
  <2> QED BY <1>8
<1>10. CopyScopes(src, dest) = f[n]
  BY DEF CopyScopes, n
<1> HIDE DEF f
<1>11. \A s \in 0 .. n : f[s] = IF s = 0 THEN base
                      ELSE IF src \in Ancestors(scopes, s)
                        THEN CopyScope(f[s - 1].scopes, f[s - 1].records, s, dest)
                      ELSE f[s - 1]
  BY <1>9
<1>12. f[0] = base /\ \A s \in 1 .. n : f[s] = CopyRound(src, dest, f[s - 1], s)
  <2>1. 0 \in 0 .. n /\ \A i \in 1 .. n : i \in 0 .. n /\ i # 0
    BY <1>1
  <2> HIDE DEF Body, base
  <2> QED BY <1>11, <2>1 DEF CopyRound
<1>13. DOMAIN f = 0 .. n
  BY <1>9
<1> DEFINE T == {i \in 0 .. n : f[i] \in S}
<1>14. 0 \in T
  BY <1>1, <1>2, <1>12
<1>15. ASSUME NEW i \in 1 .. n, i - 1 \in T PROVE i \in T
  <2>1. i \in 0 .. n
    BY <1>1
  <2> HIDE DEF S
  <2> QED BY <1>3, <1>12, <1>15, <2>1
<1>16. 0 .. n \subseteq T
  <2> HIDE DEF T
  <2> QED BY <1>1, <1>14, <1>15, Upward
<1>17. f \in [0 .. n -> S]
  <2>1. f = [i \in 0 .. n |-> f[i]]
    BY <1>9
  <2>2. \A i \in 0 .. n : f[i] \in S
    BY <1>16
  <2> HIDE DEF S, Body
  <2> QED BY <2>1, <2>2
<1> QED BY <1>4, <1>10, <1>12, <1>17

\* Inlining a function keeps everything but the caller's scope and offsets.
LEMMA CopyLoop ==
  ASSUME Sound(scopes, records), NEW src, NEW dest \in DOMAIN scopes
  PROVE  Copied(scopes, records, CopyScopes(src, dest).scopes, CopyScopes(src, dest).records, dest)
<1> DEFINE S == CopyStates(scopes, records, dest)
           n == Len(scopes)
<1>1. n \in Nat
  BY TreeOf DEF Sound
<1>2. PICK f \in [0 .. n -> S] : CopyScopes(src, dest) = f[n]
  BY CopyRun
<1>3. n \in 0 .. n
  BY <1>1
<1> HIDE DEF S, n
<1>4. f[n] \in S
  BY <1>2, <1>3
<1> QED BY <1>2, <1>4, CopyStateIs DEF S

\* A scope without records changes nothing when it is copied.
LEMMA CopyNothing ==
  ASSUME NEW sc, NEW rs, Sound(sc, rs), NEW src \in DOMAIN sc, NEW dest \in DOMAIN sc,
         sc[src].recs = <<>>
  PROVE  Widened(sc, rs, src, dest) = sc /\ Shifted(sc, rs, src, dest) = rs
<1> DEFINE sd == Widened(sc, rs, src, dest)
           rt == Shifted(sc, rs, src, dest)
           base == max_scope_size(sc, dest)
<1>1. Tree(sc) /\ IsList(rs)
  BY DEF Sound
<1>2. Copied(sc, rs, sd, rt, dest)
  BY CopyKept
<1>3. /\ SameBut(sc, sd, dest) /\ sd[dest].recs = sc[dest].recs \o <<>>
      /\ sd[dest].size = sc[dest].size + RecsSize(rs, <<>>)
  <2>1. SameBut(sc, sd, dest)
    BY CopiedScopes
  <2>2. sd[dest].recs = sc[dest].recs \o sc[src].recs
    BY CopiedScopes
  <2>3. sd[dest].size = sc[dest].size + RecsSize(rs, sc[src].recs)
    BY CopiedScopes
  <2> QED BY <2>1, <2>2, <2>3
<1>4. RecsSize(rs, <<>>) = 0
  <2>1. RecsSize(rs, <<>>) = Total(<<>>)
    BY DEF RecsSize
  <2>2. <<>> \in Seq(Nat) /\ Len(<<>>) = 0
    OBVIOUS
  <2> QED BY <2>1, <2>2, UptoNone, UptoAll
<1>5. Tree(sd) /\ SameShape(sc, sd) /\ DOMAIN sd = DOMAIN sc
  BY <1>3, SameChildren DEF SameBut, SameShape
<1>6. sd[dest].recs = sc[dest].recs /\ sd[dest].size = sc[dest].size
  <2>1. sc[dest].recs \in Seq(Nat) /\ sc[dest].size \in Nat
    BY <1>1, ScopeOf
  <2> DEFINE l == sc[dest].recs
             z == sc[dest].size
  <2>2. l \o <<>> = l /\ z + 0 = z
    <3> HIDE DEF l, z
    <3> QED BY <2>1 DEF l, z
  <2> QED BY <1>3, <1>4, <2>2
<1>7. sd[dest].func = sc[dest].func /\ sd[dest].prev = sc[dest].prev
  BY <1>5 DEF SameShape
<1> HIDE DEF sd, rt, base
<1>8. sd[dest] = sc[dest]
  <2>1. sd[dest] = [func |-> sd[dest].func, prev |-> sd[dest].prev,
                    recs |-> sd[dest].recs, size |-> sd[dest].size]
    BY <1>5, ScopeOf
  <2>2. sc[dest] = [func |-> sc[dest].func, prev |-> sc[dest].prev,
                    recs |-> sc[dest].recs, size |-> sc[dest].size]
    BY <1>1, ScopeOf
  <2> QED BY <1>6, <1>7, <2>1, <2>2
<1>9. \A s \in DOMAIN sc : sd[s] = sc[s]
  BY <1>3, <1>8 DEF SameBut
<1>10. sd = sc
  <2>1. sc \in Seq(ScopeSet) /\ sd \in Seq(ScopeSet)
    BY <1>1, <1>5 DEF Tree
  <2>2. sc = [s \in DOMAIN sc |-> sc[s]] /\ sd = [s \in DOMAIN sd |-> sd[s]]
    BY <2>1
  <2> QED BY <1>5, <1>9, <2>2
<1>11. ASSUME NEW r \in DOMAIN rs PROVE rt[r].offset = rs[r].offset
  <2>1. rt[r].offset = rs[r].offset + base * Occurs(<<>>, r)
    BY CopiedRecords DEF rt, base
  <2>2. Occurs(<<>>, r) = 0
    <3>1. {i \in DOMAIN <<>> : <<>>[i] = r} = {}
      OBVIOUS
    <3> QED BY <3>1, FS_EmptySet DEF Occurs
  <2>3. base \in Nat /\ rs[r].offset \in Nat
    BY <1>1, MaxIs DEF base, IsList, IsRecord
  <2> QED BY <2>1, <2>2, <2>3
<1>12. IsList(rt) /\ Retyped(rs, rt)
  BY <1>2 DEF Copied, Sound
<1>13. ASSUME NEW r \in DOMAIN rs PROVE rt[r] = rs[r]
  <2>1. rt[r].type = rs[r].type /\ rt[r].need = rs[r].need /\ r \in DOMAIN rt
    BY <1>12 DEF Retyped
  <2>2. IsRecord(rs[r]) /\ IsRecord(rt[r])
    BY <1>1, <1>12, <2>1 DEF IsList
  <2> QED BY <1>11, <2>1, <2>2 DEF IsRecord
<1>14. rt = rs
  <2>1. DOMAIN rt = DOMAIN rs
    BY <1>12 DEF Retyped
  <2>2. rs = [r \in DOMAIN rs |-> rs[r]] /\ rt = [r \in DOMAIN rt |-> rt[r]]
    <3>1. PICK S : rs \in Seq(S)
      BY <1>1 DEF IsList
    <3>2. PICK Z : rt \in Seq(Z)
      BY <1>12 DEF IsList
    <3> QED BY <3>1, <3>2
  <2> QED BY <1>13, <2>1, <2>2
<1> QED BY <1>10, <1>14 DEF sd, rt

\* A function that has all its variables in one scope: that scope is copied.
LEMMA CopyOfOne ==
  ASSUME Sound(scopes, records), NEW src, NEW dest \in DOMAIN scopes,
         src \notin Ancestors(scopes, dest),
         NEW one \in DOMAIN scopes, src \in Ancestors(scopes, one),
         \A s \in DOMAIN scopes :
            src \in Ancestors(scopes, s) /\ s # one => scopes[s].recs = <<>>
  PROVE  /\ CopyScopes(src, dest).scopes = Widened(scopes, records, one, dest)
         /\ CopyScopes(src, dest).records = Shifted(scopes, records, one, dest)
<1> DEFINE S == CopyStates(scopes, records, dest)
           n == Len(scopes)
           base == [scopes |-> scopes, records |-> records]
           new == CopyScope(scopes, records, one, dest)
<1>1. n \in Nat /\ DOMAIN scopes = 1 .. n
  BY TreeOf DEF Sound
<1>2. PICK f \in [0 .. n -> S] :
           /\ f[0] = base
           /\ \A s \in 1 .. n : f[s] = CopyRound(src, dest, f[s - 1], s)
           /\ CopyScopes(src, dest) = f[n]
  BY CopyRun
<1> DEFINE T == {k \in 0 .. n : f[k] = IF one <= k THEN new ELSE base}
<1>3. one \in 1 .. n
  BY <1>1
<1>4. n = Len(scopes)
  OBVIOUS
<1> HIDE DEF n
<1>5. 0 \in T
  <2> HIDE DEF base, new
  <2> QED BY <1>1, <1>2, <1>3
<1>6. ASSUME NEW k \in 1 .. n, k - 1 \in T PROVE k \in T
  <2>1. k - 1 \in 0 .. n /\ k \in 0 .. n /\ k \in DOMAIN scopes
    BY <1>1
  <2>2. f[k] = CopyRound(src, dest, f[k - 1], k)
    BY <1>2
  <2>3. f[k - 1] = IF one <= k - 1 THEN new ELSE base
    BY <1>6
  <2>4. f[k - 1] \in S
    <3> HIDE DEF S
    <3> QED BY <1>2, <2>1
  <2>5. CASE k = one
    <3>1. f[k - 1] = base
      <4> HIDE DEF base, new
      <4> QED BY <1>3, <2>3, <2>5
    <3>2. f[k] = CopyScope(base.scopes, base.records, k, dest)
      BY <2>2, <2>5, <3>1 DEF CopyRound
    <3>3. base.scopes = scopes /\ base.records = records
      OBVIOUS
    <3>4. f[k] = new
      <4> HIDE DEF base
      <4> QED BY <2>5, <3>2, <3>3
    <3> HIDE DEF base, new
    <3> QED BY <1>3, <2>1, <2>5, <3>4
  <2>6. CASE k # one
    <3>1. f[k] = f[k - 1]
      <4>1. CASE src \notin Ancestors(scopes, k)
        BY <2>2, <4>1 DEF CopyRound
      <4>2. CASE src \in Ancestors(scopes, k)
        <5> DEFINE acc == f[k - 1]
        <5>1. f[k] = CopyScope(acc.scopes, acc.records, k, dest)
          BY <2>2, <4>2 DEF CopyRound
        <5>2. Copied(scopes, records, acc.scopes, acc.records, dest)
              /\ acc = [scopes |-> acc.scopes, records |-> acc.records]
          BY <2>4, CopyStateIs
        <5>3. k # dest
          BY <4>2
        <5>4. acc.scopes[k].recs = <<>> /\ Sound(acc.scopes, acc.records)
              /\ DOMAIN acc.scopes = DOMAIN scopes
          <6>1. scopes[k].recs = <<>>
            BY <2>1, <2>6, <4>2
          <6>2. SameBut(scopes, acc.scopes, dest) /\ Sound(acc.scopes, acc.records)
            BY <5>2 DEF Copied
          <6>3. DOMAIN acc.scopes = DOMAIN scopes
            BY <6>2, SameChildren DEF SameBut
          <6> QED BY <2>1, <5>3, <6>1, <6>2, <6>3 DEF SameBut
        <5> HIDE DEF acc
        <5> DEFINE sd == acc.scopes
                   rt == acc.records
        <5>5. Widened(sd, rt, k, dest) = sd /\ Shifted(sd, rt, k, dest) = rt
          <6> HIDE DEF sd, rt
          <6> QED BY <2>1, <5>4, CopyNothing DEF sd, rt
        <5>6. CopyScope(sd, rt, k, dest) =
                [scopes |-> Widened(sd, rt, k, dest), records |-> Shifted(sd, rt, k, dest)]
          <6> HIDE DEF sd, rt
          <6> QED BY DEF CopyScope, Widened, Shifted
        <5>7. f[k] = acc
          BY <5>1, <5>2, <5>5, <5>6
        <5> QED BY <5>7 DEF acc
      <4> QED BY <4>1, <4>2
    <3>2. one <= k - 1 <=> one <= k
      BY <1>3, <2>6
    <3> HIDE DEF base, new
    <3> QED BY <2>1, <2>3, <3>1, <3>2
  <2> QED BY <2>5, <2>6
<1>7. f[n] = new
  <2>1. 0 .. n \subseteq T
    <3> HIDE DEF T
    <3> QED BY <1>1, <1>5, <1>6, Upward
  <2>2. n \in T /\ one <= n
    BY <1>1, <1>3, <2>1
  <2> HIDE DEF base, new
  <2> QED BY <2>2
<1> QED BY <1>2, <1>4, <1>7 DEF new, n, Widened, Shifted

Placed(sc, rs) ==
  \A r \in DOMAIN rs : \E s \in DOMAIN sc : \E i \in DOMAIN sc[s].recs : sc[s].recs[i] = r

\* A record stands in one place of the scopes of a set.
Apart(sc, S) ==
  \A s, z \in S : \A i \in DOMAIN sc[s].recs, j \in DOMAIN sc[z].recs :
     sc[s].recs[i] = sc[z].recs[j] => s = z /\ i = j

\* The scopes of functions have their names, each of them once.
Roots(sc) ==
  \A c \in Children(sc, Global) :
     sc[c].func \in Funcs /\ \A d \in Children(sc, Global) : sc[c].func = sc[d].func => c = d

\* A block only makes a scope of its own when it declares variables.
Blocks(sc) == \A c \in DOMAIN sc : sc[c].prev > 1 => sc[c].recs # <<>>

\* The scopes and records when variables are declared
Longer(l) == records \o l.recs
Ids(l) == NewIds(Len(l.recs))
Grown(s, l) == [scopes EXCEPT ![s] = Extended(@, Ids(l), l.size)]
Opened(f, p, l) == Append(scopes, Scope(f, p, Ids(l), l.size))

\* The records of a scope stay the same when others are declared.
LEMMA OldStays ==
  ASSUME IsList(records), NEW l, Entries(l), NEW list, Listed(records, list)
  PROVE  /\ Listed(Longer(l), list) /\ RecsSize(Longer(l), list) = RecsSize(records, list)
         /\ \A i \in DOMAIN list : list[i] <= Len(records)
<1> DEFINE new == l.recs
           all == records \o new
           n == Len(records)
           m == Len(new)
<1>1. IsList(new)
  BY DEF Entries
<1>2. /\ n \in Nat /\ DOMAIN records = 1 .. n /\ m \in Nat
  BY <1>1, ListOf
<1>3. IsList(all) /\ Len(all) = n + m /\ \A i \in 1 .. n : all[i] = records[i]
  BY <1>1, JoinedLists
<1>4. DOMAIN all = 1 .. n + m
  BY <1>3, ListOf
<1>5. list \in Seq(Nat) /\ \A i \in DOMAIN list : list[i] \in 1 .. n
  BY <1>2 DEF Listed
<1> HIDE DEF n, m, all
<1>6. \A i \in DOMAIN list : list[i] \in 1 .. n + m /\ list[i] <= n
  BY <1>2, <1>5
<1>7. Listed(all, list)
  BY <1>4, <1>5, <1>6 DEF Listed
<1>8. \A i \in DOMAIN list : all[list[i]].type = records[list[i]].type
  BY <1>3, <1>5
<1>9. RecsSize(all, list) = RecsSize(records, list)
  BY <1>8, SameTypes
<1> QED BY <1>6, <1>7, <1>9 DEF Longer, all, n

\* The records of a declaration are the last ones, and the scope is large
\* enough for them.
LEMMA NewOnes ==
  ASSUME IsList(records), NEW l, Entries(l)
  PROVE  /\ IsList(Longer(l)) /\ Listed(Longer(l), Ids(l)) /\ RecsSize(Longer(l), Ids(l)) <= l.size
         /\ RecsSize(Longer(l), Ids(l)) \in Nat
         /\ Len(Ids(l)) = Len(l.recs) /\ DOMAIN Ids(l) = 1 .. Len(l.recs)
         /\ Len(records) \in Nat /\ Len(l.recs) \in Nat
         /\ \A i \in 1 .. Len(l.recs) : Ids(l)[i] = Len(records) + i
         /\ DOMAIN Longer(l) = 1 .. Len(records) + Len(l.recs)
         /\ DOMAIN records = 1 .. Len(records)
<1> DEFINE new == l.recs
           all == records \o new
<1>1. IsList(new) /\ Total(Sizes(new)) <= l.size /\ l.size \in Nat
  BY DEF Entries
<1>2. /\ Listed(all, NewIds(Len(new)))
      /\ RecsSize(all, NewIds(Len(new))) = Total(Sizes(new))
      /\ Len(NewIds(Len(new))) = Len(new)
      /\ \A i \in 1 .. Len(new) : NewIds(Len(new))[i] = Len(records) + i
  BY <1>1, NumbersOfNew
<1>3. IsList(all) /\ Len(all) = Len(records) + Len(new)
  BY <1>1, JoinedLists
<1>4. DOMAIN all = 1 .. Len(records) + Len(new)
  BY <1>3, ListOf
<1>5. Len(records) \in Nat /\ DOMAIN records = 1 .. Len(records) /\ Len(new) \in Nat
  BY <1>1, ListOf
<1>6. DOMAIN NewIds(Len(new)) = 1 .. Len(new)
  BY DEF NewIds
<1>7. RecsSize(all, NewIds(Len(new))) \in Nat
  <2> HIDE DEF all, new
  <2> QED BY <1>2, <1>3, SizesOfNat
<1> HIDE DEF all
<1> QED BY <1>1, <1>2, <1>3, <1>4, <1>5, <1>6, <1>7 DEF Longer, Ids, all

\* A global variable is added to a scope that exists.
LEMMA GrowScope ==
  ASSUME Sound(scopes, records), NEW l, Entries(l), NEW s \in DOMAIN scopes
  PROVE  /\ SameShape(scopes, Grown(s, l))
         /\ \A c \in DOMAIN scopes : c # s => Grown(s, l)[c] = scopes[c]
         /\ Grown(s, l)[s].recs = scopes[s].recs \o Ids(l)
         /\ Sound(Grown(s, l), Longer(l))
<1> DEFINE old == scopes[s]
           ids == Ids(l)
           list == old.recs
           all == list \o ids
           sd == Grown(s, l)
           rt == Longer(l)
           new == Scope(old.func, old.prev, all, old.size + l.size)
<1>1. Tree(scopes) /\ IsList(records) /\ scopes \in Seq(ScopeSet) /\ l.size \in Nat
      /\ Listed(records, list) /\ RecsSize(records, list) <= old.size
      /\ \A c \in DOMAIN scopes : Listed(records, scopes[c].recs)
                                  /\ RecsSize(records, scopes[c].recs) <= scopes[c].size
  BY DEF Sound, Tree, Entries
<1>2. sd = [scopes EXCEPT ![s] = new]
  BY DEF Grown, Extended
<1>3. IsList(rt) /\ Listed(rt, ids) /\ RecsSize(rt, ids) <= l.size /\ RecsSize(rt, ids) \in Nat
  BY <1>1, NewOnes
<1>4. Listed(rt, list) /\ RecsSize(rt, list) = RecsSize(records, list)
  BY <1>1, OldStays
<1>5. Listed(rt, all) /\ RecsSize(rt, all) = RecsSize(rt, list) + RecsSize(rt, ids)
  <2> HIDE DEF rt, list, ids
  <2> QED BY <1>3, <1>4, BothListed
<1>6. old.func \in FuncNames /\ old.prev \in Nat /\ old.size \in Nat
  BY <1>1, ScopeOf
<1>7. RecsSize(records, list) \in Nat
  BY <1>1, SizesOfNat
<1>8. old.size + l.size \in Nat /\ RecsSize(rt, all) <= old.size + l.size
  <2> DEFINE a == RecsSize(records, list)
             b == RecsSize(rt, ids)
             x == old.size
             y == l.size
  <2>1. a \in Nat /\ b \in Nat /\ x \in Nat /\ y \in Nat /\ a <= x /\ b <= y
    BY <1>1, <1>3, <1>6, <1>7
  <2>2. x + y \in Nat /\ a + b <= x + y
    <3> HIDE DEF a, b, x, y
    <3> QED BY <2>1
  <2> QED BY <1>4, <1>5, <2>2
<1>9. old = scopes[s] /\ list = old.recs
  OBVIOUS
<1> HIDE DEF old, all
<1>10. new.func = old.func /\ new.prev = old.prev /\ new.recs = all /\ new.size = old.size + l.size
  BY DEF Scope
<1>11. new \in ScopeSet
  <2>1. all \in Seq(Nat)
    BY <1>5 DEF Listed
  <2> HIDE DEF list, ids, rt, sd
  <2> QED BY <1>6, <1>8, <2>1 DEF ScopeSet, Scope
<1> HIDE DEF sd, new, list, ids, rt
<1>12. sd \in Seq(ScopeSet) /\ Len(sd) = Len(scopes) /\ sd[s] = new
       /\ \A c \in DOMAIN scopes : c # s => sd[c] = scopes[c]
  BY <1>1, <1>2, <1>11
<1>13. \A c \in DOMAIN scopes : sd[c].prev = scopes[c].prev /\ sd[c].func = scopes[c].func
  BY <1>9, <1>10, <1>12
<1>14. Len(scopes) \in Nat \ {0} /\ DOMAIN scopes = 1 .. Len(scopes) /\ DOMAIN sd = 1 .. Len(scopes)
  BY <1>1, <1>12, TreeOf
<1>15. Tree(sd)
  <2>1. sd # <<>>
    BY <1>12, <1>14
  <2>2. scopes[1].prev = 0 /\ \A c \in 2 .. Len(scopes) : scopes[c].prev \in 1 .. c - 1
    BY <1>1 DEF Tree
  <2>3. \A c \in 2 .. Len(scopes) : c \in DOMAIN scopes
    BY <1>14
  <2>4. 1 \in DOMAIN scopes
    BY <1>14
  <2> QED BY <1>12, <1>13, <2>1, <2>2, <2>3, <2>4 DEF Tree
<1>16. SameShape(scopes, sd)
  BY <1>1, <1>12, <1>13, <1>15 DEF SameShape
<1>17. ASSUME NEW c \in DOMAIN sd
       PROVE  Listed(rt, sd[c].recs) /\ RecsSize(rt, sd[c].recs) <= sd[c].size
  <2>1. CASE c = s
    BY <1>5, <1>8, <1>10, <1>12, <2>1
  <2>2. CASE c # s
    <3>1. c \in DOMAIN scopes /\ sd[c] = scopes[c]
      BY <1>12, <1>14, <2>2
    <3>2. Listed(rt, scopes[c].recs) /\ RecsSize(rt, scopes[c].recs) = RecsSize(records, scopes[c].recs)
      BY <1>1, <3>1, OldStays DEF rt
    <3> QED BY <1>1, <3>1, <3>2
  <2> QED BY <2>1, <2>2
<1>18. Sound(sd, rt)
  BY <1>3, <1>15, <1>17 DEF Sound
<1> QED BY <1>9, <1>10, <1>12, <1>16, <1>18 DEF sd, rt, list, ids, all

\* The variables of a function or of a block are in a new scope.
LEMMA OpenScope ==
  ASSUME Sound(scopes, records), NEW l, Entries(l), NEW p \in DOMAIN scopes,
         NEW f \in FuncNames
  PROVE  /\ Sound(Opened(f, p, l), Longer(l))
         /\ DOMAIN Opened(f, p, l) = DOMAIN scopes \cup {Len(scopes) + 1}
         /\ Len(scopes) + 1 \notin DOMAIN scopes
         /\ \A c \in DOMAIN scopes : Opened(f, p, l)[c] = scopes[c]
         /\ Opened(f, p, l)[Len(scopes) + 1].func = f
         /\ Opened(f, p, l)[Len(scopes) + 1].prev = p
         /\ Opened(f, p, l)[Len(scopes) + 1].recs = Ids(l)
<1> DEFINE n == Len(scopes)
           ids == Ids(l)
           sd == Opened(f, p, l)
           rt == Longer(l)
           new == Scope(f, p, ids, l.size)
<1>1. Tree(scopes) /\ IsList(records) /\ scopes \in Seq(ScopeSet) /\ l.size \in Nat
      /\ \A c \in DOMAIN scopes : Listed(records, scopes[c].recs)
                                  /\ RecsSize(records, scopes[c].recs) <= scopes[c].size
  BY DEF Sound, Tree, Entries
<1>2. n \in Nat /\ n >= 1 /\ DOMAIN scopes = 1 .. n
  BY <1>1, TreeOf
<1>3. sd = Append(scopes, new)
  BY DEF Opened
<1>4. IsList(rt) /\ Listed(rt, ids) /\ RecsSize(rt, ids) <= l.size
  BY <1>1, NewOnes
<1>5. new \in ScopeSet /\ new.prev = p /\ new.func = f /\ new.recs = ids /\ new.size = l.size
  <2>1. ids \in Seq(Nat) /\ p \in Nat
    BY <1>2, <1>4 DEF Listed
  <2> HIDE DEF ids
  <2> QED BY <1>1, <2>1 DEF Scope, ScopeSet
<1>6. n = Len(scopes)
  OBVIOUS
<1> HIDE DEF new, sd, rt, ids, n
<1>7. sd \in Seq(ScopeSet) /\ Len(sd) = n + 1 /\ sd[n + 1] = new
      /\ \A c \in 1 .. n : sd[c] = scopes[c]
  <2> DEFINE S == ScopeSet
  <2>1. scopes \in Seq(S) /\ new \in S
    BY <1>1, <1>5
  <2> HIDE DEF S
  <2>2. sd \in Seq(S) /\ Len(sd) = Len(scopes) + 1 /\ sd[Len(scopes) + 1] = new
        /\ \A c \in 1 .. Len(scopes) : sd[c] = scopes[c]
    BY <1>3, <2>1
  <2> QED BY <1>6, <2>2 DEF S
<1>8. DOMAIN sd = 1 .. n + 1 /\ n + 1 \notin 1 .. n /\ 1 .. n + 1 = (1 .. n) \cup {n + 1}
  BY <1>2, <1>7
<1>9. Tree(sd)
  <2>1. scopes[1].prev = 0 /\ \A c \in 2 .. n : scopes[c].prev \in 1 .. c - 1
    BY <1>1, <1>6 DEF Tree
  <2>2. \A c \in 2 .. n + 1 : c \in 2 .. n \/ c = n + 1
    BY <1>2
  <2>3. \A c \in 2 .. n : c \in 1 .. n
    BY <1>2
  <2>4. 1 \in 1 .. n
    BY <1>2
  <2>5. sd # <<>>
    BY <1>2, <1>7
  <2>6. p \in 1 .. (n + 1) - 1
    BY <1>2
  <2> QED BY <1>5, <1>7, <2>1, <2>2, <2>3, <2>4, <2>5, <2>6 DEF Tree
<1>10. ASSUME NEW c \in DOMAIN sd
       PROVE  Listed(rt, sd[c].recs) /\ RecsSize(rt, sd[c].recs) <= sd[c].size
  <2>1. CASE c = n + 1
    BY <1>4, <1>5, <1>7, <2>1
  <2>2. CASE c # n + 1
    <3>1. c \in DOMAIN scopes /\ sd[c] = scopes[c]
      BY <1>2, <1>7, <1>8, <2>2
    <3>2. Listed(rt, scopes[c].recs) /\ RecsSize(rt, scopes[c].recs) = RecsSize(records, scopes[c].recs)
      BY <1>1, <3>1, OldStays DEF rt
    <3> QED BY <1>1, <3>1, <3>2
  <2> QED BY <2>1, <2>2
<1>11. Sound(sd, rt)
  BY <1>4, <1>9, <1>10 DEF Sound
<1> QED BY <1>2, <1>5, <1>6, <1>7, <1>8, <1>11 DEF sd, rt, ids

Phases == {"declare", "inline", "allocate", "generate"}

TypeInv ==
  /\ Sound(scopes, records) /\ Placed(scopes, records) /\ Roots(scopes) /\ Blocks(scopes)
  /\ current \in DOMAIN scopes /\ phase \in Phases /\ parsed \subseteq Funcs
  /\ EntryPoint \in Declared /\ func_inline \subseteq Declared \ {EntryPoint}
  /\ temps \in [Funcs -> Seq(Nat)] /\ inlined \in Seq(Funcs \X Funcs)
  /\ phase = "declare" \/ phase = "inline" => \A f \in Funcs : temps[f] = <<>>
  /\ phase = "declare" => inlined = <<>> /\ Apart(scopes, DOMAIN scopes)

\* Every record has one place when a variable is declared,
LEMMA GrownPlaces ==
  ASSUME Sound(scopes, records), NEW l, Entries(l), NEW s \in DOMAIN scopes
  PROVE  /\ Placed(scopes, records) => Placed(Grown(s, l), Longer(l))
         /\ Apart(scopes, DOMAIN scopes) => Apart(Grown(s, l), DOMAIN Grown(s, l))
<1> DEFINE sd == Grown(s, l)
           rt == Longer(l)
           ids == Ids(l)
           list == scopes[s].recs
           n == Len(records)
           m == Len(l.recs)
           k == Len(list)
<1>1. /\ SameShape(scopes, sd)
      /\ \A c \in DOMAIN scopes : c # s => sd[c] = scopes[c]
      /\ sd[s].recs = list \o ids
  BY GrowScope
<1>2. DOMAIN sd = DOMAIN scopes
  BY <1>1, SameChildren
<1>3. IsList(records) /\ \A c \in DOMAIN scopes : Listed(records, scopes[c].recs)
  BY DEF Sound
<1>4. /\ Listed(rt, ids) /\ Len(ids) = m /\ DOMAIN ids = 1 .. m
      /\ n \in Nat /\ m \in Nat
      /\ \A i \in 1 .. m : ids[i] = n + i
      /\ DOMAIN rt = 1 .. n + m /\ DOMAIN records = 1 .. n
  BY <1>3, NewOnes
<1>5. \A c \in DOMAIN scopes : \A i \in DOMAIN scopes[c].recs :
         scopes[c].recs[i] \in Nat /\ scopes[c].recs[i] <= n
  <2> SUFFICES ASSUME NEW c \in DOMAIN scopes, NEW i \in DOMAIN scopes[c].recs
               PROVE  scopes[c].recs[i] \in Nat /\ scopes[c].recs[i] <= n
    OBVIOUS
  <2>1. scopes[c].recs[i] \in 1 .. n
    BY <1>3, <1>4 DEF Listed
  <2> QED BY <1>4, <2>1
<1>6. Listed(rt, list) /\ k \in Nat /\ DOMAIN list = 1 .. k
  BY <1>3, OldStays, SizesOfNat
<1>7. /\ DOMAIN (list \o ids) = 1 .. k + m
      /\ \A i \in 1 .. k : (list \o ids)[i] = list[i]
      /\ \A i \in 1 .. m : (list \o ids)[k + i] = n + i
  <2>1. IsList(rt)
    BY <1>3, NewOnes
  <2>0. Listed(rt, list) /\ Listed(rt, ids) /\ Len(ids) = m
    BY <1>4, <1>6
  <2>2. /\ Listed(rt, list \o ids) /\ Len(list \o ids) = k + Len(ids)
        /\ \A i \in 1 .. k : (list \o ids)[i] = list[i]
        /\ \A i \in 1 .. Len(ids) : (list \o ids)[k + i] = ids[i]
    <3> HIDE DEF rt, list, ids
    <3> QED BY <2>0, <2>1, BothListed
  <2>3. DOMAIN (list \o ids) = 1 .. Len(list \o ids)
    <3> HIDE DEF rt, list, ids
    <3> QED BY <2>1, <2>2, SizesOfNat
  <2> HIDE DEF rt, list, ids, n, m, k
  <2> QED BY <1>4, <2>0, <2>2, <2>3
<1>8. list = scopes[s].recs
  OBVIOUS
<1> HIDE DEF sd, rt, ids, list, n, m, k
<1>9. ASSUME NEW c \in DOMAIN scopes, NEW i \in DOMAIN sd[c].recs
      PROVE  \/ i \in DOMAIN scopes[c].recs /\ sd[c].recs[i] = scopes[c].recs[i]
             \/ c = s /\ i - k \in 1 .. m /\ sd[c].recs[i] = n + (i - k)
  <2>1. CASE c # s
    BY <1>1, <2>1
  <2>2. CASE c = s
    <3>1. i \in 1 .. k + m
      BY <1>1, <1>7, <2>2
    <3>2. CASE i \in 1 .. k
      BY <1>1, <1>6, <1>7, <1>8, <2>2, <3>2
    <3>3. CASE i \notin 1 .. k
      <4>1. i - k \in 1 .. m /\ i = k + (i - k)
        BY <1>4, <1>6, <3>1, <3>3
      <4> QED BY <1>1, <1>7, <2>2, <4>1
    <3> QED BY <3>2, <3>3
  <2> QED BY <2>1, <2>2
<1>10. ASSUME Placed(scopes, records), NEW r \in DOMAIN rt
       PROVE  \E c \in DOMAIN sd : \E i \in DOMAIN sd[c].recs : sd[c].recs[i] = r
  <2>1. CASE r \in 1 .. n
    <3>0. PICK c \in DOMAIN scopes : \E i \in DOMAIN scopes[c].recs : scopes[c].recs[i] = r
      BY <1>4, <1>10, <2>1 DEF Placed
    <3>1. PICK i \in DOMAIN scopes[c].recs : scopes[c].recs[i] = r
      BY <3>0
    <3>2. i \in DOMAIN sd[c].recs /\ sd[c].recs[i] = r
      <4>1. CASE c # s
        BY <1>1, <3>1, <4>1
      <4>2. CASE c = s
        <5>1. i \in 1 .. k /\ i \in 1 .. k + m
          BY <1>4, <1>6, <1>8, <4>2
        <5> QED BY <1>1, <1>7, <1>8, <3>1, <4>2, <5>1
      <4> QED BY <4>1, <4>2
    <3> QED BY <1>2, <3>2
  <2>2. CASE r \notin 1 .. n
    <3>1. r - n \in 1 .. m /\ r = n + (r - n) /\ k + (r - n) \in 1 .. k + m
      BY <1>4, <1>6, <1>10, <2>2
    <3>2. k + (r - n) \in DOMAIN sd[s].recs /\ sd[s].recs[k + (r - n)] = r
      BY <1>1, <1>7, <3>1
    <3> QED BY <1>2, <3>2
  <2> QED BY <2>1, <2>2
<1>11. ASSUME Apart(scopes, DOMAIN scopes), NEW c \in DOMAIN sd, NEW z \in DOMAIN sd,
              NEW i \in DOMAIN sd[c].recs, NEW j \in DOMAIN sd[z].recs,
              sd[c].recs[i] = sd[z].recs[j]
       PROVE  c = z /\ i = j
  <2>1. \/ i \in DOMAIN scopes[c].recs /\ sd[c].recs[i] = scopes[c].recs[i]
        \/ c = s /\ i - k \in 1 .. m /\ sd[c].recs[i] = n + (i - k)
    BY <1>2, <1>9
  <2>2. \/ j \in DOMAIN scopes[z].recs /\ sd[z].recs[j] = scopes[z].recs[j]
        \/ z = s /\ j - k \in 1 .. m /\ sd[z].recs[j] = n + (j - k)
    BY <1>2, <1>9
  <2>3. CASE i \in DOMAIN scopes[c].recs /\ sd[c].recs[i] = scopes[c].recs[i]
             /\ j \in DOMAIN scopes[z].recs /\ sd[z].recs[j] = scopes[z].recs[j]
    <3>1. scopes[c].recs[i] = scopes[z].recs[j]
      BY <1>11, <2>3
    <3>2. c \in DOMAIN scopes /\ z \in DOMAIN scopes /\ Apart(scopes, DOMAIN scopes)
      BY <1>2, <1>11
    <3> QED BY <2>3, <3>1, <3>2 DEF Apart
  <2>4. CASE i \in DOMAIN scopes[c].recs /\ sd[c].recs[i] = scopes[c].recs[i]
             /\ j - k \in 1 .. m /\ sd[z].recs[j] = n + (j - k)
    <3>1. sd[c].recs[i] \in Nat /\ sd[c].recs[i] <= n
      BY <1>2, <1>5, <2>4
    <3> DEFINE a == j - k
               v == sd[c].recs[i]
    <3>2. a \in 1 .. m /\ v = n + a
      BY <1>11, <2>4
    <3> HIDE DEF a, v
    <3> QED BY <1>4, <3>1, <3>2 DEF v
  <2>5. CASE j \in DOMAIN scopes[z].recs /\ sd[z].recs[j] = scopes[z].recs[j]
             /\ i - k \in 1 .. m /\ sd[c].recs[i] = n + (i - k)
    <3>1. sd[z].recs[j] \in Nat /\ sd[z].recs[j] <= n
      BY <1>2, <1>5, <2>5
    <3> DEFINE a == i - k
               v == sd[z].recs[j]
    <3>2. a \in 1 .. m /\ v = n + a
      BY <1>11, <2>5
    <3> HIDE DEF a, v
    <3> QED BY <1>4, <3>1, <3>2 DEF v
  <2>6. CASE c = s /\ z = s /\ i - k \in 1 .. m /\ sd[c].recs[i] = n + (i - k)
             /\ j - k \in 1 .. m /\ sd[z].recs[j] = n + (j - k)
    <3>1. i \in Nat /\ j \in Nat
      <4>1. i \in 1 .. k + m /\ j \in 1 .. k + m
        BY <1>1, <1>7, <2>6
      <4> QED BY <1>4, <1>6, <4>1
    <3> QED BY <1>4, <1>6, <1>11, <2>6, <3>1
  <2> QED BY <2>1, <2>2, <2>3, <2>4, <2>5, <2>6
<1> QED BY <1>10, <1>11 DEF Placed, Apart, sd, rt

\* and when a scope is opened.
LEMMA OpenedPlaces ==
  ASSUME Sound(scopes, records), NEW l, Entries(l), NEW p \in DOMAIN scopes,
         NEW f \in FuncNames
  PROVE  /\ Placed(scopes, records) => Placed(Opened(f, p, l), Longer(l))
         /\ Apart(scopes, DOMAIN scopes) => Apart(Opened(f, p, l), DOMAIN Opened(f, p, l))
<1> DEFINE sd == Opened(f, p, l)
           rt == Longer(l)
           n == Len(records)
           m == Len(l.recs)
           new == Len(scopes) + 1
<1>1. /\ DOMAIN sd = DOMAIN scopes \cup {new}
      /\ new \notin DOMAIN scopes
      /\ \A c \in DOMAIN scopes : sd[c] = scopes[c]
      /\ sd[new].recs = Ids(l)
  <2>1. DOMAIN sd = DOMAIN scopes \cup {new} /\ new \notin DOMAIN scopes
    BY OpenScope
  <2>2. \A c \in DOMAIN scopes : sd[c] = scopes[c]
    BY OpenScope
  <2>3. sd[new].recs = Ids(l)
    BY OpenScope
  <2> QED BY <2>1, <2>2, <2>3
<1>2. IsList(records) /\ \A c \in DOMAIN scopes : Listed(records, scopes[c].recs)
  BY DEF Sound
<1>3. /\ DOMAIN Ids(l) = 1 .. m /\ n \in Nat /\ m \in Nat
      /\ \A i \in 1 .. m : Ids(l)[i] = n + i
      /\ DOMAIN rt = 1 .. n + m /\ DOMAIN records = 1 .. n
  BY <1>2, NewOnes
<1>4. \A c \in DOMAIN scopes : \A i \in DOMAIN scopes[c].recs : scopes[c].recs[i] \in 1 .. n
  BY <1>2, <1>3 DEF Listed
<1> HIDE DEF sd, rt, n, m, new
<1>5. \A i \in DOMAIN sd[new].recs : i \in 1 .. m /\ sd[new].recs[i] = n + i
  BY <1>1, <1>3
<1>6. ASSUME Placed(scopes, records), NEW r \in DOMAIN rt
      PROVE  \E c \in DOMAIN sd : \E i \in DOMAIN sd[c].recs : sd[c].recs[i] = r
  <2>1. CASE r \in 1 .. n
    <3>1. PICK c \in DOMAIN scopes : \E i \in DOMAIN scopes[c].recs : scopes[c].recs[i] = r
      BY <1>3, <1>6, <2>1 DEF Placed
    <3> QED BY <1>1, <3>1
  <2>2. CASE r \notin 1 .. n
    <3>1. r - n \in 1 .. m /\ r = n + (r - n)
      BY <1>3, <1>6, <2>2
    <3>2. r - n \in DOMAIN sd[new].recs /\ sd[new].recs[r - n] = r
      BY <1>1, <1>3, <3>1
    <3> QED BY <1>1, <3>2
  <2> QED BY <2>1, <2>2
<1>7. ASSUME Apart(scopes, DOMAIN scopes), NEW c \in DOMAIN sd, NEW z \in DOMAIN sd,
             NEW i \in DOMAIN sd[c].recs, NEW j \in DOMAIN sd[z].recs,
             sd[c].recs[i] = sd[z].recs[j]
      PROVE  c = z /\ i = j
  <2>1. CASE c # new /\ z # new
    <3>1. c \in DOMAIN scopes /\ z \in DOMAIN scopes
      BY <1>1, <2>1
    <3>2. sd[c] = scopes[c] /\ sd[z] = scopes[z]
      BY <1>1, <3>1
    <3>3. Apart(scopes, DOMAIN scopes) /\ sd[c].recs[i] = sd[z].recs[j]
      BY <1>7
    <3> QED BY <3>1, <3>2, <3>3 DEF Apart
  <2>2. CASE c = new /\ z = new
    <3>1. i \in 1 .. m /\ j \in 1 .. m /\ n + i = n + j
      BY <1>5, <1>7, <2>2
    <3> QED BY <1>3, <2>2, <3>1
  <2>3. CASE c = new /\ z # new
    <3>1. z \in DOMAIN scopes
      BY <1>1, <2>3
    <3>2. sd[z].recs[j] \in 1 .. n
      BY <1>1, <1>4, <3>1
    <3>3. i \in 1 .. m /\ n + i \in 1 .. n
      BY <1>5, <1>7, <2>3, <3>2
    <3> QED BY <1>3, <3>3
  <2>4. CASE c # new /\ z = new
    <3>1. c \in DOMAIN scopes
      BY <1>1, <2>4
    <3>2. sd[c].recs[i] \in 1 .. n
      BY <1>1, <1>4, <3>1
    <3>3. j \in 1 .. m /\ n + j \in 1 .. n
      BY <1>5, <1>7, <2>4, <3>2
    <3> QED BY <1>3, <3>3
  <2> QED BY <2>1, <2>2, <2>3, <2>4
<1> QED BY <1>6, <1>7 DEF Placed, Apart, sd, rt

\* A list of at most so many elements is a list.
LEMMA SeqOfSeq ==
  ASSUME NEW S, NEW n, NEW q \in SeqOf(S, n)
  PROVE  q \in Seq(S)
BY DEF SeqOf

\* A function stays declared as long as its scope is there,
LEMMA StillDeclared ==
  ASSUME \A c \in Children(scopes, Global) :
            c \in Children(scopes', Global) /\ scopes'[c].func = scopes[c].func
  PROVE  \A f \in Declared : f \in Declared'
BY DEF Declared

\* and none is added when the tree of scopes stays the same.
LEMMA SameDeclared ==
  ASSUME SameShape(scopes, scopes')
  PROVE  Declared' = Declared
<1>1. Children(scopes', Global) = Children(scopes, Global)
  BY SameChildren
<1>2. \A c \in Children(scopes, Global) : scopes'[c].func = scopes[c].func
  BY DEF SameShape, Children
<1> QED BY <1>1, <1>2 DEF Declared

\* The scopes of functions and blocks
LEMMA SameRoots ==
  ASSUME NEW sc, NEW sd, SameShape(sc, sd), Roots(sc)
  PROVE  Roots(sd)
<1>1. Tree(sc) /\ DOMAIN sc = DOMAIN sd /\ \A s : Children(sc, s) = Children(sd, s)
  BY SameChildren DEF SameShape
<1>2. \A c \in DOMAIN sc : sc[c].func = sd[c].func
  BY DEF SameShape
<1>3. \A c \in Children(sc, Global) : c \in DOMAIN sc
  BY DEF Children
<1> QED BY <1>1, <1>2, <1>3 DEF Roots

\* A new scope is inside the current one only.
LEMMA MoreChildren ==
  ASSUME Sound(scopes, records), NEW l, Entries(l), NEW p \in DOMAIN scopes,
         NEW f \in FuncNames
  PROVE  \A s : /\ Children(Opened(f, p, l), s) =
                      Children(scopes, s) \cup (IF s = p THEN {Len(scopes) + 1} ELSE {})
               /\ Len(scopes) + 1 \notin Children(scopes, s)
<1> DEFINE sd == Opened(f, p, l)
           new == Len(scopes) + 1
<1>1. /\ DOMAIN sd = DOMAIN scopes \cup {new}
      /\ new \notin DOMAIN scopes
      /\ \A c \in DOMAIN scopes : sd[c] = scopes[c]
      /\ sd[new].prev = p
  <2>1. DOMAIN sd = DOMAIN scopes \cup {new} /\ new \notin DOMAIN scopes
    BY OpenScope
  <2>2. \A c \in DOMAIN scopes : sd[c] = scopes[c]
    BY OpenScope
  <2>3. sd[new].prev = p
    BY OpenScope
  <2> QED BY <2>1, <2>2, <2>3
<1> HIDE DEF sd, new
<1>2. \A s : Children(sd, s) = Children(scopes, s) \cup (IF s = p THEN {new} ELSE {})
  BY <1>1 DEF Children
<1> QED BY <1>1, <1>2 DEF Children, sd, new

\* The scope of a block has variables.
LEMMA OpenedBlocks ==
  ASSUME Sound(scopes, records), NEW l, Entries(l), NEW p \in DOMAIN scopes,
         NEW f \in FuncNames
  PROVE  Blocks(scopes) /\ (p > 1 => l.recs # <<>>) => Blocks(Opened(f, p, l))
<1> DEFINE sd == Opened(f, p, l)
           new == Len(scopes) + 1
<1>1. /\ DOMAIN sd = DOMAIN scopes \cup {new}
      /\ \A c \in DOMAIN scopes : sd[c] = scopes[c]
      /\ sd[new].prev = p /\ sd[new].recs = Ids(l)
  <2>1. DOMAIN sd = DOMAIN scopes \cup {new}
    BY OpenScope
  <2>2. \A c \in DOMAIN scopes : sd[c] = scopes[c]
    BY OpenScope
  <2>3. sd[new].prev = p
    BY OpenScope
  <2>4. sd[new].recs = Ids(l)
    BY OpenScope
  <2> QED BY <2>1, <2>2, <2>3, <2>4
<1> SUFFICES ASSUME Blocks(scopes), p > 1 => l.recs # <<>> PROVE Blocks(sd)
  OBVIOUS
<1>2. IsList(l.recs) /\ IsList(records)
  BY DEF Entries, Sound
<1>3. l.recs # <<>> => Ids(l) # <<>>
  <2>1. Len(Ids(l)) = Len(l.recs) /\ Len(l.recs) \in Nat
    BY <1>2, NewOnes
  <2>2. Len(l.recs) = 0 => l.recs = <<>>
    BY <1>2 DEF IsList
  <2>3. Ids(l) = <<>> => Len(Ids(l)) = 0
    OBVIOUS
  <2> QED BY <2>1, <2>2, <2>3
<1> HIDE DEF sd, new
<1> QED BY <1>1, <1>3 DEF Blocks, sd

\* The invariant of the scopes holds in the beginning,
LEMMA InitTypes == Init => TypeInv
<1> SUFFICES ASSUME Init PROVE TypeInv
  OBVIOUS
<1> DEFINE none == ""
           first == Scope(none, 0, <<>>, 0)
           second == Scope(EntryPoint, 1, <<>>, 0)
<1>1. /\ scopes = << first, second >>
      /\ records = <<>> /\ current = 1 /\ parsed = {} /\ phase = "declare" /\ inlined = <<>>
      /\ temps = [f \in Funcs |-> <<>>]
  BY Zenon DEF Init, Global
<1>20. none \in FuncNames
  BY Zenon DEF FuncNames
<1> HIDE DEF none
<1>2. first \in ScopeSet /\ second \in ScopeSet
  <2>1. <<>> \in Seq(Nat) /\ 0 \in Nat /\ 1 \in Nat
    OBVIOUS
  <2>2. EntryPoint \in FuncNames
    BY FramesAssumption, Zenon DEF FuncNames
  <2> QED BY <1>20, <2>1, <2>2 DEF Scope, ScopeSet
<1> HIDE DEF first, second
<1>3. /\ scopes \in Seq(ScopeSet) /\ Len(scopes) = 2 /\ DOMAIN scopes = 1 .. 2
      /\ scopes[1] = first /\ scopes[2] = second
  BY <1>1, <1>2
<1>4. /\ scopes[1].prev = 0 /\ scopes[2].prev = 1 /\ scopes[1].recs = <<>> /\ scopes[2].recs = <<>>
      /\ scopes[1].size = 0 /\ scopes[2].size = 0 /\ scopes[2].func = EntryPoint
  BY <1>3 DEF Scope, first, second
<1>5. \A c \in 1 .. 2 : c = 1 \/ c = 2
  OBVIOUS
<1>6. Tree(scopes)
  <2>1. scopes # <<>>
    BY <1>1
  <2>2. \A c \in 2 .. 2 : c = 2
    OBVIOUS
  <2> QED BY <1>3, <1>4, <2>1, <2>2 DEF Tree
<1>7. IsList(records)
  BY <1>1, EmptyList
<1>8. RecsSize(records, <<>>) = 0 /\ Listed(records, <<>>)
  <2>1. RecsSize(records, <<>>) = Total(<<>>)
    BY DEF RecsSize
  <2>2. <<>> \in Seq(Nat) /\ Len(<<>>) = 0
    OBVIOUS
  <2>3. RecsSize(records, <<>>) = 0
    BY <2>1, <2>2, UptoNone, UptoAll
  <2> QED BY <2>2, <2>3 DEF Listed
<1>9. Sound(scopes, records)
  BY <1>3, <1>4, <1>5, <1>6, <1>7, <1>8 DEF Sound
<1>10. Placed(scopes, records)
  BY <1>1 DEF Placed
<1>11. Roots(scopes)
  <2>1. \A c \in Children(scopes, 1) : c = 2
    BY <1>3, <1>4, <1>5 DEF Children
  <2> QED BY <1>4, <2>1, FramesAssumption DEF Roots, Global
<1>12. Blocks(scopes)
  BY <1>3, <1>4, <1>5 DEF Blocks
<1>13. Apart(scopes, DOMAIN scopes)
  BY <1>3, <1>4, <1>5 DEF Apart
<1>14. temps \in [Funcs -> Seq(Nat)] /\ \A f \in Funcs : temps[f] = <<>>
  BY <1>1
<1>15. inlined \in Seq(Funcs \X Funcs)
  BY <1>1
<1>16. current \in DOMAIN scopes /\ phase \in Phases /\ parsed \subseteq Funcs
  BY <1>1, <1>3 DEF Phases
<1>17. EntryPoint \in Declared /\ func_inline \subseteq Declared \ {EntryPoint}
  <2>1. 2 \in Children(scopes, 1) /\ scopes[2].func = EntryPoint
    BY <1>3, <1>4, <1>5 DEF Children
  <2> QED BY <1>1, <2>1 DEF Init, Declared, Global
<1> QED BY <1>1, <1>9, <1>10, <1>11, <1>12, <1>13, <1>14, <1>15, <1>16, <1>17 DEF TypeInv

\* What the declarations of a kind have in common
LEMMA TypesOf ==
  ASSUME TypeInv
  PROVE  /\ Tree(scopes) /\ IsList(records) /\ 1 \in DOMAIN scopes
         /\ \A c \in Children(scopes, Global) : c \in DOMAIN scopes /\ scopes[c].func \in Funcs
         /\ \A f \in Declared : /\ f \in Funcs /\ FuncScope(f) \in Children(scopes, Global)
                                /\ FuncScope(f) \in DOMAIN scopes /\ scopes[FuncScope(f)].func = f
<1>1. Tree(scopes) /\ IsList(records) /\ Roots(scopes)
  BY DEF TypeInv, Sound
<1>2. \A c \in Children(scopes, Global) : c \in DOMAIN scopes /\ scopes[c].func \in Funcs
  BY <1>1 DEF Roots, Children
<1>3. ASSUME NEW f \in Declared
      PROVE  FuncScope(f) \in Children(scopes, Global) /\ scopes[FuncScope(f)].func = f
  BY DEF Declared, FuncScope
<1>4. \A f \in Declared : f \in Funcs
  BY <1>2 DEF Declared
<1> QED BY <1>1, <1>2, <1>3, <1>4, TreeOf

\* when a global variable is declared,
LEMMA DeclareGlobalTypes == TypeInv /\ DeclareGlobal => TypeInv'
<1> SUFFICES ASSUME TypeInv, DeclareGlobal PROVE TypeInv'
  OBVIOUS
<1>1. PICK t \in Types : /\ records' = records \o parse_decls(<<t>>).recs
                         /\ scopes' = [scopes EXCEPT ![Global] =
                              Extended(@, NewIds(Len(parse_decls(<<t>>).recs)), parse_decls(<<t>>).size)]
  BY DEF DeclareGlobal
<1> DEFINE l == parse_decls(<<t>>)
<1>2. Entries(l)
  <2>1. <<t>> \in Seq(Types)
    OBVIOUS
  <2> QED BY <2>1, DeclareAll
<1>3. /\ phase = "declare" /\ phase' = phase /\ current' = current /\ parsed' = parsed
      /\ inlined' = inlined /\ temps' = temps /\ func_inline' = func_inline
  BY DEF DeclareGlobal
<1> HIDE DEF l
<1>4. records' = Longer(l) /\ scopes' = Grown(1, l)
  BY <1>1 DEF l, Longer, Grown, Ids, Global
<1>5. Sound(scopes, records) /\ 1 \in DOMAIN scopes /\ Tree(scopes)
  BY TypesOf DEF TypeInv
<1>6. /\ SameShape(scopes, scopes')
      /\ \A c \in DOMAIN scopes : c # 1 => scopes'[c] = scopes[c]
      /\ Sound(scopes', records')
  BY <1>2, <1>4, <1>5, GrowScope
<1>7. Placed(scopes', records') /\ Apart(scopes', DOMAIN scopes')
  BY <1>2, <1>3, <1>4, <1>5, GrownPlaces DEF TypeInv
<1>8. DOMAIN scopes' = DOMAIN scopes
  BY <1>6, SameChildren
<1>9. Roots(scopes')
  BY <1>6, SameRoots DEF TypeInv
<1>10. Blocks(scopes')
  <2>1. \A c \in DOMAIN scopes : scopes[c].prev = scopes'[c].prev
    BY <1>6 DEF SameShape
  <2>2. scopes[1].prev = 0
    BY <1>5 DEF Tree
  <2>3. ASSUME NEW c \in DOMAIN scopes', scopes'[c].prev > 1 PROVE scopes'[c].recs # <<>>
    <3>1. c \in DOMAIN scopes /\ scopes[c].prev > 1
      BY <1>8, <2>1, <2>3
    <3>2. scopes'[c] = scopes[c]
      BY <1>6, <2>2, <3>1
    <3> QED BY <3>1, <3>2 DEF TypeInv, Blocks
  <2> QED BY <2>3 DEF Blocks
<1>11. Declared' = Declared
  BY <1>6, SameDeclared
<1> QED BY <1>3, <1>6, <1>7, <1>8, <1>9, <1>10, <1>11 DEF TypeInv

\* a function,
LEMMA DeclareFuncTypes == TypeInv /\ DeclareFunc => TypeInv'
<1> SUFFICES ASSUME TypeInv, DeclareFunc PROVE TypeInv'
  OBVIOUS
<1>1. PICK f \in Funcs \ Declared, args \in SeqOf(ArgTypes, MaxTogether) :
        /\ func_inline' \in {func_inline, func_inline \cup {f}}
        /\ records' = records \o parse_func_args(args).recs
        /\ scopes' = Append(scopes, Scope(f, Global, NewIds(Len(args)), parse_func_args(args).size))
  BY DEF DeclareFunc
<1> DEFINE l == parse_func_args(args)
           new == Len(scopes) + 1
<1>2. Entries(l) /\ Len(l.recs) = Len(args)
  BY SeqOfSeq, DeclareArgs
<1>3. /\ phase = "declare" /\ phase' = phase /\ current' = current /\ parsed' = parsed
      /\ inlined' = inlined /\ temps' = temps /\ func_inline' \subseteq func_inline \cup {f}
  BY <1>1 DEF DeclareFunc
<1> HIDE DEF l
<1>4. records' = Longer(l) /\ scopes' = Opened(f, 1, l)
  BY <1>1, <1>2 DEF l, Longer, Opened, Ids, Global
<1>5. Sound(scopes, records) /\ 1 \in DOMAIN scopes /\ Tree(scopes) /\ f \in FuncNames
  BY TypesOf DEF TypeInv, FuncNames
<1>6. /\ Sound(scopes', records') /\ DOMAIN scopes' = DOMAIN scopes \cup {new}
      /\ new \notin DOMAIN scopes /\ \A c \in DOMAIN scopes : scopes'[c] = scopes[c]
      /\ scopes'[new].func = f
  <2> DEFINE sd == Opened(f, 1, l)
  <2>1. Sound(sd, Longer(l)) /\ DOMAIN sd = DOMAIN scopes \cup {new} /\ new \notin DOMAIN scopes
    BY <1>2, <1>5, OpenScope
  <2>2. \A c \in DOMAIN scopes : sd[c] = scopes[c]
    BY <1>2, <1>5, OpenScope
  <2>3. sd[new].func = f
    BY <1>2, <1>5, OpenScope
  <2> HIDE DEF sd
  <2> QED BY <1>4, <2>1, <2>2, <2>3 DEF sd
<1>7. Placed(scopes', records') /\ Apart(scopes', DOMAIN scopes')
  BY <1>2, <1>3, <1>4, <1>5, OpenedPlaces DEF TypeInv
<1>8. Children(scopes', 1) = Children(scopes, 1) \cup {new}
  BY <1>2, <1>4, <1>5, MoreChildren
<1>9. Roots(scopes')
  <2>1. \A c \in Children(scopes, 1) : c \in DOMAIN scopes /\ scopes[c].func # f
    BY DEF Declared, Children, Global
  <2>2. Roots(scopes)
    BY DEF TypeInv
  <2> HIDE DEF new
  <2> QED BY <1>6, <1>8, <2>1, <2>2 DEF Roots, Global
<1>10. Blocks(scopes')
  BY <1>2, <1>4, <1>5, OpenedBlocks DEF TypeInv
<1>11. EntryPoint \in Declared' /\ func_inline' \subseteq Declared' \ {EntryPoint}
  <2>1. \A c \in Children(scopes, 1) : c \in DOMAIN scopes
    BY DEF Children
  <2>2. \A h \in Declared : h \in Declared'
    BY <1>6, <1>8, <2>1, StillDeclared DEF Global
  <2>3. f \in Declared'
    BY <1>6, <1>8 DEF Declared, Global
  <2>4. f # EntryPoint
    BY DEF TypeInv
  <2> QED BY <1>3, <2>2, <2>3, <2>4 DEF TypeInv
<1> QED BY <1>3, <1>6, <1>7, <1>9, <1>10, <1>11 DEF TypeInv

\* or the variables of a block.
LEMMA AddScopeTypes == TypeInv /\ add_scope => TypeInv'
<1> SUFFICES ASSUME TypeInv, add_scope PROVE TypeInv'
  OBVIOUS
<1>1. PICK ts \in SeqOf(Types, MaxTogether) \ {<<>>} :
        /\ records' = records \o parse_decls(ts).recs
        /\ scopes' = Append(scopes, Scope(scopes[current].func, current,
                              NewIds(Len(parse_decls(ts).recs)), parse_decls(ts).size))
        /\ current' = Len(scopes) + 1
  BY DEF add_scope
<1> DEFINE l == parse_decls(ts)
           new == Len(scopes) + 1
           f == scopes[current].func
<1>2. Entries(l) /\ l.recs # <<>>
  <2>1. ts \in Seq(Types) /\ ts # <<>>
    BY SeqOfSeq
  <2>2. Len(ts) >= 1
    BY <2>1
  <2>3. Entries(l) /\ Len(l.recs) >= Len(ts)
    BY <2>1, DeclareAll
  <2>4. Len(l.recs) \in Nat /\ IsList(l.recs)
    BY <2>3, ListOf DEF Entries
  <2>5. Len(l.recs) # 0
    BY <2>1, <2>2, <2>3, <2>4
  <2> QED BY <2>3, <2>5
<1>3. /\ phase = "declare" /\ current # 1 /\ phase' = phase /\ parsed' = parsed
      /\ inlined' = inlined /\ temps' = temps /\ func_inline' = func_inline
  BY DEF add_scope, Global
<1> HIDE DEF l
<1>4. records' = Longer(l) /\ scopes' = Opened(f, current, l)
  BY <1>1, <1>2 DEF l, Longer, Opened, Ids, Global
<1>5. Sound(scopes, records) /\ current \in DOMAIN scopes /\ Tree(scopes) /\ f \in FuncNames
  <2>1. Sound(scopes, records) /\ current \in DOMAIN scopes /\ Tree(scopes)
    BY TypesOf DEF TypeInv
  <2> QED BY <2>1, ScopeOf DEF FuncNames
<1> HIDE DEF f
<1>6. /\ Sound(scopes', records') /\ DOMAIN scopes' = DOMAIN scopes \cup {new}
      /\ new \notin DOMAIN scopes /\ \A c \in DOMAIN scopes : scopes'[c] = scopes[c]
  <2> DEFINE sd == Opened(f, current, l)
  <2>0. Sound(scopes, records) /\ current \in DOMAIN scopes /\ f \in FuncNames /\ Entries(l)
    BY <1>2, <1>5
  <2>1. Sound(sd, Longer(l)) /\ DOMAIN sd = DOMAIN scopes \cup {new} /\ new \notin DOMAIN scopes
    <3>1. Sound(sd, Longer(l))
      BY <2>0, OpenScope
    <3>2. DOMAIN sd = DOMAIN scopes \cup {new}
      BY <2>0, OpenScope
    <3>3. new \notin DOMAIN scopes
      BY <2>0, OpenScope
    <3> QED BY <3>1, <3>2, <3>3
  <2>2. \A c \in DOMAIN scopes : sd[c] = scopes[c]
    BY <1>2, <1>5, OpenScope
  <2> HIDE DEF sd
  <2> QED BY <1>4, <2>1, <2>2 DEF sd
<1>7. Placed(scopes', records') /\ Apart(scopes', DOMAIN scopes')
  BY <1>2, <1>3, <1>4, <1>5, OpenedPlaces DEF TypeInv
<1>8. Children(scopes', 1) = Children(scopes, 1)
  <2>1. Children(Opened(f, current, l), 1) =
          Children(scopes, 1) \cup (IF 1 = current THEN {new} ELSE {})
    BY <1>2, <1>5, MoreChildren
  <2> QED BY <1>3, <1>4, <2>1
<1>9. Roots(scopes')
  <2>1. \A c \in Children(scopes, 1) : c \in DOMAIN scopes
    BY DEF Children
  <2>2. Roots(scopes)
    BY DEF TypeInv
  <2> QED BY <1>6, <1>8, <2>1, <2>2 DEF Roots, Global
<1>10. Blocks(scopes')
  BY <1>2, <1>4, <1>5, OpenedBlocks DEF TypeInv
<1>11. current' \in DOMAIN scopes'
  BY <1>1, <1>6
<1>12. \A h \in Declared : h \in Declared'
  <2>1. \A c \in Children(scopes, 1) : c \in DOMAIN scopes
    BY DEF Children
  <2> QED BY <1>6, <1>8, <2>1, StillDeclared DEF Global
<1>13. EntryPoint \in Declared' /\ func_inline' \subseteq Declared' \ {EntryPoint}
  BY <1>3, <1>12 DEF TypeInv
<1> QED BY <1>3, <1>6, <1>7, <1>9, <1>10, <1>11, <1>13 DEF TypeInv

\* It holds as long as scopes and records stay as they are,
LEMMA StillTypes ==
  ASSUME TypeInv, scopes' = scopes, records' = records, inlined' = inlined, temps' = temps,
         phase' = phase, current' \in DOMAIN scopes, parsed' \subseteq Funcs,
         func_inline' = func_inline
  PROVE  TypeInv'
<1>1. Declared' = Declared
  BY DEF Declared
<1> QED BY <1>1 DEF TypeInv

\* as when the walk over the program enters or leaves a function or a block.
LEMMA WalkTypes == TypeInv /\ (EnterFunction \/ LeaveFunction \/ LeaveBlock) => TypeInv'
<1> SUFFICES ASSUME TypeInv, EnterFunction \/ LeaveFunction \/ LeaveBlock PROVE TypeInv'
  OBVIOUS
<1>1. Tree(scopes) /\ 1 \in DOMAIN scopes /\ current \in DOMAIN scopes /\ parsed \subseteq Funcs
  BY TypesOf DEF TypeInv
<1>2. CASE EnterFunction
  <2>1. PICK f \in Declared \ parsed : current' = FuncScope(f) /\ parsed' = parsed \cup {f}
    BY <1>2 DEF EnterFunction
  <2>2. current' \in DOMAIN scopes /\ parsed' \subseteq Funcs
    BY <1>1, <2>1, TypesOf
  <2> QED BY <1>2, <2>2, StillTypes DEF EnterFunction
<1>3. CASE LeaveFunction
  <2>1. current' \in DOMAIN scopes
    BY <1>1, <1>3 DEF LeaveFunction, Global
  <2> QED BY <1>1, <1>3, <2>1, StillTypes DEF LeaveFunction
<1>4. CASE LeaveBlock
  <2>1. current' \in DOMAIN scopes
    BY <1>1, <1>4, PrevOf DEF LeaveBlock, Global
  <2> QED BY <1>1, <1>4, <2>1, StillTypes DEF LeaveBlock
<1> QED BY <1>2, <1>3, <1>4

----------------------------------------------------------------------------
(* Offsets *)

\* Records that are replaced one by one are a list of records.
LEMMA ListFrom ==
  ASSUME NEW rs, IsList(rs), NEW rt, DOMAIN rt = DOMAIN rs, rt = [r \in DOMAIN rs |-> rt[r]],
         \A r \in DOMAIN rs : IsRecord(rt[r])
  PROVE  IsList(rt)
<1>1. Len(rs) \in Nat /\ DOMAIN rs = 1 .. Len(rs)
  BY ListOf
<1> DEFINE S == {rt[r] : r \in 1 .. Len(rs)}
           n == Len(rs)
<1>2. rt \in [1 .. n -> S] /\ n \in Nat
  BY <1>1
<1> HIDE DEF S, n
<1>3. rt \in Seq(S)
  BY <1>2
<1> QED BY <1>3 DEF IsList

\* Scopes do not change when their records get offsets.
LEMMA SoundRetyped ==
  ASSUME NEW sc, NEW rs, NEW rt, Sound(sc, rs), IsList(rt), Retyped(rs, rt)
  PROVE  Sound(sc, rt) /\ (Placed(sc, rs) => Placed(sc, rt))
<1>1. ASSUME NEW s \in DOMAIN sc
      PROVE  Listed(rt, sc[s].recs) /\ RecsSize(rt, sc[s].recs) <= sc[s].size
  <2> DEFINE l == sc[s].recs
  <2>1. Listed(rs, l) /\ RecsSize(rs, l) <= sc[s].size
    BY DEF Sound
  <2>2. \A i \in DOMAIN l : l[i] \in DOMAIN rt /\ rs[l[i]].type = rt[l[i]].type
    BY <2>1 DEF Retyped, Listed
  <2>3. Listed(rt, l)
    BY <2>1, <2>2 DEF Listed
  <2>4. RecsSize(rt, l) = RecsSize(rs, l)
    BY <2>2, SameTypes
  <2> QED BY <2>1, <2>3, <2>4
<1> QED BY <1>1 DEF Sound, Placed, Retyped

PlaceIn(sc, s, r) == CHOOSE j \in DOMAIN sc[s].recs : sc[s].recs[j] = r

\* What set_scope_offsets makes of a place: the bytes of the scopes inside, and
\* of the records before it.
Slot(sc, rs, s, i) == Inner(sc, s) + Upto(SizesOf(rs, sc[s].recs), i - 1)

\* A slot is behind the scopes inside, ends with the scope and before the
\* slot of a later record.
LEMMA SlotIs ==
  ASSUME NEW sc, NEW rs, Sound(sc, rs), NEW s \in DOMAIN sc, NEW i \in DOMAIN sc[s].recs
  PROVE  /\ Slot(sc, rs, s, i) \in Nat /\ Inner(sc, s) <= Slot(sc, rs, s, i)
         /\ Slot(sc, rs, s, i) + entry_size(rs[sc[s].recs[i]].type) <=
               Inner(sc, s) + RecsSize(rs, sc[s].recs)
         /\ \A j \in DOMAIN sc[s].recs : i < j =>
               Slot(sc, rs, s, i) + entry_size(rs[sc[s].recs[i]].type) <= Slot(sc, rs, s, j)
<1> DEFINE recs == sc[s].recs
           ns == SizesOf(rs, recs)
           n == Len(recs)
           e == entry_size(rs[recs[i]].type)
           a == Inner(sc, s)
<1>1. /\ n \in Nat /\ DOMAIN recs = 1 .. n /\ ns \in Seq(Nat) /\ Len(ns) = n
      /\ RecsSize(rs, recs) = Total(ns) /\ ns[i] = e /\ e \in Nat
  <2>1. IsList(rs) /\ Listed(rs, recs)
    BY DEF Sound
  <2> QED BY <2>1, SizesOfNat
<1>2. a \in Nat
  BY InnerIs DEF Sound
<1>3. recs = sc[s].recs
  OBVIOUS
<1>4. i \in 1 .. n
  BY <1>1
<1> HIDE DEF recs, ns, n, e, a
<1>5. i - 1 \in 0 .. Len(ns) /\ i \in 1 .. Len(ns) /\ i \in 0 .. Len(ns)
  BY <1>1, <1>4
<1>6. Upto(ns, i) = Upto(ns, i - 1) + e /\ Upto(ns, i - 1) \in Nat
  BY <1>1, <1>5, UptoStep, UptoNat
<1>7. Upto(ns, i) <= Total(ns)
  <2>1. Len(ns) \in i .. Len(ns)
    BY <1>1, <1>4
  <2> QED BY <1>1, <1>5, <2>1, UptoGrows, UptoAll
<1>8. ASSUME NEW j \in 1 .. n, i < j PROVE Upto(ns, i) <= Upto(ns, j - 1) /\ Upto(ns, j - 1) \in Nat
  <2>1. j - 1 \in i .. Len(ns) /\ j - 1 \in 0 .. Len(ns)
    BY <1>1, <1>4, <1>8
  <2> QED BY <1>1, <1>5, <2>1, UptoGrows, UptoNat
<1>9. \A j \in 1 .. n : Slot(sc, rs, s, j) = a + Upto(ns, j - 1)
  BY <1>3 DEF Slot, a, ns
<1>10. Slot(sc, rs, s, i) = a + Upto(ns, i - 1)
  BY <1>4, <1>9
<1>11. Total(ns) \in Nat
  BY <1>1, UptoAll
<1>12. Slot(sc, rs, s, i) \in Nat /\ a <= Slot(sc, rs, s, i)
       /\ Slot(sc, rs, s, i) + e <= a + Total(ns)
  BY <1>1, <1>2, <1>6, <1>7, <1>10, <1>11
<1>13. \A j \in 1 .. n : i < j => Slot(sc, rs, s, i) + e <= Slot(sc, rs, s, j)
  <2> SUFFICES ASSUME NEW j \in 1 .. n, i < j PROVE Slot(sc, rs, s, i) + e <= Slot(sc, rs, s, j)
    OBVIOUS
  <2>1. Upto(ns, i) <= Upto(ns, j - 1) /\ Upto(ns, j - 1) \in Nat
    BY <1>8
  <2>2. Slot(sc, rs, s, j) = a + Upto(ns, j - 1)
    BY <1>9
  <2> QED BY <1>1, <1>2, <1>6, <1>10, <2>1, <2>2
<1> QED BY <1>1, <1>12, <1>13 DEF recs, e, a

\* The offset that a record of a scope gets is that of its slot.
LEMMA RecordOffsetIs ==
  ASSUME Sound(scopes, records), NEW s \in DOMAIN scopes, NEW r,
         \E j \in DOMAIN scopes[s].recs : scopes[s].recs[j] = r
  PROVE  /\ PlaceIn(scopes, s, r) \in DOMAIN scopes[s].recs
         /\ scopes[s].recs[PlaceIn(scopes, s, r)] = r
         /\ RecordOffset(s, r) = Slot(scopes, records, s, PlaceIn(scopes, s, r))
<1> DEFINE i == PlaceIn(scopes, s, r)
           recs == scopes[s].recs
           base == IF Children(scopes, s) = {} THEN 0
                   ELSE max_scope_size(scopes, s) - scopes[s].size
<1>1. i \in DOMAIN recs /\ recs[i] = r
  BY DEF PlaceIn
<1>2. RecordOffset(s, r) = base + RecsSize(records, SubSeq(recs, 1, i - 1))
  BY DEF RecordOffset, PlaceIn
<1>3. base = Inner(scopes, s)
  <2>1. Tree(scopes)
    BY DEF Sound
  <2> DEFINE m == max_scope_size(scopes, s)
             z == scopes[s].size
             a == Inner(scopes, s)
  <2>2. m \in Nat /\ z \in Nat /\ a \in Nat /\ m = z + a
    BY <2>1, MaxIs
  <2>3. Children(scopes, s) = {} => a = 0
    BY <2>1, InnerIs
  <2>4. base = IF Children(scopes, s) = {} THEN 0 ELSE m - z
    OBVIOUS
  <2> HIDE DEF m, z, a, base
  <2>5. m - z = a
    BY <2>2
  <2> QED BY <2>3, <2>4, <2>5 DEF a
<1>4. IsList(records) /\ Listed(records, recs)
  BY DEF Sound
<1>5. Len(recs) \in Nat /\ DOMAIN recs = 1 .. Len(recs)
  BY <1>4, SizesOfNat
<1> HIDE DEF i, base
<1>6. i - 1 \in 0 .. Len(recs)
  BY <1>1, <1>5
<1>7. RecsSize(records, SubSeq(recs, 1, i - 1)) = Upto(SizesOf(records, recs), i - 1)
  <2> HIDE DEF recs
  <2> QED BY <1>4, <1>6, FirstSizes
<1> QED BY <1>1, <1>2, <1>3, <1>7 DEF Slot, i

\* Every record has a scope.
LEMMA HomeIs ==
  ASSUME Placed(scopes, records), NEW r \in DOMAIN records
  PROVE  Home(r) \in DOMAIN scopes /\ \E j \in DOMAIN scopes[Home(r)].recs : scopes[Home(r)].recs[j] = r
BY DEF Placed, Home

\* set_scope_offsets changes the offsets of local variables and nothing else
\* of a record.
LEMMA OffsetRecords ==
  ASSUME TypeInv, set_scope_offsets
  PROVE  /\ IsList(records') /\ Retyped(records, records')
         /\ \A r \in DOMAIN records :
               records'[r].offset = IF IsLocal(r) THEN RecordOffset(Home(r), r) ELSE records[r].offset
<1> DEFINE rt == records'
<1>1. rt = [r \in DOMAIN records |->
          IF IsLocal(r) THEN [records[r] EXCEPT !.offset = RecordOffset(Home(r), r)]
          ELSE records[r]]
  BY DEF set_scope_offsets
<1>2. Sound(scopes, records) /\ Placed(scopes, records) /\ IsList(records)
  BY DEF TypeInv, Sound
<1> HIDE DEF rt
<1>3. ASSUME NEW r \in DOMAIN records
      PROVE  /\ IsRecord(rt[r]) /\ rt[r].type = records[r].type /\ rt[r].need = records[r].need
             /\ rt[r].offset = IF IsLocal(r) THEN RecordOffset(Home(r), r) ELSE records[r].offset
  <2>1. IsRecord(records[r])
    BY <1>2 DEF IsList
  <2>2. rt[r] = IF IsLocal(r) THEN [records[r] EXCEPT !.offset = RecordOffset(Home(r), r)]
                ELSE records[r]
    BY <1>1
  <2>3. CASE ~IsLocal(r)
    BY <2>1, <2>2, <2>3
  <2>4. CASE IsLocal(r)
    <3> DEFINE o == RecordOffset(Home(r), r)
    <3>1. o \in Nat
      <4>1. Home(r) \in DOMAIN scopes
            /\ \E j \in DOMAIN scopes[Home(r)].recs : scopes[Home(r)].recs[j] = r
        BY <1>2, HomeIs
      <4>2. /\ PlaceIn(scopes, Home(r), r) \in DOMAIN scopes[Home(r)].recs
            /\ o = Slot(scopes, records, Home(r), PlaceIn(scopes, Home(r), r))
        BY <1>2, <4>1, RecordOffsetIs
      <4> HIDE DEF o
      <4> QED BY <1>2, <4>1, <4>2, SlotIs
    <3>2. rt[r] = [records[r] EXCEPT !.offset = o]
      BY <2>2, <2>4
    <3> HIDE DEF o
    <3>3. WellSized(records[r].type)
          /\ records[r] = [type |-> records[r].type, offset |-> records[r].offset,
                           need |-> records[r].need]
      BY <2>1 DEF IsRecord
    <3>4. rt[r] = [type |-> records[r].type, offset |-> o, need |-> records[r].need]
      BY <3>2, <3>3
    <3>5. IsRecord(rt[r])
      BY <2>1, <3>1, <3>4, MovedRecord
    <3>6. rt[r].type = records[r].type /\ rt[r].need = records[r].need /\ rt[r].offset = o
      BY <3>4
    <3> QED BY <2>4, <3>5, <3>6 DEF o
  <2> QED BY <2>3, <2>4
<1>4. DOMAIN rt = DOMAIN records /\ rt = [r \in DOMAIN records |-> rt[r]]
  BY <1>1
<1>5. IsList(rt)
  BY <1>2, <1>3, <1>4, ListFrom
<1> QED BY <1>3, <1>4, <1>5 DEF Retyped, rt

\* The invariant of the scopes is kept by set_scope_offsets,
LEMMA OffsetTypes == TypeInv /\ set_scope_offsets => TypeInv'
<1> SUFFICES ASSUME TypeInv, set_scope_offsets PROVE TypeInv'
  OBVIOUS
<1>1. IsList(records') /\ Retyped(records, records')
  BY OffsetRecords
<1>2. /\ scopes' = scopes /\ current' = current /\ parsed' = parsed /\ inlined' = inlined
      /\ temps' = temps /\ phase = "declare" /\ phase' = "inline" /\ func_inline' = func_inline
  BY DEF set_scope_offsets
<1>3. Sound(scopes, records') /\ Placed(scopes, records')
  BY <1>1, SoundRetyped DEF TypeInv
<1>4. Declared' = Declared
  BY <1>2 DEF Declared
<1> QED BY <1>2, <1>3, <1>4 DEF TypeInv, Phases

----------------------------------------------------------------------------
(* Inlining and spilling *)

\* by inlining a call,
LEMMA InlineTypes == TypeInv /\ InlineCall => TypeInv'
<1> SUFFICES ASSUME TypeInv, InlineCall PROVE TypeInv'
  OBVIOUS
<1>1. PICK f \in func_inline : \E g \in Declared \ (Moved \cup {f}) :
          /\ copy_locals(FuncScope(f), FuncScope(g))
          /\ inlined' = Append(inlined, <<f, g>>)
          /\ func_inline' \subseteq func_inline
  BY DEF InlineCall
<1>2. PICK g \in Declared \ (Moved \cup {f}) :
          /\ copy_locals(FuncScope(f), FuncScope(g))
          /\ inlined' = Append(inlined, <<f, g>>)
          /\ func_inline' \subseteq func_inline
  BY <1>1
<1>declared. f \in Declared
  BY DEF TypeInv
<1> DEFINE src == FuncScope(f)
           dest == FuncScope(g)
<1>3. f \in Funcs /\ g \in Funcs /\ dest \in DOMAIN scopes
  BY <1>declared, TypesOf
<1>4. scopes' = CopyScopes(src, dest).scopes /\ records' = CopyScopes(src, dest).records
  BY <1>2 DEF copy_locals
<1> HIDE DEF src, dest
<1>5. Copied(scopes, records, scopes', records', dest)
  BY <1>3, <1>4, CopyLoop DEF TypeInv
<1>6. /\ Sound(scopes', records') /\ SameBut(scopes, scopes', dest) /\ Retyped(records, records')
      /\ SameShape(scopes, scopes') /\ DOMAIN scopes' = DOMAIN scopes
  BY <1>5, SameChildren DEF Copied, SameBut
<1>7. \A s \in DOMAIN scopes : \A i \in DOMAIN scopes[s].recs :
         i \in DOMAIN scopes'[s].recs /\ scopes'[s].recs[i] = scopes[s].recs[i]
  BY <1>6 DEF SameBut
<1>8. Placed(scopes', records')
  <2> SUFFICES ASSUME NEW r \in DOMAIN records'
               PROVE  \E s \in DOMAIN scopes' : \E i \in DOMAIN scopes'[s].recs : scopes'[s].recs[i] = r
    BY DEF Placed
  <2>1. r \in DOMAIN records
    BY <1>6 DEF Retyped
  <2>2. PICK s \in DOMAIN scopes : \E i \in DOMAIN scopes[s].recs : scopes[s].recs[i] = r
    BY <2>1 DEF TypeInv, Placed
  <2>3. PICK i \in DOMAIN scopes[s].recs : scopes[s].recs[i] = r
    BY <2>2
  <2> QED BY <1>6, <1>7, <2>3
<1>9. Roots(scopes')
  BY <1>6, SameRoots DEF TypeInv
<1>10. Blocks(scopes')
  <2> SUFFICES ASSUME NEW c \in DOMAIN scopes', scopes'[c].prev > 1 PROVE scopes'[c].recs # <<>>
    BY DEF Blocks
  <2>1. c \in DOMAIN scopes /\ scopes[c].prev > 1
    BY <1>6 DEF SameShape
  <2>2. scopes[c].recs # <<>> /\ scopes[c].recs \in Seq(Nat)
    BY <2>1, TypesOf, ScopeOf DEF TypeInv, Blocks
  <2>3. 1 \in DOMAIN scopes[c].recs
    BY <2>2
  <2>4. 1 \in DOMAIN scopes'[c].recs
    BY <1>7, <2>1, <2>3
  <2> QED BY <2>4
<1>11. inlined' \in Seq(Funcs \X Funcs)
  BY <1>2, <1>3 DEF TypeInv
<1>12. phase = "inline" /\ phase' = phase /\ current' = current /\ parsed' = parsed /\ temps' = temps
  BY DEF InlineCall
<1>13. Declared' = Declared
  BY <1>6, SameDeclared
<1> QED BY <1>2, <1>6, <1>8, <1>9, <1>10, <1>11, <1>12, <1>13 DEF TypeInv, Phases

\* and when registers are allocated.
LEMMA AllocateTypes == TypeInv /\ AllocateRegisters => TypeInv'
<1> SUFFICES ASSUME TypeInv, AllocateRegisters PROVE TypeInv'
  OBVIOUS
<1>1. Declared' = Declared
  BY DEF AllocateRegisters, Declared
<1> QED BY <1>1 DEF TypeInv, AllocateRegisters, Phases

\* The first temporary of a function is behind its scopes, the next one four
\* bytes behind it.
LEMMA PlaceOfTemp ==
  ASSUME TypeInv, NEW f \in Declared
  PROVE  /\ f \in Funcs /\ temps[f] \in Seq(Nat) /\ Len(temps[f]) \in Nat
         /\ max_scope_size(scopes, FuncScope(f)) \in Nat
         /\ temps[f] = <<>> => temp_stack_location(f) = max_scope_size(scopes, FuncScope(f))
         /\ temps[f] # <<>> => /\ Len(temps[f]) >= 1 /\ temps[f][Len(temps[f])] \in Nat
                               /\ temp_stack_location(f) = temps[f][Len(temps[f])] + 4
<1> DEFINE q == temps[f]
           m == max_scope_size(scopes, FuncScope(f))
           e == q[Len(q)]
<1>1. f \in Funcs /\ FuncScope(f) \in DOMAIN scopes /\ Tree(scopes)
  BY TypesOf
<1>2. m \in Nat
  BY <1>1, MaxIs
<1>3. q \in Seq(Nat)
  BY <1>1 DEF TypeInv
<1>4. Len(q) \in Nat
  BY <1>3
<1>5. temp_stack_location(f) = m + (IF q = <<>> THEN 0 ELSE e - m + 4)
  BY DEF temp_stack_location, Last
<1>6. q # <<>> => Len(q) >= 1 /\ e \in Nat
  <2> HIDE DEF q
  <2> QED BY <1>3 DEF e
<1> HIDE DEF q, m, e
<1>7. q = <<>> => temp_stack_location(f) = m
  BY <1>2, <1>5
<1>8. q # <<>> => temp_stack_location(f) = e + 4
  BY <1>2, <1>5, <1>6
<1> QED BY <1>1, <1>2, <1>3, <1>4, <1>6, <1>7, <1>8 DEF q, m, e

\* The invariant of the scopes is kept when a register is spilled.
LEMMA SpillTypes == TypeInv /\ SpillTemp => TypeInv'
<1> SUFFICES ASSUME TypeInv, SpillTemp PROVE TypeInv'
  OBVIOUS
<1>1. PICK f \in Declared : temps' = [temps EXCEPT ![f] = Append(@, temp_stack_location(f))]
  BY DEF SpillTemp, Left
<1> DEFINE o == temp_stack_location(f)
<1>2. f \in Funcs /\ temps[f] \in Seq(Nat) /\ o \in Nat
  BY PlaceOfTemp
<1> HIDE DEF o
<1>3. Append(temps[f], o) \in Seq(Nat)
  BY <1>2
<1>4. temps' \in [Funcs -> Seq(Nat)]
  BY <1>1, <1>2, <1>3 DEF TypeInv, o
<1>5. /\ phase = "allocate" /\ phase' = phase /\ scopes' = scopes /\ records' = records
      /\ current' = current /\ parsed' = parsed /\ inlined' = inlined
      /\ func_inline' = func_inline
  BY DEF SpillTemp
<1>6. Declared' = Declared
  BY <1>5 DEF Declared
<1> QED BY <1>4, <1>5, <1>6 DEF TypeInv

TempsOf(s) == IF scopes[s].prev = 1 THEN 4 * Len(temps[scopes[s].func]) ELSE 0

\* The temporaries of a function take a number of bytes.
LEMMA TempsNat ==
  ASSUME TypeInv, NEW s \in DOMAIN scopes
  PROVE  TempsOf(s) \in Nat
<1>1. CASE scopes[s].prev # 1
  BY <1>1 DEF TempsOf
<1>2. CASE scopes[s].prev = 1
  <2>1. s \in Children(scopes, Global)
    BY <1>2 DEF Children, Global
  <2>2. scopes[s].func \in Funcs
    BY <2>1, TypesOf
  <2>3. Len(temps[scopes[s].func]) \in Nat
    BY <2>2 DEF TypeInv
  <2>4. 4 * Len(temps[scopes[s].func]) \in Nat
    BY <2>3
  <2> QED BY <1>2, <2>4 DEF TempsOf
<1> QED BY <1>1, <1>2

\* add_temps_to_scopes makes the scopes of functions larger and changes
\* nothing else.
LEMMA TempsScopes ==
  ASSUME TypeInv, add_temps_to_scopes
  PROVE  /\ SameShape(scopes, scopes') /\ DOMAIN scopes' = DOMAIN scopes
         /\ \A s \in DOMAIN scopes : /\ scopes'[s].recs = scopes[s].recs
                                     /\ scopes'[s].size = scopes[s].size + TempsOf(s)
<1>1. scopes' = [s \in DOMAIN scopes |->
          IF scopes[s].prev = 1
            THEN [scopes[s] EXCEPT !.size = @ + 4 * Len(temps[scopes[s].func])]
            ELSE scopes[s]]
  BY DEF add_temps_to_scopes, Global
<1>2. Tree(scopes) /\ scopes \in Seq(ScopeSet)
  BY TypesOf DEF Tree
<1>3. ASSUME NEW s \in DOMAIN scopes
      PROVE  /\ scopes'[s] \in ScopeSet /\ scopes'[s].recs = scopes[s].recs
             /\ scopes'[s].size = scopes[s].size + TempsOf(s)
             /\ scopes'[s].prev = scopes[s].prev /\ scopes'[s].func = scopes[s].func
  <2> DEFINE o == scopes[s]
             z == o.size + TempsOf(s)
             new == [o EXCEPT !.size = z]
  <2>1. /\ o.func \in FuncNames /\ o.prev \in Nat /\ o.recs \in Seq(Nat) /\ o.size \in Nat
        /\ TempsOf(s) \in Nat
    BY <1>2, ScopeOf, TempsNat
  <2>2. o = [func |-> o.func, prev |-> o.prev, recs |-> o.recs, size |-> o.size]
    BY <1>2, ScopeOf
  <2>3. z \in Nat
    BY <2>1
  <2>4. scopes'[s] = new
    <3>1. CASE o.prev = 1
      BY <1>1, <3>1 DEF TempsOf
    <3>2. CASE o.prev # 1
      <4>1. z = o.size
        BY <2>1, <3>2 DEF TempsOf
      <4>2. scopes'[s] = o
        BY <1>1, <3>2
      <4> HIDE DEF z, o
      <4>3. [o EXCEPT !.size = z] = o
        BY <2>2, <4>1
      <4> QED BY <4>2, <4>3
    <3> QED BY <3>1, <3>2
  <2> HIDE DEF z
  <2>5. new = [func |-> o.func, prev |-> o.prev, recs |-> o.recs, size |-> z]
    <3> HIDE DEF o
    <3> QED BY <2>2
  <2> HIDE DEF o, new
  <2>6. /\ new.func = o.func /\ new.prev = o.prev /\ new.recs = o.recs /\ new.size = z
        /\ new \in ScopeSet
    BY <2>1, <2>3, <2>5 DEF ScopeSet
  <2> QED BY <2>4, <2>6 DEF o, z
<1>4. DOMAIN scopes' = DOMAIN scopes
  BY <1>1
<1>5. Len(scopes) \in Nat /\ DOMAIN scopes = 1 .. Len(scopes) /\ 1 \in DOMAIN scopes
      /\ Len(scopes) >= 1
  BY <1>2, TreeOf
<1>6. scopes' \in Seq(ScopeSet) /\ Len(scopes') = Len(scopes)
  <2> DEFINE n == Len(scopes)
             S == ScopeSet
  <2>1. scopes' = [s \in 1 .. n |-> scopes'[s]]
    BY <1>1, <1>5
  <2>2. \A s \in 1 .. n : scopes'[s] \in S
    BY <1>3, <1>5
  <2>3. n \in Nat
    BY <1>5
  <2> HIDE DEF n, S
  <2>4. scopes' \in [1 .. n -> S]
    BY <2>1, <2>2
  <2>5. scopes' \in Seq(S) /\ Len(scopes') = n
    BY <2>3, <2>4
  <2> QED BY <2>5 DEF n, S
<1>7. Tree(scopes')
  <2>1. scopes[1].prev = 0 /\ \A c \in 2 .. Len(scopes) : scopes[c].prev \in 1 .. c - 1
    BY <1>2 DEF Tree
  <2>2. \A c \in 2 .. Len(scopes) : c \in DOMAIN scopes
    BY <1>5
  <2>3. scopes' # <<>>
    BY <1>4, <1>5
  <2> QED BY <1>3, <1>5, <1>6, <2>1, <2>2, <2>3 DEF Tree
<1>8. SameShape(scopes, scopes')
  BY <1>2, <1>3, <1>6, <1>7 DEF SameShape
<1> QED BY <1>3, <1>4, <1>8

\* The invariant of the scopes is kept by add_temps_to_scopes,
LEMMA AddTempsTypes == TypeInv /\ add_temps_to_scopes => TypeInv'
<1> SUFFICES ASSUME TypeInv, add_temps_to_scopes PROVE TypeInv'
  OBVIOUS
<1>1. /\ SameShape(scopes, scopes') /\ DOMAIN scopes' = DOMAIN scopes
      /\ \A s \in DOMAIN scopes : /\ scopes'[s].recs = scopes[s].recs
                                  /\ scopes'[s].size = scopes[s].size + TempsOf(s)
  BY TempsScopes
<1>2. /\ records' = records /\ current' = current /\ parsed' = parsed /\ inlined' = inlined
      /\ temps' = temps /\ phase' = "generate" /\ func_inline' = func_inline
  BY DEF add_temps_to_scopes
<1>3. Sound(scopes', records)
  <2> SUFFICES ASSUME NEW s \in DOMAIN scopes
               PROVE  Listed(records, scopes'[s].recs) /\ RecsSize(records, scopes'[s].recs) <= scopes'[s].size
    BY <1>1 DEF Sound, SameShape, TypeInv
  <2>1. Listed(records, scopes[s].recs) /\ RecsSize(records, scopes[s].recs) <= scopes[s].size
        /\ IsList(records) /\ Tree(scopes)
    BY DEF Sound, TypeInv
  <2> DEFINE a == RecsSize(records, scopes[s].recs)
             z == scopes[s].size
             t == TempsOf(s)
  <2>2. a \in Nat /\ z \in Nat /\ t \in Nat /\ a <= z
    BY <2>1, SizesOfNat, ScopeOf, TempsNat
  <2>3. a <= z + t
    <3> HIDE DEF a, z, t
    <3> QED BY <2>2
  <2> QED BY <1>1, <2>1, <2>3
<1>4. Placed(scopes', records)
  BY <1>1 DEF TypeInv, Placed
<1>5. Roots(scopes')
  BY <1>1, SameRoots DEF TypeInv
<1>6. Blocks(scopes')
  BY <1>1 DEF TypeInv, Blocks, SameShape
<1>7. Declared' = Declared
  BY <1>1, SameDeclared
<1> QED BY <1>1, <1>2, <1>3, <1>4, <1>5, <1>6, <1>7 DEF TypeInv, Phases

\* when nothing changes,
LEMMA StutterTypes == TypeInv /\ UNCHANGED vars => TypeInv'
<1> SUFFICES ASSUME TypeInv, UNCHANGED vars PROVE TypeInv'
  OBVIOUS
<1>1. Declared' = Declared
  BY DEF vars, Declared
<1> QED BY <1>1 DEF TypeInv, vars

\* and so by every step.
LEMMA NextTypes == TypeInv /\ [Next]_vars => TypeInv'
<1> SUFFICES ASSUME TypeInv, [Next]_vars PROVE TypeInv'
  OBVIOUS
<1>1. CASE UNCHANGED vars
  BY <1>1, StutterTypes
<1>2. CASE Done
  BY <1>2, StutterTypes DEF Done
<1>3. CASE DeclareGlobal
  BY <1>3, DeclareGlobalTypes
<1>4. CASE DeclareFunc
  BY <1>4, DeclareFuncTypes
<1>5. CASE EnterFunction \/ LeaveFunction \/ LeaveBlock
  BY <1>5, WalkTypes
<1>6. CASE add_scope
  BY <1>6, AddScopeTypes
<1>7. CASE set_scope_offsets
  BY <1>7, OffsetTypes
<1>8. CASE InlineCall
  BY <1>8, InlineTypes
<1>9. CASE AllocateRegisters
  BY <1>9, AllocateTypes
<1>10. CASE SpillTemp
  BY <1>10, SpillTypes
<1>11. CASE add_temps_to_scopes
  BY <1>11, AddTempsTypes
<1> QED BY <1>1, <1>2, <1>3, <1>4, <1>5, <1>6, <1>7, <1>8, <1>9, <1>10, <1>11 DEF Next

\* It says more than that the state has its types.
LEMMA TypeInvImplies == TypeInv => TypeOK
<1> SUFFICES ASSUME TypeInv PROVE TypeOK
  OBVIOUS
<1>1. Tree(scopes) /\ IsList(records) /\ Sound(scopes, records)
  BY DEF TypeInv, Sound
<1>2. ASSUME NEW s \in DOMAIN scopes
      PROVE  /\ scopes[s].prev \in 0 .. s - 1
             /\ scopes[s].size >= RecsSize(records, scopes[s].recs)
  <2>1. scopes[s].size >= RecsSize(records, scopes[s].recs)
    <3> DEFINE a == RecsSize(records, scopes[s].recs)
               z == scopes[s].size
    <3>1. a <= z
      BY <1>1 DEF Sound
    <3> HIDE DEF a, z
    <3>2. z >= a
      BY <3>1
    <3> QED BY <3>2 DEF a, z
  <2>2. s \in Nat /\ s >= 1
    BY <1>1, TreeOf
  <2>3. s # 1 => scopes[s].prev \in 1 .. s - 1
    BY <1>1, PrevOf
  <2>4. s = 1 => scopes[s].prev = 0
    BY <1>1, PrevOf
  <2> QED BY <2>1, <2>2, <2>3, <2>4
<1>3. \A r \in DOMAIN records : records[r].offset \in Nat
  BY <1>1 DEF IsList, IsRecord
<1> QED BY <1>2, <1>3 DEF TypeOK, TypeInv, Phases

\* ...
----------------------------------------------------------------------------
(* Where the records of a scope are *)

OffsetOf(rs, r) == rs[r].offset
EndOf(rs, r) == rs[r].offset + entry_size(rs[r].type)

\* They are behind the scopes inside, and end before the end of the scope, with
\* some bytes left for the temporaries;
Roomy(sc, rs, s, rest) ==
  \A i \in DOMAIN sc[s].recs : /\ Inner(sc, s) <= OffsetOf(rs, sc[s].recs[i])
                               /\ EndOf(rs, sc[s].recs[i]) + rest <= max_scope_size(sc, s)

\* one is behind the other;
InOrder(sc, rs, s) ==
  \A i, j \in DOMAIN sc[s].recs :
     i < j => EndOf(rs, sc[s].recs[i]) <= OffsetOf(rs, sc[s].recs[j])

\* and as long as nothing was inlined they are where set_scope_offsets put them.
Untouched(sc, rs, s) ==
  \A i \in DOMAIN sc[s].recs : OffsetOf(rs, sc[s].recs[i]) = Slot(sc, rs, s, i)

\* A record of a scope exists and has an offset, a size and an end.
LEMMA RecordOf ==
  ASSUME NEW sc, NEW rs, Sound(sc, rs), NEW s \in DOMAIN sc, NEW i \in DOMAIN sc[s].recs
  PROVE  /\ sc[s].recs[i] \in DOMAIN rs /\ OffsetOf(rs, sc[s].recs[i]) \in Nat
         /\ entry_size(rs[sc[s].recs[i]].type) \in Nat
         /\ EndOf(rs, sc[s].recs[i]) \in Nat
         /\ EndOf(rs, sc[s].recs[i]) =
               OffsetOf(rs, sc[s].recs[i]) + entry_size(rs[sc[s].recs[i]].type)
         /\ i \in Nat /\ i >= 1 /\ i <= Len(sc[s].recs)
<1> DEFINE recs == sc[s].recs
           r == recs[i]
           o == rs[r].offset
           e == entry_size(rs[r].type)
<1>1. IsList(rs) /\ Listed(rs, recs)
  BY DEF Sound
<1>2. r \in DOMAIN rs
  BY <1>1 DEF Listed
<1>3. o \in Nat /\ WellSized(rs[r].type)
  BY <1>1, <1>2 DEF IsList, IsRecord
<1>4. e \in Nat
  BY <1>3, EntryNat
<1>5. EndOf(rs, r) = o + e /\ OffsetOf(rs, r) = o
  BY DEF EndOf, OffsetOf
<1>6. i \in 1 .. Len(recs) /\ Len(recs) \in Nat
  BY <1>1, SizesOfNat
<1> HIDE DEF o, e, r, recs
<1>7. o + e \in Nat
  BY <1>3, <1>4
<1>8. i \in Nat /\ i >= 1 /\ i <= Len(recs)
  BY <1>6
<1> QED BY <1>2, <1>3, <1>4, <1>5, <1>7, <1>8 DEF r, e, recs

\* Records that are in their slots are in order, and behind the scopes
\* inside.
LEMMA UntouchedRoom ==
  ASSUME NEW sc, NEW rs, Sound(sc, rs), NEW s \in DOMAIN sc, Untouched(sc, rs, s)
  PROVE  Roomy(sc, rs, s, 0) /\ InOrder(sc, rs, s)
<1> DEFINE recs == sc[s].recs
           top == max_scope_size(sc, s)
           a == Inner(sc, s)
           z == RecsSize(rs, recs)
<1>1. Tree(sc) /\ IsList(rs) /\ Listed(rs, recs) /\ z <= sc[s].size
  BY DEF Sound
<1>2. top \in Nat /\ a \in Nat /\ sc[s].size \in Nat /\ top = sc[s].size + a
  BY <1>1, MaxIs
<1>3. z \in Nat
  BY <1>1, SizesOfNat
<1>4. a + z <= top
  <2> DEFINE y == sc[s].size
  <2>1. y \in Nat /\ top = y + a /\ z <= y
    BY <1>1, <1>2
  <2> HIDE DEF top, a, z, y
  <2> QED BY <1>2, <1>3, <2>1
<1>5. ASSUME NEW i \in DOMAIN recs
      PROVE  /\ a <= OffsetOf(rs, recs[i]) /\ EndOf(rs, recs[i]) <= top
             /\ \A j \in DOMAIN recs : i < j => EndOf(rs, recs[i]) <= OffsetOf(rs, recs[j])
             /\ EndOf(rs, recs[i]) \in Nat
  <2> DEFINE o == Slot(sc, rs, s, i)
             e == entry_size(rs[recs[i]].type)
  <2>1. /\ o \in Nat /\ a <= o /\ o + e <= a + z
        /\ \A j \in DOMAIN recs : i < j => o + e <= Slot(sc, rs, s, j)
    BY SlotIs
  <2>2. OffsetOf(rs, recs[i]) = o /\ \A j \in DOMAIN recs : OffsetOf(rs, recs[j]) = Slot(sc, rs, s, j)
    BY DEF Untouched
  <2>3. EndOf(rs, recs[i]) = OffsetOf(rs, recs[i]) + e /\ e \in Nat /\ EndOf(rs, recs[i]) \in Nat
    BY RecordOf
  <2> HIDE DEF o, e, recs, top, a, z
  <2>4. EndOf(rs, recs[i]) <= top
    BY <1>2, <1>3, <1>4, <2>1, <2>2, <2>3
  <2> QED BY <2>1, <2>2, <2>3, <2>4
<1> HIDE DEF top, a
<1>6. \A i \in DOMAIN recs : EndOf(rs, recs[i]) + 0 <= top
  BY <1>5
<1> QED BY <1>5, <1>6 DEF Roomy, InOrder, top, a

----------------------------------------------------------------------------
(* Inlining *)

\* A record that stands in one place occurs once.
LEMMA OccursOnce ==
  ASSUME NEW recs, NEW i \in DOMAIN recs, \A j \in DOMAIN recs : recs[j] = recs[i] => j = i
  PROVE  Occurs(recs, recs[i]) = 1
<1>1. {j \in DOMAIN recs : recs[j] = recs[i]} = {i}
  OBVIOUS
<1>2. Cardinality({i}) = 1
  BY FS_Singleton
<1> QED BY <1>1, <1>2 DEF Occurs

\* A record that is in no place of a list does not occur in it.
LEMMA OccursNever ==
  ASSUME NEW recs, NEW r, \A j \in DOMAIN recs : recs[j] # r
  PROVE  Occurs(recs, r) = 0
<1>1. {j \in DOMAIN recs : recs[j] = r} = {}
  OBVIOUS
<1> QED BY <1>1, FS_EmptySet DEF Occurs

\* The caller's scope has its own records first, the copied ones behind
\* them.
LEMMA PlacesOfCopy ==
  ASSUME NEW sc, NEW rs, Sound(sc, rs), NEW one \in DOMAIN sc, NEW dest \in DOMAIN sc,
         NEW p \in DOMAIN Widened(sc, rs, one, dest)[dest].recs
  PROVE  /\ p \in Nat /\ Len(sc[dest].recs) \in Nat
         /\ \/ /\ p \in DOMAIN sc[dest].recs
               /\ Widened(sc, rs, one, dest)[dest].recs[p] = sc[dest].recs[p]
            \/ /\ p - Len(sc[dest].recs) \in DOMAIN sc[one].recs
               /\ Widened(sc, rs, one, dest)[dest].recs[p] = sc[one].recs[p - Len(sc[dest].recs)]
               /\ p > Len(sc[dest].recs)
<1> DEFINE list == sc[dest].recs
           recs == sc[one].recs
           all == Widened(sc, rs, one, dest)[dest].recs
           k == Len(list)
           m == Len(recs)
<1>1. all = list \o recs
  BY CopiedScopes
<1>2. IsList(rs) /\ Listed(rs, list) /\ Listed(rs, recs)
  BY DEF Sound
<1>3. k \in Nat /\ DOMAIN list = 1 .. k /\ m \in Nat /\ DOMAIN recs = 1 .. m
  BY <1>2, SizesOfNat
<1> HIDE DEF list, recs, all
<1>4. /\ Listed(rs, list \o recs) /\ Len(list \o recs) = k + m
      /\ \A i \in 1 .. k : (list \o recs)[i] = list[i]
      /\ \A i \in 1 .. m : (list \o recs)[k + i] = recs[i]
  BY <1>2, BothListed
<1>5. DOMAIN (list \o recs) = 1 .. Len(list \o recs)
  BY <1>2, <1>4, SizesOfNat
<1>6. p \in DOMAIN all
  BY DEF all
<1> HIDE DEF k, m
<1>7. p \in 1 .. k + m
  BY <1>1, <1>4, <1>5, <1>6
<1>8. CASE p \in 1 .. k
  BY <1>1, <1>3, <1>4, <1>7, <1>8 DEF list, recs, all, k
<1>9. CASE p \notin 1 .. k
  <2>1. p - k \in 1 .. m /\ p = k + (p - k) /\ p > k /\ p \in Nat
    BY <1>3, <1>7, <1>9
  <2>2. all[p] = recs[p - k]
    BY <1>1, <1>4, <2>1
  <2> QED BY <1>3, <2>1, <2>2 DEF list, recs, all, k
<1> QED BY <1>8, <1>9

\* Where the copied records and the others go
LEMMA OffsetsOfCopy ==
  ASSUME NEW sc, NEW rs, Sound(sc, rs), NEW one \in DOMAIN sc, NEW dest \in DOMAIN sc
  PROVE  /\ \A r \in DOMAIN rs :
               (\A j \in DOMAIN sc[one].recs : sc[one].recs[j] # r) =>
                  /\ OffsetOf(Shifted(sc, rs, one, dest), r) = OffsetOf(rs, r)
                  /\ EndOf(Shifted(sc, rs, one, dest), r) = EndOf(rs, r)
         /\ \A i \in DOMAIN sc[one].recs :
               (\A j \in DOMAIN sc[one].recs : sc[one].recs[j] = sc[one].recs[i] => j = i) =>
                  /\ OffsetOf(Shifted(sc, rs, one, dest), sc[one].recs[i]) =
                        OffsetOf(rs, sc[one].recs[i]) + max_scope_size(sc, dest)
                  /\ EndOf(Shifted(sc, rs, one, dest), sc[one].recs[i]) =
                        EndOf(rs, sc[one].recs[i]) + max_scope_size(sc, dest)
<1> DEFINE rt == Shifted(sc, rs, one, dest)
           recs == sc[one].recs
           base == max_scope_size(sc, dest)
<1>1. /\ Retyped(rs, rt)
      /\ \A r \in DOMAIN rs : rt[r].offset = rs[r].offset + base * Occurs(recs, r)
  BY CopiedRecords
<1>2. base \in Nat
  BY MaxIs DEF Sound
<1>3. IsList(rs) /\ Listed(rs, recs)
  BY DEF Sound
<1>4. ASSUME NEW r \in DOMAIN rs
      PROVE  /\ rs[r].offset \in Nat /\ entry_size(rs[r].type) \in Nat
             /\ rt[r].type = rs[r].type
             /\ rt[r].offset = rs[r].offset + base * Occurs(recs, r)
  <2>1. IsRecord(rs[r])
    BY <1>3 DEF IsList
  <2>2. rs[r].offset \in Nat /\ entry_size(rs[r].type) \in Nat
    BY <2>1, EntryNat DEF IsRecord
  <2> QED BY <1>1, <2>2 DEF Retyped
<1> HIDE DEF rt, recs, base
<1>5. ASSUME NEW r \in DOMAIN rs, \A j \in DOMAIN recs : recs[j] # r
      PROVE  OffsetOf(rt, r) = OffsetOf(rs, r) /\ EndOf(rt, r) = EndOf(rs, r)
  <2>1. Occurs(recs, r) = 0
    BY <1>5, OccursNever
  <2> DEFINE o == rs[r].offset
  <2>2. o + base * 0 = o
    <3>1. o \in Nat
      BY <1>4
    <3> HIDE DEF o
    <3> QED BY <1>2, <3>1
  <2>3. rt[r].offset = rs[r].offset /\ rt[r].type = rs[r].type
    BY <1>4, <2>1, <2>2
  <2> QED BY <2>3 DEF OffsetOf, EndOf
<1>6. ASSUME NEW i \in DOMAIN recs, \A j \in DOMAIN recs : recs[j] = recs[i] => j = i
      PROVE  /\ OffsetOf(rt, recs[i]) = OffsetOf(rs, recs[i]) + base
             /\ EndOf(rt, recs[i]) = EndOf(rs, recs[i]) + base
  <2> DEFINE r == recs[i]
             o == rs[r].offset
             e == entry_size(rs[r].type)
  <2>1. Occurs(recs, r) = 1
    BY <1>6, OccursOnce
  <2>2. r \in DOMAIN rs
    BY <1>3 DEF Listed
  <2>3. /\ o \in Nat /\ e \in Nat /\ rt[r].type = rs[r].type
        /\ rt[r].offset = o + base * Occurs(recs, r)
    BY <1>4, <2>2
  <2>4. OffsetOf(rs, r) = o /\ EndOf(rs, r) = o + e /\ OffsetOf(rt, r) = rt[r].offset
        /\ EndOf(rt, r) = rt[r].offset + e
    BY <2>3 DEF OffsetOf, EndOf
  <2> HIDE DEF r, o, e
  <2>5. rt[r].offset = o + base
    BY <1>2, <2>1, <2>3
  <2>6. EndOf(rt, r) = EndOf(rs, r) + base
    BY <1>2, <2>3, <2>4, <2>5
  <2> QED BY <2>4, <2>5, <2>6 DEF r
<1> QED BY <1>5, <1>6 DEF rt, recs, base

\* The caller's scope when one scope was copied to its end
LEMMA RoomOfCopy ==
  ASSUME NEW sc, NEW rs, Sound(sc, rs), NEW one \in DOMAIN sc, NEW dest \in Children(sc, 1),
         one # dest, Apart(sc, {one, dest}), Untouched(sc, rs, one), Children(sc, one) = {},
         Roomy(sc, rs, dest, 0), InOrder(sc, rs, dest),
         NEW sd, sd = Widened(sc, rs, one, dest), NEW rt, rt = Shifted(sc, rs, one, dest)
  PROVE  Roomy(sd, rt, dest, 0) /\ InOrder(sd, rt, dest)
<1> DEFINE list == sc[dest].recs
           recs == sc[one].recs
           all == sd[dest].recs
           base == max_scope_size(sc, dest)
           z == RecsSize(rs, recs)
           a == Inner(sc, dest)
           k == Len(list)
<1>1. Tree(sc) /\ IsList(rs) /\ Listed(rs, list) /\ Listed(rs, recs) /\ dest \in DOMAIN sc
      /\ dest # 1 /\ sc[dest].prev = 1
  BY ChildOf DEF Sound, Children
<1>2. base \in Nat /\ a \in Nat /\ base = sc[dest].size + a /\ sc[dest].size \in Nat
  BY <1>1, MaxIs
<1>3. z \in Nat
  BY <1>1, SizesOfNat
<1>4. Inner(sd, dest) = a /\ max_scope_size(sd, dest) = base + z
  <2>1. SameBut(sc, sd, dest) /\ sd[dest].size = sc[dest].size + z
    BY <1>1, CopiedScopes
  <2>2. SameShape(sc, sd) /\ Tree(sd) /\ DOMAIN sd = DOMAIN sc
    BY <2>1, SameChildren DEF SameBut, SameShape
  <2>3. Inner(sc, dest) = Inner(sd, dest)
    <3> DEFINE R == {1, dest}
    <3>1. \A c \in DOMAIN sc : c \in R \/ sc[c].size = sd[c].size
      BY <2>1 DEF SameBut
    <3>2. \A c \in DOMAIN sc : c \in R /\ c # 1 => sc[c].prev \in R
      BY <1>1
    <3>3. \A d \in Children(sc, dest) : d \notin R
      BY <1>1, ChildOf
    <3> HIDE DEF R
    <3> QED BY <1>1, <2>2, <3>1, <3>2, <3>3, SameMax
  <2>4. max_scope_size(sd, dest) = sd[dest].size + Inner(sd, dest)
    BY <1>1, <2>2, MaxIs
  <2> DEFINE y == sc[dest].size
  <2>5. (y + z) + a = base + z
    <3>1. y \in Nat /\ base = y + a
      BY <1>2
    <3> HIDE DEF y, z, a, base
    <3> QED BY <1>2, <1>3, <3>1
  <2> QED BY <2>1, <2>3, <2>4, <2>5
<1>5. Inner(sc, one) = 0
  BY <1>1, InnerIs
<1>6. ASSUME NEW i \in DOMAIN list
      PROVE  /\ OffsetOf(rt, list[i]) = OffsetOf(rs, list[i])
             /\ EndOf(rt, list[i]) = EndOf(rs, list[i])
             /\ OffsetOf(rs, list[i]) \in Nat /\ EndOf(rs, list[i]) \in Nat
             /\ a <= OffsetOf(rs, list[i]) /\ EndOf(rs, list[i]) <= base
  <2>1. \A j \in DOMAIN recs : recs[j] # list[i]
    BY DEF Apart
  <2>2. list[i] \in DOMAIN rs /\ OffsetOf(rs, list[i]) \in Nat /\ EndOf(rs, list[i]) \in Nat
    BY <1>1, RecordOf
  <2>3. a <= OffsetOf(rs, list[i]) /\ EndOf(rs, list[i]) + 0 <= base
    BY DEF Roomy
  <2> HIDE DEF a, base, list, recs
  <2>4. EndOf(rs, list[i]) <= base
    BY <1>2, <2>2, <2>3
  <2>5. OffsetOf(rt, list[i]) = OffsetOf(rs, list[i]) /\ EndOf(rt, list[i]) = EndOf(rs, list[i])
    BY <1>1, <2>1, <2>2, OffsetsOfCopy DEF recs
  <2> QED BY <2>2, <2>3, <2>4, <2>5
<1>7. ASSUME NEW i \in DOMAIN recs
      PROVE  /\ OffsetOf(rt, recs[i]) = Slot(sc, rs, one, i) + base
             /\ Slot(sc, rs, one, i) \in Nat
             /\ EndOf(rt, recs[i]) \in Nat
             /\ EndOf(rt, recs[i]) <= base + z
             /\ \A j \in DOMAIN recs : i < j => EndOf(rt, recs[i]) <= Slot(sc, rs, one, j) + base
  <2> DEFINE o == Slot(sc, rs, one, i)
             e == entry_size(rs[recs[i]].type)
             t == EndOf(rt, recs[i])
  <2>1. \A j \in DOMAIN recs : recs[j] = recs[i] => j = i
    BY DEF Apart
  <2>2. OffsetOf(rt, recs[i]) = OffsetOf(rs, recs[i]) + base
        /\ EndOf(rt, recs[i]) = EndOf(rs, recs[i]) + base
    BY <1>1, <2>1, OffsetsOfCopy
  <2>3. /\ o \in Nat /\ o + e <= Inner(sc, one) + z
        /\ \A j \in DOMAIN recs : i < j => o + e <= Slot(sc, rs, one, j)
    BY SlotIs
  <2>4. OffsetOf(rs, recs[i]) = o
    BY DEF Untouched
  <2>5. EndOf(rs, recs[i]) = OffsetOf(rs, recs[i]) + e /\ e \in Nat
    BY RecordOf
  <2>6. \A j \in DOMAIN recs : Slot(sc, rs, one, j) \in Nat
    BY SlotIs
  <2>61. t = EndOf(rt, recs[i])
    OBVIOUS
  <2> HIDE DEF o, e, a, base, z, recs, t
  <2>7. t = o + e + base /\ t \in Nat
    BY <1>2, <2>2, <2>3, <2>4, <2>5, <2>61
  <2>8. t <= base + z
    BY <1>2, <1>3, <1>5, <2>3, <2>5, <2>7
  <2>9. \A j \in DOMAIN recs : i < j => t <= Slot(sc, rs, one, j) + base
    BY <1>2, <2>3, <2>5, <2>6, <2>7
  <2> QED BY <2>2, <2>3, <2>4, <2>61, <2>7, <2>8, <2>9 DEF o
<1>8. ASSUME NEW p \in DOMAIN all
      PROVE  /\ p \in Nat /\ k \in Nat
             /\ \/ p \in DOMAIN list /\ all[p] = list[p]
                \/ p - k \in DOMAIN recs /\ all[p] = recs[p - k] /\ p > k
  BY <1>1, PlacesOfCopy
<1>9. \A i \in DOMAIN list : i <= k
  <2>1. k \in Nat /\ DOMAIN list = 1 .. k
    BY <1>1, SizesOfNat
  <2> HIDE DEF k, list
  <2> QED BY <2>1
<1>90. all = sd[dest].recs
  OBVIOUS
<1> HIDE DEF list, recs, all, base, z, a, k
<1>10. ASSUME NEW p \in DOMAIN all
       PROVE  a <= OffsetOf(rt, all[p]) /\ EndOf(rt, all[p]) + 0 <= base + z
  <2>1. CASE p \in DOMAIN list /\ all[p] = list[p]
    <3>1. /\ OffsetOf(rt, all[p]) = OffsetOf(rs, list[p])
          /\ EndOf(rt, all[p]) = EndOf(rs, list[p])
          /\ OffsetOf(rs, list[p]) \in Nat /\ EndOf(rs, list[p]) \in Nat
          /\ a <= OffsetOf(rs, list[p]) /\ EndOf(rs, list[p]) <= base
      BY <1>6, <2>1
    <3> QED BY <1>2, <1>3, <3>1
  <2>2. CASE p - k \in DOMAIN recs /\ all[p] = recs[p - k] /\ p > k
    <3> DEFINE i == p - k
               y == sc[dest].size
    <3>1. /\ OffsetOf(rt, all[p]) = Slot(sc, rs, one, i) + base
          /\ Slot(sc, rs, one, i) \in Nat
          /\ EndOf(rt, all[p]) \in Nat
          /\ EndOf(rt, all[p]) <= base + z
      BY <1>7, <2>2
    <3>2. a <= base
      <4>1. y \in Nat /\ base = y + a
        BY <1>2
      <4> HIDE DEF y
      <4> QED BY <1>2, <4>1
    <3> HIDE DEF i
    <3> QED BY <1>2, <1>3, <3>1, <3>2
  <2> QED BY <1>8, <2>1, <2>2
<1>11. ASSUME NEW p \in DOMAIN all, NEW q \in DOMAIN all, p < q
       PROVE  EndOf(rt, all[p]) <= OffsetOf(rt, all[q])
  <2>1. /\ p \in Nat /\ q \in Nat /\ k \in Nat
        /\ \/ p \in DOMAIN list /\ all[p] = list[p]
           \/ p - k \in DOMAIN recs /\ all[p] = recs[p - k] /\ p > k
        /\ \/ q \in DOMAIN list /\ all[q] = list[q]
           \/ q - k \in DOMAIN recs /\ all[q] = recs[q - k] /\ q > k
    BY <1>8
  <2>2. CASE p \in DOMAIN list /\ all[p] = list[p] /\ q \in DOMAIN list /\ all[q] = list[q]
    <3>1. EndOf(rs, list[p]) <= OffsetOf(rs, list[q])
      BY <1>11, <2>2 DEF InOrder, list
    <3> QED BY <1>6, <2>2, <3>1
  <2>3. CASE p \in DOMAIN list /\ all[p] = list[p]
             /\ q - k \in DOMAIN recs /\ all[q] = recs[q - k] /\ q > k
    <3>1. EndOf(rt, all[p]) <= base /\ EndOf(rt, all[p]) \in Nat
      BY <1>6, <2>3
    <3>2. OffsetOf(rt, all[q]) = Slot(sc, rs, one, q - k) + base /\ Slot(sc, rs, one, q - k) \in Nat
      BY <1>7, <2>3
    <3> QED BY <1>2, <3>1, <3>2
  <2>4. CASE p - k \in DOMAIN recs /\ all[p] = recs[p - k] /\ p > k
             /\ q \in DOMAIN list /\ all[q] = list[q]
    BY <1>9, <1>11, <2>1, <2>4
  <2>5. CASE p - k \in DOMAIN recs /\ all[p] = recs[p - k] /\ p > k
             /\ q - k \in DOMAIN recs /\ all[q] = recs[q - k] /\ q > k
    <3>1. p - k < q - k
      BY <1>11, <2>1
    <3>2. EndOf(rt, all[p]) <= Slot(sc, rs, one, q - k) + base
      BY <1>7, <2>5, <3>1
    <3>3. OffsetOf(rt, all[q]) = Slot(sc, rs, one, q - k) + base
      BY <1>7, <2>5
    <3> QED BY <3>2, <3>3
  <2> QED BY <2>1, <2>2, <2>3, <2>4, <2>5
<1> QED BY <1>4, <1>10, <1>11, <1>90 DEF Roomy, InOrder

----------------------------------------------------------------------------
(* Functions and their scopes *)

Names(sc) == {sc[c].func : c \in Children(sc, Global)}
Root(sc, f) == CHOOSE c \in Children(sc, Global) : sc[c].func = f
Family(sc, c) == {s \in DOMAIN sc : c \in Ancestors(sc, s)}

\* The scope of a function is below the global one and has its name.
LEMMA RootIs ==
  ASSUME NEW sc, Tree(sc), NEW f \in Names(sc)
  PROVE  /\ Root(sc, f) \in Children(sc, 1) /\ sc[Root(sc, f)].func = f
         /\ Root(sc, f) \in DOMAIN sc /\ Root(sc, f) # 1
         /\ Root(sc, f) \in Family(sc, Root(sc, f))
<1>1. Root(sc, f) \in Children(sc, 1) /\ sc[Root(sc, f)].func = f
  BY DEF Names, Root, Global
<1>2. 1 \in DOMAIN sc
  BY TreeOf
<1>3. Root(sc, f) \in DOMAIN sc /\ Root(sc, f) # 1
  BY <1>1, <1>2, ChildOf
<1>4. Root(sc, f) \in Ancestors(sc, Root(sc, f))
  BY <1>3, AncestorIs
<1> QED BY <1>1, <1>3, <1>4 DEF Family

\* Trees of the same shape have the same functions.
LEMMA SameRoot ==
  ASSUME NEW sc, NEW sd, SameShape(sc, sd), Roots(sc)
  PROVE  /\ Names(sd) = Names(sc)
         /\ \A f \in Names(sc) : Root(sd, f) = Root(sc, f)
         /\ \A c : Family(sd, c) = Family(sc, c)
<1>1. Tree(sc) /\ Tree(sd)
  BY DEF SameShape
<1>2. DOMAIN sc = DOMAIN sd /\ \A s : Children(sc, s) = Children(sd, s)
  BY SameChildren
<1>3. \A s \in DOMAIN sc : Ancestors(sc, s) = Ancestors(sd, s)
  BY SameAncestors
<1>4. \A c \in Children(sc, 1) : c \in DOMAIN sc
  BY DEF Children
<1>5. \A c \in Children(sc, 1) : sc[c].func = sd[c].func
  BY <1>4 DEF SameShape
<1>6. Names(sd) = Names(sc)
  BY <1>2, <1>5 DEF Names, Global
<1>7. ASSUME NEW f \in Names(sc) PROVE Root(sd, f) = Root(sc, f)
  <2>1. Root(sc, f) \in Children(sc, 1) /\ sc[Root(sc, f)].func = f
    BY <1>1, RootIs
  <2>2. Root(sd, f) \in Children(sd, 1) /\ sd[Root(sd, f)].func = f
    BY <1>1, <1>6, RootIs
  <2>3. Root(sd, f) \in Children(sc, 1) /\ sc[Root(sd, f)].func = f
    BY <1>2, <1>5, <2>2
  <2> QED BY <2>1, <2>3 DEF Roots, Global
<1>8. \A c : Family(sd, c) = Family(sc, c)
  BY <1>2, <1>3 DEF Family
<1> QED BY <1>6, <1>7, <1>8

\* A scope belongs to one function.
LEMMA OneFamily ==
  ASSUME NEW sc, Tree(sc), NEW f \in Names(sc), NEW g \in Names(sc), NEW s,
         s \in Family(sc, Root(sc, f)), s \in Family(sc, Root(sc, g))
  PROVE  f = g
<1>1. Root(sc, f) \in Children(sc, 1) /\ sc[Root(sc, f)].func = f
  BY RootIs
<1>2. Root(sc, g) \in Children(sc, 1) /\ sc[Root(sc, g)].func = g
  BY RootIs
<1>3. Root(sc, f) = Root(sc, g)
  BY <1>1, <1>2, OneRoot DEF Family
<1> QED BY <1>1, <1>2, <1>3

\* The scopes of a function are not the global one.
LEMMA NotGlobal ==
  ASSUME NEW sc, Tree(sc), NEW f \in Names(sc), NEW s \in Family(sc, Root(sc, f))
  PROVE  s # 1 /\ s \in DOMAIN sc
<1>1. Root(sc, f) # 1 /\ Root(sc, f) \in Ancestors(sc, s) /\ s \in DOMAIN sc
  BY RootIs DEF Family
<1> QED BY <1>1, AncestorIs

\* The functions that were not inlined, whose variables are their own, and
\* those into which nothing was, with their scopes
Unmoved == Declared \ Moved
ScopesOf(fs) == UNION {Family(scopes, Root(scopes, f)) : f \in fs}
UnmovedScopes == ScopesOf(Unmoved)
ClosedScopes == ScopesOf(Declared \ Callers)
Rest(s) == IF phase = "generate" THEN TempsOf(s) ELSE 0

Placement ==
  /\ Apart(scopes, UnmovedScopes) /\ Apart(scopes, ClosedScopes)
  /\ \A f \in Moved : \A s \in Family(scopes, Root(scopes, f)) : InOrder(scopes, records, s)
  /\ \A f \in Unmoved : \A s \in Family(scopes, Root(scopes, f)) :
        /\ Roomy(scopes, records, s, Rest(s)) /\ InOrder(scopes, records, s)
        /\ phase = "inline" /\ f \notin Callers => Untouched(scopes, records, s)

Layout == phase # "declare" /\ CopiedOnce => Placement

TempPlaces ==
  /\ \A c \in Children(scopes, Global) : Rest(c) <= scopes[c].size
  /\ \A f \in Declared : \A i \in DOMAIN temps[f] :
        temps[f][i] + Rest(FuncScope(f)) = max_scope_size(scopes, FuncScope(f)) + 4 * (i - 1)

\* The functions and scopes of the state.
LEMMA StateNames ==
  /\ Declared = Names(scopes)
  /\ \A f : FuncScope(f) = Root(scopes, f) /\ OwnScopes(f) = Family(scopes, Root(scopes, f))
BY DEF Declared, Names, FuncScope, Root, OwnScopes, Family

\* The functions that were not inlined are declared.
LEMMA UnmovedIs ==
  ASSUME TypeInv, NEW f \in Unmoved
  PROVE  f \in Names(scopes) /\ f \in Declared
BY StateNames DEF Unmoved

----------------------------------------------------------------------------
(* The offsets are given *)

\* After set_scope_offsets every variable is in its slot, and so they are
\* placed right.
LEMMA OffsetPlacement == TypeInv /\ set_scope_offsets => Placement'
<1> SUFFICES ASSUME TypeInv, set_scope_offsets PROVE Placement'
  OBVIOUS
<1>1. /\ IsList(records') /\ Retyped(records, records')
      /\ \A r \in DOMAIN records :
            records'[r].offset = IF IsLocal(r) THEN RecordOffset(Home(r), r) ELSE records[r].offset
  BY OffsetRecords
<1>2. /\ scopes' = scopes /\ inlined' = inlined /\ temps' = temps
      /\ phase = "declare" /\ phase' = "inline"
  BY DEF set_scope_offsets
<1>3. /\ Sound(scopes, records) /\ Placed(scopes, records) /\ Apart(scopes, DOMAIN scopes)
      /\ Tree(scopes) /\ Sound(scopes, records')
  BY <1>1, <1>2, SoundRetyped DEF TypeInv, Sound
<1>4. ASSUME NEW s \in DOMAIN scopes, s # 1 PROVE Untouched(scopes, records', s)
  <2> SUFFICES ASSUME NEW i \in DOMAIN scopes[s].recs
               PROVE  OffsetOf(records', scopes[s].recs[i]) = Slot(scopes, records', s, i)
    BY DEF Untouched
  <2> DEFINE recs == scopes[s].recs
             r == recs[i]
  <2>1. r \in DOMAIN records /\ Listed(records, recs)
    BY <1>3, RecordOf DEF Sound
  <2>2. Home(r) = s
    <3>1. Home(r) \in DOMAIN scopes /\ \E j \in DOMAIN scopes[Home(r)].recs : scopes[Home(r)].recs[j] = r
      BY <1>3, <2>1, HomeIs
    <3> QED BY <1>3, <3>1 DEF Apart
  <2>3. PlaceIn(scopes, s, r) = i /\ RecordOffset(s, r) = Slot(scopes, records, s, PlaceIn(scopes, s, r))
    <3>1. /\ PlaceIn(scopes, s, r) \in DOMAIN recs /\ recs[PlaceIn(scopes, s, r)] = r
          /\ RecordOffset(s, r) = Slot(scopes, records, s, PlaceIn(scopes, s, r))
      BY <1>3, RecordOffsetIs
    <3> QED BY <1>3, <3>1 DEF Apart
  <2>4. records'[r].offset = RecordOffset(s, r)
    BY <1>1, <1>4, <2>1, <2>2 DEF IsLocal, Global
  <2>5. SizesOf(records', recs) = SizesOf(records, recs)
    <3>1. \A j \in DOMAIN recs : records'[recs[j]].type = records[recs[j]].type
      BY <1>1, <2>1 DEF Retyped, Listed
    <3> HIDE DEF recs
    <3> QED BY <3>1, SameTypes
  <2> HIDE DEF r
  <2>6. Slot(scopes, records', s, i) = Slot(scopes, records, s, i)
    BY <2>5 DEF Slot
  <2> QED BY <2>3, <2>4, <2>6 DEF OffsetOf, r
<1>5. ASSUME NEW f \in Unmoved', NEW s \in Family(scopes, Root(scopes, f))
      PROVE  /\ s \in DOMAIN scopes /\ Untouched(scopes, records', s)
             /\ Roomy(scopes, records', s, 0) /\ InOrder(scopes, records', s)
  <2>1. Declared' = Declared
    BY <1>2 DEF Declared
  <2>2. f \in Names(scopes)
    BY <2>1, StateNames DEF Unmoved
  <2>3. s # 1 /\ s \in DOMAIN scopes
    BY <1>3, <2>2, NotGlobal
  <2> QED BY <1>3, <1>4, <2>3, UntouchedRoom
<1>6. UnmovedScopes' \subseteq DOMAIN scopes
  <2>1. UnmovedScopes' = UNION {Family(scopes, Root(scopes, f)) : f \in Unmoved'}
    BY <1>2 DEF UnmovedScopes, ScopesOf
  <2> QED BY <1>5, <2>1
<1>7. Apart(scopes, UnmovedScopes')
  BY <1>3, <1>6 DEF Apart
<1>8. \A s : Rest(s)' = 0
  BY <1>2 DEF Rest
<1>9. Moved' = {}
  <2>1. inlined' = <<>>
    BY <1>2 DEF TypeInv
  <2> QED BY <2>1 DEF Moved
<1>10. Apart(scopes, ClosedScopes')
  <2>1. ClosedScopes' = UNION {Family(scopes, Root(scopes, f)) : f \in (Declared \ Callers)'}
    BY <1>2 DEF ClosedScopes, ScopesOf
  <2>2. ClosedScopes' \subseteq DOMAIN scopes
    BY <2>1 DEF Family
  <2> QED BY <1>3, <2>2 DEF Apart
<1> QED BY <1>2, <1>5, <1>7, <1>8, <1>9, <1>10 DEF Placement

----------------------------------------------------------------------------
(* A call is inlined *)

Filled(sc, c) == {s \in Family(sc, c) : sc[s].recs # <<>>}

\* A function has finitely many scopes with variables.
LEMMA FilledFinite ==
  ASSUME NEW sc, Tree(sc), NEW c
  PROVE  IsFiniteSet(Filled(sc, c)) /\ Cardinality(Filled(sc, c)) \in Nat
<1>1. Len(sc) \in Nat /\ DOMAIN sc = 1 .. Len(sc)
  BY TreeOf
<1>2. IsFiniteSet(1 .. Len(sc))
  BY <1>1, FS_Interval
<1>3. Filled(sc, c) \subseteq 1 .. Len(sc)
  BY <1>1 DEF Filled, Family
<1>4. IsFiniteSet(Filled(sc, c))
  BY <1>2, <1>3, FS_Subset
<1> QED BY <1>4, FS_CardinalityType

\* Copying takes no variables out of a scope.
LEMMA FilledBefore ==
  ASSUME NEW sc, NEW sd, NEW dest, SameBut(sc, sd, dest), NEW c,
         Cardinality(Filled(sd, c)) <= 1
  PROVE  Cardinality(Filled(sc, c)) <= 1
<1>1. SameShape(sc, sd) /\ Tree(sc) /\ Tree(sd)
  BY DEF SameBut, SameShape
<1>2. DOMAIN sc = DOMAIN sd /\ \A s \in DOMAIN sc : Ancestors(sc, s) = Ancestors(sd, s)
  BY <1>1, SameChildren, SameAncestors
<1>3. ASSUME NEW s \in Filled(sc, c) PROVE s \in Filled(sd, c)
  <2>1. s \in DOMAIN sc /\ c \in Ancestors(sc, s) /\ sc[s].recs # <<>>
    BY <1>3 DEF Filled, Family
  <2>2. sc[s].recs \in Seq(Nat)
    BY <1>1, <2>1, ScopeOf
  <2>3. 1 \in DOMAIN sc[s].recs
    BY <2>1, <2>2
  <2>4. sd[s].recs # <<>>
    <3>1. CASE s = dest
      <4>1. 1 \in DOMAIN sd[s].recs
        BY <2>3, <3>1 DEF SameBut
      <4> QED BY <4>1
    <3>2. CASE s # dest
      BY <2>1, <3>2 DEF SameBut
    <3> QED BY <3>1, <3>2
  <2> QED BY <1>2, <2>1, <2>4 DEF Filled, Family
<1>4. IsFiniteSet(Filled(sd, c)) /\ Cardinality(Filled(sd, c)) \in Nat
      /\ Cardinality(Filled(sc, c)) \in Nat
  BY <1>1, FilledFinite
<1>5. Cardinality(Filled(sc, c)) <= Cardinality(Filled(sd, c))
  BY <1>3, <1>4, FS_Subset
<1> QED BY <1>4, <1>5

\* All variables are in one scope when at most one is filled.
LEMMA OneFilled ==
  ASSUME NEW sc, Tree(sc), NEW c \in DOMAIN sc, Cardinality(Filled(sc, c)) <= 1
  PROVE  \E one \in Family(sc, c) : \A s \in Family(sc, c) : s # one => sc[s].recs = <<>>
<1> DEFINE F == Filled(sc, c)
<1>1. IsFiniteSet(F) /\ Cardinality(F) \in Nat
  BY FilledFinite
<1>2. ASSUME NEW s \in F, NEW z \in F PROVE s = z
  <2> SUFFICES ASSUME s # z PROVE FALSE
    OBVIOUS
  <2>1. IsFiniteSet({s}) /\ Cardinality({s}) = 1
    BY FS_Singleton
  <2>2. Cardinality({s} \cup {z}) = Cardinality({s}) + 1
    BY <2>1, FS_AddElement
  <2>3. {s} \cup {z} \subseteq F
    BY <1>2
  <2> HIDE DEF F
  <2>4. Cardinality({s} \cup {z}) <= Cardinality(F)
    BY <1>1, <2>3, FS_Subset
  <2> QED BY <1>1, <2>1, <2>2, <2>4 DEF F
<1>3. CASE F = {}
  <2>1. c \in Family(sc, c)
    BY AncestorIs DEF Family
  <2>2. \A s \in Family(sc, c) : sc[s].recs = <<>>
    BY <1>3 DEF Filled
  <2> QED BY <2>1, <2>2
<1>4. CASE F # {}
  <2>1. PICK one \in F : TRUE
    BY <1>4
  <2>2. one \in Family(sc, c)
    BY DEF Filled
  <2>3. \A s \in Family(sc, c) : s # one => sc[s].recs = <<>>
    BY <1>2 DEF Filled
  <2> QED BY <2>2, <2>3
<1> QED BY <1>3, <1>4

\* The functions that are inlined have scopes.
InlinedDeclared == phase # "declare" => \A i \in DOMAIN inlined : inlined[i][1] \in Declared

\* What CopiedOnce says, in these terms.
LEMMA CopiedOnceIs ==
  CopiedOnce <=>
    \A i \in DOMAIN inlined :
       /\ \A j \in DOMAIN inlined : /\ inlined[j][1] = inlined[i][1] => i = j
                                    /\ inlined[j][2] # inlined[i][1]
       /\ Cardinality(Filled(scopes, Root(scopes, inlined[i][1]))) <= 1
BY StateNames DEF CopiedOnce, Filled

\* What a step that inlines a call does.
LEMMA CallInlined ==
  ASSUME TypeInv, InlineCall
  PROVE  \E f \in Declared, g \in Declared :
            /\ f # g /\ g \notin Moved
            /\ scopes' = CopyScopes(Root(scopes, f), Root(scopes, g)).scopes
            /\ records' = CopyScopes(Root(scopes, f), Root(scopes, g)).records
            /\ inlined' = Append(inlined, <<f, g>>)
            /\ phase = "inline" /\ phase' = "inline" /\ temps' = temps
            /\ f \in Names(scopes) /\ g \in Names(scopes)
            /\ Root(scopes, g) \in DOMAIN scopes
            /\ Copied(scopes, records, scopes', records', Root(scopes, g))
            /\ SameShape(scopes, scopes') /\ Roots(scopes)
<1>1. PICK f \in func_inline : \E g \in Declared \ (Moved \cup {f}) :
          /\ copy_locals(FuncScope(f), FuncScope(g))
          /\ inlined' = Append(inlined, <<f, g>>)
          /\ func_inline' \subseteq func_inline
  BY DEF InlineCall
<1>2. PICK g \in Declared \ (Moved \cup {f}) :
          /\ copy_locals(FuncScope(f), FuncScope(g))
          /\ inlined' = Append(inlined, <<f, g>>)
          /\ func_inline' \subseteq func_inline
  BY <1>1
<1>declared. f \in Declared
  BY DEF TypeInv
<1> DEFINE src == Root(scopes, f)
           dest == Root(scopes, g)
<1>3. f \in Names(scopes) /\ g \in Names(scopes) /\ FuncScope(f) = src /\ FuncScope(g) = dest
  BY <1>declared, StateNames
<1>4. Tree(scopes) /\ Roots(scopes) /\ Sound(scopes, records)
  BY DEF TypeInv, Sound
<1>5. dest \in DOMAIN scopes
  BY <1>3, <1>4, RootIs
<1>6. scopes' = CopyScopes(src, dest).scopes /\ records' = CopyScopes(src, dest).records
  BY <1>2, <1>3 DEF copy_locals
<1> HIDE DEF src, dest
<1>7. Copied(scopes, records, scopes', records', dest)
  BY <1>4, <1>5, <1>6, CopyLoop
<1>8. SameShape(scopes, scopes')
  BY <1>7 DEF Copied, SameBut
<1>9. phase = "inline" /\ phase' = "inline" /\ temps' = temps
  BY DEF InlineCall
<1> QED BY <1>declared, <1>2, <1>3, <1>4, <1>5, <1>6, <1>7, <1>8, <1>9 DEF src, dest

\* One more element at the end of a list.
LEMMA OneMore ==
  ASSUME NEW S, NEW q \in Seq(S), NEW e \in S, NEW p, p = Append(q, e)
  PROVE  /\ Len(q) + 1 \in DOMAIN p /\ p[Len(q) + 1] = e
         /\ \A i \in DOMAIN q : i \in DOMAIN p /\ p[i] = q[i] /\ i # Len(q) + 1
         /\ \A i \in DOMAIN p : i \in DOMAIN q \/ i = Len(q) + 1
OBVIOUS

\* What the condition on the copies after the step says of the state before it
LEMMA CopiedBefore ==
  ASSUME TypeInv, InlinedDeclared, CopiedOnce',
         NEW f \in Names(scopes), NEW g \in Names(scopes), f # g, f \in Funcs, g \in Funcs,
         inlined' = Append(inlined, <<f, g>>), phase # "declare",
         NEW dest, SameBut(scopes, scopes', dest)
  PROVE  /\ CopiedOnce /\ f \notin Moved /\ f \notin Callers
         /\ Cardinality(Filled(scopes, Root(scopes, f))) <= 1
         /\ Moved' = Moved \cup {f} /\ Callers' = Callers \cup {g}
<1> DEFINE n == Len(inlined) + 1
           e == <<f, g>>
<1>1. inlined \in Seq(Funcs \X Funcs) /\ e \in Funcs \X Funcs
  BY DEF TypeInv
<1>2. e[1] = f /\ e[2] = g
  OBVIOUS
<1> HIDE DEF e
<1>3. /\ n \in DOMAIN inlined' /\ inlined'[n] = e
      /\ \A i \in DOMAIN inlined : i \in DOMAIN inlined' /\ inlined'[i] = inlined[i] /\ i # n
      /\ \A i \in DOMAIN inlined' : i \in DOMAIN inlined \/ i = n
  <2> DEFINE S == Funcs \X Funcs
  <2>1. inlined \in Seq(S) /\ e \in S /\ inlined' = Append(inlined, e)
    BY <1>1 DEF e
  <2> HIDE DEF S
  <2> QED BY <2>1, OneMore
<1> HIDE DEF n
<1>4. SameShape(scopes, scopes') /\ Roots(scopes) /\ Tree(scopes)
  BY DEF SameBut, SameShape, TypeInv
<1>5. \A h \in Names(scopes) : Root(scopes', h) = Root(scopes, h)
  BY <1>4, SameRoot
<1>6. \A i \in DOMAIN inlined' :
         /\ \A j \in DOMAIN inlined' : /\ inlined'[j][1] = inlined'[i][1] => i = j
                                       /\ inlined'[j][2] # inlined'[i][1]
         /\ Cardinality(Filled(scopes', Root(scopes', inlined'[i][1]))) <= 1
  <2>1. \A f_1 : OwnScopes(f_1)' = Family(scopes', Root(scopes', f_1))
    BY DEF OwnScopes, Family, Root, FuncScope
  <2> QED BY <2>1 DEF CopiedOnce, Filled
<1>7. Cardinality(Filled(scopes, Root(scopes, f))) <= 1
  <2>1. Cardinality(Filled(scopes', Root(scopes', f))) <= 1
    BY <1>2, <1>3, <1>6
  <2> QED BY <1>5, <2>1, FilledBefore
<1>8. f \notin Moved /\ f \notin Callers
  BY <1>2, <1>3, <1>6 DEF Moved, Callers
<1>9. CopiedOnce
  <2> SUFFICES ASSUME NEW i \in DOMAIN inlined
               PROVE  /\ \A j \in DOMAIN inlined : /\ inlined[j][1] = inlined[i][1] => i = j
                                                   /\ inlined[j][2] # inlined[i][1]
                      /\ Cardinality(Filled(scopes, Root(scopes, inlined[i][1]))) <= 1
    BY CopiedOnceIs
  <2>1. i \in DOMAIN inlined' /\ inlined'[i] = inlined[i]
    BY <1>3
  <2>2. \A j \in DOMAIN inlined : /\ inlined[j][1] = inlined[i][1] => i = j
                                  /\ inlined[j][2] # inlined[i][1]
    BY <1>3, <1>6, <2>1
  <2>3. inlined[i][1] \in Names(scopes)
    BY StateNames DEF InlinedDeclared
  <2>4. Cardinality(Filled(scopes', Root(scopes', inlined[i][1]))) <= 1
    BY <1>6, <2>1
  <2>5. Cardinality(Filled(scopes, Root(scopes, inlined[i][1]))) <= 1
    BY <1>5, <2>3, <2>4, FilledBefore
  <2> QED BY <2>2, <2>5
<1>10. Moved' = Moved \cup {f}
  <2>1. Moved' = {inlined'[i][1] : i \in DOMAIN inlined'}
    BY DEF Moved
  <2> QED BY <1>2, <1>3, <2>1 DEF Moved
<1>11. Callers' = Callers \cup {g}
  <2>1. Callers' = {inlined'[i][2] : i \in DOMAIN inlined'}
    BY DEF Callers
  <2> QED BY <1>2, <1>3, <2>1 DEF Callers
<1> QED BY <1>7, <1>8, <1>9, <1>10, <1>11

\* A scope that is filled with variables and is the only one of its function has
\* no scopes inside.
LEMMA OnlyOne ==
  ASSUME TypeInv, NEW src \in DOMAIN scopes, src # 1, NEW one \in Family(scopes, src),
         \A s \in Family(scopes, src) : s # one => scopes[s].recs = <<>>
  PROVE  Children(scopes, one) = {}
<1>1. Tree(scopes) /\ Blocks(scopes)
  BY DEF TypeInv, Sound
<1>2. one \in DOMAIN scopes /\ src \in Ancestors(scopes, one)
  BY DEF Family
<1>3. one # 1
  BY <1>1, <1>2, AncestorIs
<1> SUFFICES ASSUME NEW c \in Children(scopes, one) PROVE FALSE
  OBVIOUS
<1>4. c \in DOMAIN scopes /\ scopes[c].prev = one /\ c > one /\ c # 1
  BY <1>1, <1>2, ChildOf
<1>5. src \in Ancestors(scopes, c)
  BY <1>1, <1>2, <1>4, AncestorIs
<1>6. one \in Nat /\ one >= 1 /\ c \in Nat
  BY <1>1, <1>2, <1>4, TreeOf
<1>7. one > 1 /\ c # one
  BY <1>3, <1>4, <1>6
<1>8. scopes[c].recs # <<>>
  BY <1>1, <1>4, <1>7 DEF Blocks
<1> QED BY <1>4, <1>5, <1>7, <1>8 DEF Family

\* Scopes that are not the caller's stay as they are.
LEMMA OthersStay ==
  ASSUME NEW sc, NEW rs, Sound(sc, rs), NEW one \in DOMAIN sc, NEW dest \in Children(sc, 1),
         NEW s \in DOMAIN sc, s # 1, s # dest, s # one, Apart(sc, {one, s}),
         NEW sd, sd = Widened(sc, rs, one, dest), NEW rt, rt = Shifted(sc, rs, one, dest)
  PROVE  /\ sd[s] = sc[s] /\ Inner(sd, s) = Inner(sc, s)
         /\ max_scope_size(sd, s) = max_scope_size(sc, s)
         /\ \A i \in DOMAIN sc[s].recs : /\ OffsetOf(rt, sc[s].recs[i]) = OffsetOf(rs, sc[s].recs[i])
                                         /\ EndOf(rt, sc[s].recs[i]) = EndOf(rs, sc[s].recs[i])
         /\ SizesOf(rt, sc[s].recs) = SizesOf(rs, sc[s].recs)
<1> DEFINE R == {1, dest}
           list == sc[s].recs
<1>1. Tree(sc) /\ dest \in DOMAIN sc /\ sc[dest].prev = 1 /\ dest # 1 /\ Listed(rs, list)
  BY ChildOf DEF Sound, Children
<1>2. SameBut(sc, sd, dest)
  BY <1>1, CopiedScopes
<1>3. sd[s] = sc[s] /\ SameShape(sc, sd)
  BY <1>2 DEF SameBut
<1>4. \A c \in DOMAIN sc : c \in R \/ sc[c].size = sd[c].size
  BY <1>2 DEF SameBut
<1>5. \A c \in DOMAIN sc : c \in R /\ c # 1 => sc[c].prev \in R
  BY <1>1
<1>6. \A d \in Children(sc, s) : d \notin R
  BY <1>1, ChildOf
<1>7. s \notin R
  OBVIOUS
<1>8. max_scope_size(sc, s) = max_scope_size(sd, s) /\ Inner(sc, s) = Inner(sd, s)
  <2> HIDE DEF R
  <2> QED BY <1>3, <1>4, <1>5, <1>6, <1>7, SameMax
<1>9. ASSUME NEW i \in DOMAIN list
      PROVE  /\ OffsetOf(rt, list[i]) = OffsetOf(rs, list[i])
             /\ EndOf(rt, list[i]) = EndOf(rs, list[i])
  <2>1. \A j \in DOMAIN sc[one].recs : sc[one].recs[j] # list[i]
    BY DEF Apart
  <2>2. list[i] \in DOMAIN rs
    BY <1>1 DEF Listed
  <2> HIDE DEF list
  <2> QED BY <1>1, <2>1, <2>2, OffsetsOfCopy
<1>10. SizesOf(rt, list) = SizesOf(rs, list)
  <2>1. Retyped(rs, rt)
    BY <1>1, CopiedRecords
  <2>2. \A i \in DOMAIN list : rs[list[i]].type = rt[list[i]].type
    BY <1>1, <2>1 DEF Retyped, Listed
  <2> HIDE DEF list
  <2> QED BY <2>2, SameTypes
<1> QED BY <1>3, <1>8, <1>9, <1>10

\* The scopes of the functions that were not inlined have their records apart
\* when those of one of the other scopes were copied.
LEMMA StillApart ==
  ASSUME NEW sc, NEW rs, Sound(sc, rs), NEW one \in DOMAIN sc, NEW dest \in DOMAIN sc,
         NEW S, one \notin S, dest \in S, S \subseteq DOMAIN sc, Apart(sc, S \cup {one}),
         NEW sd, sd = Widened(sc, rs, one, dest)
  PROVE  Apart(sd, S)
<1> DEFINE k == Len(sc[dest].recs)
<1>1. SameBut(sc, sd, dest)
  BY CopiedScopes
<1>2. ASSUME NEW s \in S, NEW i \in DOMAIN sd[s].recs
      PROVE  \/ i \in DOMAIN sc[s].recs /\ sd[s].recs[i] = sc[s].recs[i]
             \/ s = dest /\ i \in Nat /\ k \in Nat /\ i - k \in DOMAIN sc[one].recs
                /\ sd[s].recs[i] = sc[one].recs[i - k]
  <2>1. CASE s # dest
    <3>1. sd[s] = sc[s]
      BY <1>1, <2>1 DEF SameBut
    <3> QED BY <3>1
  <2>2. CASE s = dest
    <3>1. i \in DOMAIN Widened(sc, rs, one, dest)[dest].recs
      BY <2>2
    <3> QED BY <2>2, <3>1, PlacesOfCopy
  <2> QED BY <2>1, <2>2
<1> HIDE DEF k
<1> SUFFICES ASSUME NEW s \in S, NEW z \in S, NEW i \in DOMAIN sd[s].recs,
                    NEW j \in DOMAIN sd[z].recs, sd[s].recs[i] = sd[z].recs[j]
             PROVE  s = z /\ i = j
  BY DEF Apart
<1>3. \/ i \in DOMAIN sc[s].recs /\ sd[s].recs[i] = sc[s].recs[i]
      \/ s = dest /\ i \in Nat /\ k \in Nat /\ i - k \in DOMAIN sc[one].recs
         /\ sd[s].recs[i] = sc[one].recs[i - k]
  BY <1>2
<1>4. \/ j \in DOMAIN sc[z].recs /\ sd[z].recs[j] = sc[z].recs[j]
      \/ z = dest /\ j \in Nat /\ k \in Nat /\ j - k \in DOMAIN sc[one].recs
         /\ sd[z].recs[j] = sc[one].recs[j - k]
  BY <1>2
<1>5. CASE i \in DOMAIN sc[s].recs /\ sd[s].recs[i] = sc[s].recs[i]
           /\ j \in DOMAIN sc[z].recs /\ sd[z].recs[j] = sc[z].recs[j]
  <2>1. sc[s].recs[i] = sc[z].recs[j]
    BY <1>5
  <2> QED BY <1>5, <2>1 DEF Apart
<1>6. CASE i \in DOMAIN sc[s].recs /\ sd[s].recs[i] = sc[s].recs[i]
           /\ j - k \in DOMAIN sc[one].recs /\ sd[z].recs[j] = sc[one].recs[j - k]
  <2>1. sc[s].recs[i] = sc[one].recs[j - k]
    BY <1>6
  <2>2. s = one
    BY <1>6, <2>1 DEF Apart
  <2> QED BY <2>2
<1>7. CASE i - k \in DOMAIN sc[one].recs /\ sd[s].recs[i] = sc[one].recs[i - k]
           /\ j \in DOMAIN sc[z].recs /\ sd[z].recs[j] = sc[z].recs[j]
  <2>1. sc[z].recs[j] = sc[one].recs[i - k]
    BY <1>7
  <2>2. z = one
    BY <1>7, <2>1 DEF Apart
  <2> QED BY <2>2
<1>8. CASE s = dest /\ z = dest /\ i \in Nat /\ j \in Nat /\ k \in Nat
           /\ i - k \in DOMAIN sc[one].recs /\ sd[s].recs[i] = sc[one].recs[i - k]
           /\ j - k \in DOMAIN sc[one].recs /\ sd[z].recs[j] = sc[one].recs[j - k]
  <2>1. i - k = j - k
    BY <1>8 DEF Apart
  <2>2. i = j
    BY <1>8, <2>1
  <2> QED BY <1>8, <2>2
<1> QED BY <1>3, <1>4, <1>5, <1>6, <1>7, <1>8

\* The records of a scope stay in order when they are moved.
LEMMA MovedTogether ==
  ASSUME NEW sc, NEW rs, Sound(sc, rs), NEW one \in DOMAIN sc, NEW dest \in DOMAIN sc,
         InOrder(sc, rs, one),
         \A i, j \in DOMAIN sc[one].recs : sc[one].recs[i] = sc[one].recs[j] => i = j,
         NEW sd, sd[one] = sc[one], NEW rt, rt = Shifted(sc, rs, one, dest)
  PROVE  InOrder(sd, rt, one)
<1> DEFINE recs == sc[one].recs
           base == max_scope_size(sc, dest)
<1>1. base \in Nat
  BY MaxIs DEF Sound
<1> SUFFICES ASSUME NEW i \in DOMAIN recs, NEW j \in DOMAIN recs, i < j
             PROVE  EndOf(rt, recs[i]) <= OffsetOf(rt, recs[j])
  BY DEF InOrder
<1> DEFINE e == EndOf(rs, recs[i])
           o == OffsetOf(rs, recs[j])
<1>2. e \in Nat /\ o \in Nat /\ e <= o
  BY RecordOf DEF InOrder
<1>3. EndOf(rt, recs[i]) = e + base /\ OffsetOf(rt, recs[j]) = o + base
  BY OffsetsOfCopy
<1> HIDE DEF e, o, base, recs
<1> QED BY <1>1, <1>2, <1>3

\* The functions that were inlined are declared, and under CopiedOnce nothing
\* was inlined into them.
LEMMA MovedIs ==
  ASSUME InlinedDeclared, CopiedOnce, phase # "declare", NEW f \in Moved
  PROVE  f \in Names(scopes) /\ f \in Declared /\ f \notin Callers
         /\ Cardinality(Filled(scopes, Root(scopes, f))) <= 1
<1>1. PICK i \in DOMAIN inlined : inlined[i][1] = f
  BY DEF Moved
<1>2. f \notin Callers
  BY <1>1 DEF CopiedOnce, Callers
<1> QED BY <1>1, <1>2, StateNames, CopiedOnceIs DEF InlinedDeclared

\* When all functions are copied once and from one scope, the variables of
\* the caller are placed right after the call is inlined: the slots of the
\* inlined function start at zero, and are moved to where the caller ended.
LEMMA InlinePlacement ==
  TypeInv /\ Layout /\ InlinedDeclared /\ InlineCall /\ CopiedOnce' => Placement'
<1> SUFFICES ASSUME TypeInv, Layout, InlinedDeclared, InlineCall, CopiedOnce' PROVE Placement'
  OBVIOUS
<1>1. PICK f \in Declared, g \in Declared :
            /\ f # g /\ g \notin Moved
            /\ scopes' = CopyScopes(Root(scopes, f), Root(scopes, g)).scopes
            /\ records' = CopyScopes(Root(scopes, f), Root(scopes, g)).records
            /\ inlined' = Append(inlined, <<f, g>>)
            /\ phase = "inline" /\ phase' = "inline" /\ temps' = temps
            /\ f \in Names(scopes) /\ g \in Names(scopes)
            /\ Root(scopes, g) \in DOMAIN scopes
            /\ Copied(scopes, records, scopes', records', Root(scopes, g))
            /\ SameShape(scopes, scopes') /\ Roots(scopes)
  BY CallInlined
<1> DEFINE src == Root(scopes, f)
           dest == Root(scopes, g)
           Scopes(h) == Family(scopes, Root(scopes, h))
<1>2. Tree(scopes) /\ Sound(scopes, records) /\ f \in Funcs /\ g \in Funcs
  BY TypesOf DEF TypeInv
<1>3. /\ CopiedOnce /\ f \notin Moved /\ f \notin Callers
      /\ Cardinality(Filled(scopes, src)) <= 1
      /\ Moved' = Moved \cup {f} /\ Callers' = Callers \cup {g}
  <2>1. SameBut(scopes, scopes', dest)
    BY <1>1 DEF Copied
  <2> QED BY <1>1, <1>2, <2>1, CopiedBefore
<1>4. Placement
  BY <1>1, <1>3 DEF Layout
<1>5. /\ src \in Children(scopes, 1) /\ src \in DOMAIN scopes /\ src # 1
      /\ dest \in Children(scopes, 1) /\ dest \in DOMAIN scopes /\ dest # 1 /\ dest \in Scopes(g)
  BY <1>1, <1>2, RootIs
<1>6. /\ \A h, e \in Names(scopes) : \A s \in Scopes(h) : s \in Scopes(e) => h = e
      /\ \A h \in Names(scopes) : \A s \in Scopes(h) : s # 1 /\ s \in DOMAIN scopes
  BY <1>2, OneFamily, NotGlobal
<1>7. /\ f \in Unmoved /\ g \in Unmoved /\ Unmoved' = Unmoved \ {f}
      /\ \A h \in Unmoved : h \in Names(scopes)
  <2>1. Declared' = Declared
    <3>1. Names(scopes') = Names(scopes)
      BY <1>1, SameRoot
    <3> QED BY <3>1 DEF Declared, Names
  <2> QED BY <1>1, <1>3, <2>1, UnmovedIs DEF Unmoved
<1>8. PICK one \in Scopes(f) : \A s \in Scopes(f) : s # one => scopes[s].recs = <<>>
  BY <1>2, <1>3, <1>5, OneFilled
<1>9. one \in DOMAIN scopes /\ src \in Ancestors(scopes, one) /\ one # dest
  BY <1>1, <1>5, <1>6 DEF Family
<1>10. Untouched(scopes, records, one)
  BY <1>1, <1>3, <1>4, <1>7 DEF Placement
<1>11. scopes' = Widened(scopes, records, one, dest) /\ records' = Shifted(scopes, records, one, dest)
  <2>1. src \notin Ancestors(scopes, dest)
    BY <1>1, <1>5, <1>6 DEF Family
  <2>2. \A s \in DOMAIN scopes :
            src \in Ancestors(scopes, s) /\ s # one => scopes[s].recs = <<>>
    BY <1>8 DEF Family
  <2> HIDE DEF src, dest
  <2> QED BY <1>1, <1>2, <1>5, <1>9, <2>1, <2>2, CopyOfOne DEF src, dest
<1>12. Children(scopes, one) = {}
  BY <1>5, <1>8, OnlyOne
<1>13. /\ \A h \in Unmoved : \A s \in Scopes(h) : s \in UnmovedScopes
       /\ \A s \in UnmovedScopes : \E h \in Unmoved : s \in Scopes(h)
       /\ Apart(scopes, UnmovedScopes)
  BY <1>4 DEF UnmovedScopes, ScopesOf, Placement
<1>14. one \in UnmovedScopes /\ dest \in UnmovedScopes
  BY <1>5, <1>7, <1>13
<1>15. ASSUME NEW h \in Unmoved'
       PROVE  Family(scopes', Root(scopes', h)) = Scopes(h) /\ h \in Unmoved /\ h # f /\ one \notin Scopes(h)
  <2>1. h \in Unmoved /\ h # f /\ h \in Names(scopes)
    BY <1>7
  <2>2. Root(scopes', h) = Root(scopes, h)
    BY <1>1, <2>1, SameRoot
  <2>3. Family(scopes', Root(scopes', h)) = Scopes(h)
    BY <1>1, <2>2, SameRoot
  <2>4. one \notin Scopes(h)
    BY <1>1, <1>6, <2>1
  <2> QED BY <2>1, <2>3, <2>4
<1>16. UnmovedScopes' = UNION {Scopes(h) : h \in Unmoved'}
  <2>1. UnmovedScopes' = UNION {Family(scopes', Root(scopes', h)) : h \in Unmoved'}
    BY DEF UnmovedScopes, ScopesOf
  <2> QED BY <1>15, <2>1
<1> HIDE DEF src, dest, Scopes
<1>17. /\ one \notin UnmovedScopes' /\ dest \in UnmovedScopes' /\ UnmovedScopes' \subseteq UnmovedScopes
       /\ UnmovedScopes' \subseteq DOMAIN scopes
  <2>1. dest \in UnmovedScopes'
    BY <1>1, <1>5, <1>7, <1>16
  <2>2. UnmovedScopes' \subseteq UnmovedScopes
    BY <1>13, <1>15, <1>16
  <2>3. UnmovedScopes' \subseteq DOMAIN scopes
    BY <1>6, <1>7, <1>15, <1>16
  <2>4. one \notin UnmovedScopes'
    BY <1>15, <1>16
  <2> QED BY <2>1, <2>2, <2>3, <2>4
<1>18. Apart(scopes', UnmovedScopes')
  <2> DEFINE S == UnmovedScopes'
  <2>1. Apart(scopes, S \cup {one})
    BY <1>13, <1>14, <1>17 DEF Apart
  <2>2. one \notin S /\ dest \in S /\ S \subseteq DOMAIN scopes
    BY <1>17
  <2> HIDE DEF S
  <2>3. Apart(scopes', S)
    BY <1>2, <1>5, <1>9, <1>11, <2>1, <2>2, StillApart
  <2> QED BY <2>3 DEF S
<1>19. ASSUME NEW h \in Unmoved', NEW s \in Scopes(h)
       PROVE  /\ Roomy(scopes', records', s, 0) /\ InOrder(scopes', records', s)
              /\ h \notin Callers' => Untouched(scopes', records', s)
  <2>1. /\ h \in Unmoved /\ h # f /\ one \notin Scopes(h) /\ s \in UnmovedScopes
        /\ h \in Names(scopes) /\ s \in DOMAIN scopes /\ s # 1 /\ s # one
    BY <1>6, <1>7, <1>13, <1>15
  <2>2. /\ Roomy(scopes, records, s, 0) /\ InOrder(scopes, records, s)
        /\ h \notin Callers => Untouched(scopes, records, s)
    <3>1. Rest(s) = 0
      BY <1>1 DEF Rest
    <3> QED BY <1>1, <1>4, <2>1, <3>1 DEF Placement, Scopes
  <2>3. CASE s = dest
    <3>1. h = g
      BY <1>1, <1>5, <1>6, <2>1, <2>3
    <3>2. Apart(scopes, {one, dest})
      BY <1>13, <1>14 DEF Apart
    <3>3. Roomy(scopes', records', dest, 0) /\ InOrder(scopes', records', dest)
      BY <1>2, <1>5, <1>9, <1>10, <1>11, <1>12, <2>2, <2>3, <3>2, RoomOfCopy
    <3> QED BY <1>3, <2>3, <3>1, <3>3
  <2>4. CASE s # dest
    <3>1. Apart(scopes, {one, s})
      BY <1>13, <1>14, <2>1 DEF Apart
    <3> DEFINE sd == scopes'
               rt == records'
    <3>2. /\ sd[s] = scopes[s] /\ Inner(sd, s) = Inner(scopes, s)
          /\ max_scope_size(sd, s) = max_scope_size(scopes, s)
          /\ \A i \in DOMAIN scopes[s].recs :
                /\ OffsetOf(rt, scopes[s].recs[i]) = OffsetOf(records, scopes[s].recs[i])
                /\ EndOf(rt, scopes[s].recs[i]) = EndOf(records, scopes[s].recs[i])
          /\ SizesOf(rt, scopes[s].recs) = SizesOf(records, scopes[s].recs)
      <4>1. sd = Widened(scopes, records, one, dest) /\ rt = Shifted(scopes, records, one, dest)
        BY <1>11
      <4> HIDE DEF sd, rt
      <4> QED BY <1>2, <1>5, <1>9, <2>1, <2>4, <3>1, <4>1, OthersStay
    <3> HIDE DEF sd, rt
    <3>3. Roomy(sd, rt, s, 0)
      BY <2>2, <3>2 DEF Roomy
    <3>4. InOrder(sd, rt, s)
      BY <2>2, <3>2 DEF InOrder
    <3>5. h \notin Callers => Untouched(sd, rt, s)
      BY <2>2, <3>2 DEF Untouched, Slot
    <3> QED BY <1>3, <3>3, <3>4, <3>5 DEF sd, rt
  <2> QED BY <2>3, <2>4
<1>20. \A s : Rest(s)' = 0
  BY <1>1 DEF Rest
<1>21. /\ \A h \in Names(scopes) : Family(scopes', Root(scopes', h)) = Scopes(h)
       /\ Declared = Names(scopes) /\ Declared' = Declared
  BY <1>1, SameRoot, SameDeclared, StateNames DEF Scopes
<1>22. /\ Apart(scopes, ClosedScopes) /\ ClosedScopes \subseteq DOMAIN scopes
       /\ \A h \in Declared \ Callers : \A s \in Scopes(h) : s \in ClosedScopes
  BY <1>4 DEF ClosedScopes, ScopesOf, Family, Scopes, Placement
<1>23. ASSUME NEW s \in ClosedScopes'
       PROVE  s \in ClosedScopes /\ s \in DOMAIN scopes /\ scopes'[s] = scopes[s]
  <2>1. PICK h \in Declared \ (Callers \cup {g}) : s \in Scopes(h)
    BY <1>3, <1>21 DEF ClosedScopes, ScopesOf
  <2>2. s # dest
    BY <1>1, <1>5, <1>6, <1>21, <2>1
  <2>3. s \in ClosedScopes /\ s \in DOMAIN scopes
    BY <1>22, <2>1
  <2> QED BY <1>1, <2>2, <2>3 DEF Copied, SameBut, dest
<1>24. Apart(scopes', ClosedScopes')
  <2> DEFINE S == ClosedScopes'
             sd == scopes'
  <2>1. \A s \in S : s \in ClosedScopes /\ sd[s] = scopes[s]
    BY <1>23
  <2> HIDE DEF S, sd
  <2>2. Apart(sd, S)
    BY <1>22, <2>1 DEF Apart
  <2> QED BY <2>2 DEF S, sd
<1>25. ASSUME NEW h \in Moved', NEW s \in Scopes(h)
       PROVE  InOrder(scopes', records', s)
  <2> DEFINE sd == scopes'
             rt == records'
  <2>0. sd = Widened(scopes, records, one, dest) /\ rt = Shifted(scopes, records, one, dest)
    BY <1>11
  <2>1. CASE h = f /\ s = one
    <3>1. InOrder(scopes, records, one) /\ sd[one] = scopes[one]
      BY <1>1, <1>2, <1>9, <1>10, UntouchedRoom DEF Copied, SameBut, dest
    <3>2. \A i, j \in DOMAIN scopes[one].recs : scopes[one].recs[i] = scopes[one].recs[j] => i = j
      BY <1>13, <1>14 DEF Apart
    <3> HIDE DEF sd, rt
    <3>3. InOrder(sd, rt, one)
      BY <1>2, <1>5, <1>9, <2>0, <3>1, <3>2, MovedTogether
    <3> QED BY <2>1, <3>3 DEF sd, rt
  <2>2. CASE h = f /\ s # one
    <3>1. scopes[s].recs = <<>> /\ s # dest /\ s \in DOMAIN scopes
      BY <1>1, <1>5, <1>6, <1>8, <2>2 DEF Scopes
    <3>2. sd[s].recs = <<>>
      BY <1>1, <3>1 DEF Copied, SameBut, dest
    <3> QED BY <3>2 DEF InOrder
  <2>3. CASE h # f
    <3>1. h \in Moved /\ h \notin Callers /\ h # g /\ h \in Names(scopes)
      BY <1>1, <1>3, <2>3, MovedIs
    <3>2. s \in DOMAIN scopes /\ s # 1 /\ s # dest /\ s # one
      BY <1>1, <1>5, <1>6, <2>3, <3>1
    <3>3. Apart(scopes, {one, s})
      BY <1>3, <1>21, <1>22, <1>1, <3>1 DEF Apart
    <3>4. InOrder(scopes, records, s)
      BY <1>4, <3>1 DEF Placement, Scopes
    <3> HIDE DEF sd, rt
    <3>5. /\ sd[s] = scopes[s]
          /\ \A i \in DOMAIN scopes[s].recs :
                /\ OffsetOf(rt, scopes[s].recs[i]) = OffsetOf(records, scopes[s].recs[i])
                /\ EndOf(rt, scopes[s].recs[i]) = EndOf(records, scopes[s].recs[i])
      BY <1>2, <1>5, <1>9, <2>0, <3>2, <3>3, OthersStay
    <3>6. InOrder(sd, rt, s)
      BY <3>4, <3>5 DEF InOrder
    <3> QED BY <3>6 DEF sd, rt
  <2> QED BY <2>1, <2>2, <2>3
<1>26. \A h \in Moved' : Family(scopes', Root(scopes', h)) = Scopes(h)
  BY <1>1, <1>3, <1>21, MovedIs
<1> QED BY <1>15, <1>18, <1>19, <1>20, <1>24, <1>25, <1>26 DEF Placement

----------------------------------------------------------------------------
(* The invariant *)

\* Before registers are allocated there are no temporaries.
LEMMA NoTempsYet == TypeInv' /\ (phase' = "declare" \/ phase' = "inline") => TempPlaces'
<1> SUFFICES ASSUME TypeInv', phase' = "declare" \/ phase' = "inline" PROVE TempPlaces'
  OBVIOUS
<1>1. Tree(scopes') /\ 1 \in DOMAIN scopes' /\ Roots(scopes')
  BY TreeOf DEF TypeInv, Sound
<1>2. ASSUME NEW c \in Children(scopes', Global) PROVE Rest(c)' <= scopes'[c].size
  <2>1. c \in DOMAIN scopes'
    BY <1>1 DEF Children
  <2>2. scopes'[c].size \in Nat
    BY <1>1, <2>1, ScopeOf
  <2>3. Rest(c)' = 0
    BY DEF Rest
  <2> QED BY <2>2, <2>3
<1>3. \A f \in Declared' : f \in Funcs
  BY <1>1 DEF Declared, Roots
<1>4. \A f \in Funcs : temps'[f] = <<>>
  BY DEF TypeInv
<1>5. \A f \in Declared' : DOMAIN temps'[f] = {}
  BY <1>3, <1>4
<1> QED BY <1>2, <1>5 DEF TempPlaces

\* Variables stay where they are as long as scopes and records do.
LEMMA LayoutKept ==
  ASSUME Layout, scopes' = scopes, records' = records, inlined' = inlined, phase # "declare",
         phase' = phase \/ phase' = "allocate", \A s : Rest(s)' = Rest(s)
  PROVE  Layout'
<1> SUFFICES ASSUME CopiedOnce' PROVE Placement'
  BY DEF Layout
<1>1. CopiedOnce
  <2>1. \A f : OwnScopes(f)' = OwnScopes(f)
    BY DEF OwnScopes, FuncScope
  <2> QED BY <2>1 DEF CopiedOnce
<1>2. /\ Unmoved' = Unmoved /\ UnmovedScopes' = UnmovedScopes /\ Callers' = Callers
      /\ Moved' = Moved /\ ClosedScopes' = ClosedScopes
  BY DEF Unmoved, UnmovedScopes, ClosedScopes, ScopesOf, Callers, Declared, Moved
<1>3. Placement
  BY <1>1 DEF Layout
<1> QED BY <1>2, <1>3 DEF Placement

\* The functions that are inlined keep their scopes.
LEMMA InlinedKept ==
  ASSUME TypeInv, InlinedDeclared, Next
  PROVE  InlinedDeclared'
<1>1. CASE phase' = "declare"
  BY <1>1 DEF InlinedDeclared
<1>2. CASE set_scope_offsets
  <2>1. inlined' = <<>>
    BY <1>2 DEF set_scope_offsets, TypeInv
  <2> QED BY <2>1 DEF InlinedDeclared
<1>3. CASE InlineCall
  <2>1. PICK f \in Declared, g \in Declared :
          inlined' = Append(inlined, <<f, g>>) /\ SameShape(scopes, scopes') /\ Roots(scopes)
          /\ phase = "inline"
    BY <1>3, CallInlined
  <2>2. Declared' = Declared
    <3>1. Names(scopes') = Names(scopes)
      BY <2>1, SameRoot
    <3> QED BY <3>1 DEF Declared, Names
  <2> DEFINE e == <<f, g>>
             n == Len(inlined) + 1
             S == Funcs \X Funcs
  <2>3. e[1] = f
    OBVIOUS
  <2>4. inlined \in Seq(S) /\ e \in S /\ inlined' = Append(inlined, e)
    BY <2>1, TypesOf DEF TypeInv
  <2> HIDE DEF e, S
  <2>5. /\ inlined'[n] = e
        /\ \A i \in DOMAIN inlined : inlined'[i] = inlined[i]
        /\ \A i \in DOMAIN inlined' : i \in DOMAIN inlined \/ i = n
    BY <2>4, OneMore
  <2> HIDE DEF n
  <2> QED BY <2>1, <2>2, <2>3, <2>5 DEF InlinedDeclared
<1>4. CASE add_temps_to_scopes
  <2>1. SameShape(scopes, scopes') /\ Roots(scopes)
    BY <1>4, TempsScopes DEF TypeInv
  <2>2. Declared' = Declared
    <3>1. Names(scopes') = Names(scopes)
      BY <2>1, SameRoot
    <3> QED BY <3>1 DEF Declared, Names
  <2>3. inlined' = inlined /\ phase = "allocate"
    BY <1>4 DEF add_temps_to_scopes
  <2> QED BY <2>2, <2>3 DEF InlinedDeclared
<1>5. CASE AllocateRegisters \/ SpillTemp \/ Done
  <2>1. scopes' = scopes /\ inlined' = inlined /\ phase # "declare"
    BY <1>5 DEF AllocateRegisters, SpillTemp, Done, vars
  <2> QED BY <2>1 DEF InlinedDeclared, Declared
<1>6. CASE DeclareGlobal \/ DeclareFunc \/ EnterFunction \/ LeaveFunction \/ add_scope \/ LeaveBlock
  <2>1. phase' = "declare"
    BY <1>6 DEF DeclareGlobal, DeclareFunc, EnterFunction, LeaveFunction, add_scope, LeaveBlock
  <2> QED BY <2>1, <1>1
<1> QED BY <1>2, <1>3, <1>4, <1>5, <1>6 DEF Next

----------------------------------------------------------------------------
(* Spilled temporaries *)

\* A spilled register gets the word behind the last one.
LEMMA SpillPlaces == TypeInv /\ TempPlaces /\ SpillTemp => TempPlaces'
<1> SUFFICES ASSUME TypeInv, TempPlaces, SpillTemp PROVE TempPlaces'
  OBVIOUS
<1>1. PICK f \in Declared : temps' = [temps EXCEPT ![f] = Append(@, temp_stack_location(f))]
  BY DEF SpillTemp, Left
<1>2. scopes' = scopes /\ phase = "allocate" /\ phase' = "allocate"
  BY DEF SpillTemp
<1> DEFINE m == max_scope_size(scopes, FuncScope(f))
           q == temps[f]
           loc == temp_stack_location(f)
<1>3. /\ f \in Funcs /\ q \in Seq(Nat) /\ Len(q) \in Nat /\ m \in Nat
      /\ q = <<>> => loc = m
      /\ q # <<>> => Len(q) >= 1 /\ q[Len(q)] \in Nat /\ loc = q[Len(q)] + 4
  BY PlaceOfTemp
<1>4. \A s : Rest(s) = 0 /\ Rest(s)' = 0
  BY <1>2 DEF Rest
<1>5. \A g \in Declared : \A i \in DOMAIN temps[g] :
         temps[g][i] + 0 = max_scope_size(scopes, FuncScope(g)) + 4 * (i - 1)
  BY <1>4 DEF TempPlaces
<1>6. Declared' = Declared /\ \A g : FuncScope(g)' = FuncScope(g)
  BY <1>2 DEF Declared, FuncScope
<1>7. temps \in [Funcs -> Seq(Nat)]
  BY DEF TypeInv
<1> HIDE DEF m, loc
<1>8. loc = m + 4 * Len(q)
  <2>1. CASE q = <<>>
    BY <1>3, <2>1
  <2>2. CASE q # <<>>
    <3> DEFINE k == Len(q)
               e == q[k]
    <3>1. k \in DOMAIN q
      BY <1>3, <2>2
    <3>2. e + 0 = m + 4 * (k - 1)
      BY <1>5, <3>1 DEF m
    <3>3. loc = e + 4 /\ e \in Nat /\ k \in Nat
      BY <1>3, <2>2
    <3> HIDE DEF e, k
    <3>4. loc = m + 4 * k
      BY <1>3, <3>2, <3>3
    <3> QED BY <3>4 DEF k
  <2> QED BY <2>1, <2>2
<1>9. temps'[f] = Append(q, loc) /\ \A g \in Funcs : g # f => temps'[g] = temps[g]
  BY <1>1, <1>3, <1>7 DEF loc
<1>10. ASSUME NEW g \in Declared, NEW i \in DOMAIN temps'[g]
       PROVE  temps'[g][i] + 0 = max_scope_size(scopes, FuncScope(g)) + 4 * (i - 1)
  <2>1. CASE g # f
    <3>1. g \in Funcs
      BY TypesOf
    <3> QED BY <1>5, <1>9, <2>1, <3>1
  <2>2. CASE g = f
    <3> DEFINE p == temps'[f]
    <3>1. p = Append(q, loc) /\ loc \in Nat
      BY <1>3, <1>8, <1>9
    <3> HIDE DEF p, q
    <3>2. /\ p[Len(q) + 1] = loc
          /\ \A j \in DOMAIN q : p[j] = q[j]
          /\ \A j \in DOMAIN p : j \in DOMAIN q \/ j = Len(q) + 1
      <4> DEFINE N == Nat
      <4>1. q \in Seq(N) /\ loc \in N
        BY <1>3, <3>1
      <4> HIDE DEF N
      <4> QED BY <3>1, <4>1, OneMore
    <3>3. i \in DOMAIN p
      BY <2>2 DEF p
    <3>4. CASE i \in DOMAIN q
      BY <1>5, <2>2, <3>2, <3>4 DEF p, q
    <3>5. CASE i = Len(q) + 1
      <4>1. p[i] = m + 4 * (i - 1)
        <5>1. i - 1 = Len(q)
          BY <1>3, <3>5
        <5> QED BY <1>8, <3>2, <3>5, <5>1
      <4>2. p[i] + 0 = p[i]
        BY <3>1, <3>2, <3>5
      <4> QED BY <2>2, <4>1, <4>2 DEF p, m
    <3> QED BY <3>2, <3>3, <3>4, <3>5
  <2> QED BY <2>1, <2>2
<1>11. ASSUME NEW c \in Children(scopes, Global) PROVE Rest(c)' <= scopes[c].size
  BY <1>4 DEF TempPlaces
<1> QED BY <1>2, <1>4, <1>6, <1>10, <1>11 DEF TempPlaces

\* The scopes of functions grow by their temporaries, the others not.
LEMMA RoomForTemps ==
  ASSUME TypeInv, add_temps_to_scopes, NEW s \in DOMAIN scopes, s # 1
  PROVE  /\ Inner(scopes', s) = Inner(scopes, s)
         /\ max_scope_size(scopes', s) = max_scope_size(scopes, s) + TempsOf(s)
         /\ Rest(s)' = TempsOf(s)
<1>1. /\ SameShape(scopes, scopes') /\ DOMAIN scopes' = DOMAIN scopes
      /\ \A c \in DOMAIN scopes : scopes'[c].size = scopes[c].size + TempsOf(c)
  BY TempsScopes
<1>2. Tree(scopes) /\ Tree(scopes')
  BY <1>1 DEF SameShape
<1>3. Inner(scopes', s) = Inner(scopes, s)
  <2> DEFINE R == {1} \cup {c \in DOMAIN scopes : scopes[c].prev = 1}
  <2>1. ASSUME NEW c \in DOMAIN scopes PROVE c \in R \/ scopes[c].size = scopes'[c].size
    <3>1. CASE scopes[c].prev = 1
      BY <3>1
    <3>2. CASE scopes[c].prev # 1
      <4>1. TempsOf(c) = 0
        BY <3>2 DEF TempsOf
      <4>2. scopes[c].size \in Nat
        BY <1>2, ScopeOf
      <4> QED BY <1>1, <4>1, <4>2
    <3> QED BY <3>1, <3>2
  <2>2. \A c \in DOMAIN scopes : c \in R /\ c # 1 => scopes[c].prev \in R
    OBVIOUS
  <2>3. \A d \in Children(scopes, s) : d \notin R
    BY <1>2, ChildOf
  <2> HIDE DEF R
  <2>4. \A z \in DOMAIN scopes : (\A d \in Children(scopes, z) : d \notin R) => Inner(scopes, z) = Inner(scopes', z)
    BY <1>1, <2>1, <2>2, SameMax
  <2> QED BY <2>3, <2>4
<1>4. max_scope_size(scopes', s) = max_scope_size(scopes, s) + TempsOf(s)
  <2> DEFINE y == scopes[s].size
             t == TempsOf(s)
  <2>1. /\ max_scope_size(scopes, s) = y + Inner(scopes, s) /\ y \in Nat
        /\ Inner(scopes, s) \in Nat
        /\ max_scope_size(scopes', s) = scopes'[s].size + Inner(scopes', s)
    BY <1>1, <1>2, MaxIs
  <2>2. t \in Nat /\ scopes'[s].size = y + t
    BY <1>1, TempsNat
  <2> HIDE DEF y, t
  <2>3. max_scope_size(scopes', s) = max_scope_size(scopes, s) + t
    BY <1>3, <2>1, <2>2
  <2> QED BY <2>3 DEF t
<1>5. Rest(s)' = TempsOf(s)
  <2>1. phase' = "generate" /\ temps' = temps
    BY DEF add_temps_to_scopes
  <2>2. scopes'[s].prev = scopes[s].prev /\ scopes'[s].func = scopes[s].func
    BY <1>1 DEF SameShape
  <2>3. Rest(s)' = TempsOf(s)'
    BY <2>1 DEF Rest
  <2> QED BY <2>1, <2>2, <2>3 DEF TempsOf
<1> QED BY <1>3, <1>4, <1>5

\* Temporaries are inside of the scope of their function when it has grown
\* by them.
LEMMA AddTempsPlaces == TypeInv /\ TempPlaces /\ add_temps_to_scopes => TempPlaces'
<1> SUFFICES ASSUME TypeInv, TempPlaces, add_temps_to_scopes PROVE TempPlaces'
  OBVIOUS
<1>1. /\ SameShape(scopes, scopes') /\ DOMAIN scopes' = DOMAIN scopes
      /\ \A c \in DOMAIN scopes : scopes'[c].size = scopes[c].size + TempsOf(c)
  BY TempsScopes
<1>2. Tree(scopes) /\ Roots(scopes)
  BY DEF TypeInv, Sound
<1>3. phase = "allocate" /\ temps' = temps
  BY DEF add_temps_to_scopes
<1>4. ASSUME NEW c \in Children(scopes', Global) PROVE Rest(c)' <= scopes'[c].size
  <2>1. c \in Children(scopes, 1)
    BY <1>1, SameChildren DEF Global
  <2>2. c \in DOMAIN scopes /\ c # 1
    BY <1>2, <2>1, ChildOf, TreeOf
  <2>3. Rest(c)' = TempsOf(c) /\ TempsOf(c) \in Nat /\ scopes[c].size \in Nat
    BY <1>2, <2>2, RoomForTemps, TempsNat, ScopeOf
  <2>4. scopes'[c].size = scopes[c].size + TempsOf(c)
    BY <1>1, <2>2
  <2> QED BY <2>3, <2>4
<1>5. ASSUME NEW f \in Declared', NEW i \in DOMAIN temps[f], NEW c, c = Root(scopes', f)
      PROVE  temps[f][i] + Rest(c)' = max_scope_size(scopes', c) + 4 * (i - 1)
  <2>1. f \in Names(scopes)
    <3>1. f \in Names(scopes')
      BY DEF Declared, Names
    <3> QED BY <1>1, <1>2, <3>1, SameRoot
  <2> DEFINE m == max_scope_size(scopes, c)
             t == TempsOf(c)
             e == temps[f][i]
  <2>2. Root(scopes, f) = c
    BY <1>1, <1>2, <1>5, <2>1, SameRoot
  <2>3. c \in DOMAIN scopes /\ c # 1
    BY <1>2, <2>1, <2>2, RootIs
  <2>4. f \in Declared /\ FuncScope(f) = c
    BY <2>1, <2>2, StateNames
  <2>5. Rest(c) = 0
    BY <1>3 DEF Rest
  <2>6. e + 0 = m + 4 * (i - 1)
    BY <2>4, <2>5 DEF TempPlaces
  <2>7. Rest(c)' = t /\ max_scope_size(scopes', c) = m + t
    BY <2>3, RoomForTemps
  <2>8. m \in Nat /\ t \in Nat /\ e \in Nat /\ i \in Nat
    <3>1. temps[f] \in Seq(Nat)
      BY <2>4, PlaceOfTemp
    <3> QED BY <1>2, <2>3, <3>1, MaxIs, TempsNat
  <2> HIDE DEF m, t, e
  <2>9. e + t = (m + t) + 4 * (i - 1)
    BY <2>6, <2>8
  <2> QED BY <2>7, <2>9 DEF e
<1>6. \A f : FuncScope(f)' = Root(scopes', f)
  BY DEF FuncScope, Root
<1>7. ASSUME NEW f \in Declared', NEW i \in DOMAIN temps'[f]
      PROVE  temps'[f][i] + Rest(FuncScope(f))' =
                max_scope_size(scopes', FuncScope(f)') + 4 * (i - 1)
  <2>1. PICK c : c = FuncScope(f)'
    OBVIOUS
  <2>2. temps[f][i] + Rest(c)' = max_scope_size(scopes', c) + 4 * (i - 1)
    BY <1>3, <1>5, <1>6, <1>7, <2>1
  <2>3. Rest(FuncScope(f))' = Rest(c)'
    BY <2>1 DEF Rest, TempsOf
  <2> QED BY <1>3, <2>1, <2>2, <2>3
<1> QED BY <1>4, <1>7 DEF TempPlaces

\* Variables end before the temporaries when the scopes of functions grow.
LEMMA AddTempsLayout == TypeInv /\ Layout /\ InlinedDeclared /\ add_temps_to_scopes => Layout'
<1> SUFFICES ASSUME TypeInv, Layout, InlinedDeclared, add_temps_to_scopes, CopiedOnce' PROVE Placement'
  BY DEF Layout
<1>1. /\ SameShape(scopes, scopes') /\ DOMAIN scopes' = DOMAIN scopes
      /\ \A c \in DOMAIN scopes : scopes'[c].recs = scopes[c].recs
  BY TempsScopes
<1>2. Tree(scopes) /\ Roots(scopes) /\ Sound(scopes, records)
  BY DEF TypeInv, Sound
<1>3. phase = "allocate" /\ phase' = "generate" /\ inlined' = inlined /\ records' = records
  BY DEF add_temps_to_scopes
<1>4. /\ Names(scopes') = Names(scopes)
      /\ \A f \in Names(scopes) : Root(scopes', f) = Root(scopes, f)
      /\ \A c : Family(scopes', c) = Family(scopes, c)
  BY <1>1, <1>2, SameRoot
<1>5. CopiedOnce
  <2>1. \A c : Filled(scopes', c) = Filled(scopes, c)
    BY <1>1, <1>4 DEF Filled, Family
  <2>2. \A f : OwnScopes(f)' = Family(scopes', Root(scopes', f))
    BY DEF OwnScopes, Family, Root, FuncScope
  <2>3. \A i \in DOMAIN inlined :
         /\ \A j \in DOMAIN inlined : /\ inlined[j][1] = inlined[i][1] => i = j
                                      /\ inlined[j][2] # inlined[i][1]
         /\ Cardinality(Filled(scopes', Root(scopes', inlined[i][1]))) <= 1
    BY <1>3, <2>2 DEF CopiedOnce, Filled
  <2>4. \A i \in DOMAIN inlined : inlined[i][1] \in Names(scopes)
    BY <1>3, StateNames DEF InlinedDeclared
  <2> QED BY <1>4, <2>1, <2>3, <2>4, CopiedOnceIs
<1>6. Placement
  BY <1>3, <1>5 DEF Layout
<1>7. /\ Unmoved' = Unmoved /\ \A f \in Unmoved : f \in Names(scopes)
  <2>1. Declared' = Declared
    BY <1>4 DEF Declared, Names
  <2> QED BY <1>3, <2>1, UnmovedIs DEF Unmoved, Moved
<1>8. \A f \in Unmoved : Family(scopes', Root(scopes', f)) = Family(scopes, Root(scopes, f))
  BY <1>4, <1>7
<1>9. UnmovedScopes' = UnmovedScopes /\ UnmovedScopes \subseteq DOMAIN scopes
  <2>1. UnmovedScopes' = UNION {Family(scopes', Root(scopes', f)) : f \in Unmoved}
    BY <1>7 DEF UnmovedScopes, ScopesOf
  <2>2. UnmovedScopes' = UnmovedScopes
    BY <1>8, <2>1 DEF UnmovedScopes, ScopesOf
  <2> QED BY <2>2 DEF UnmovedScopes, ScopesOf, Family
<1>10. Apart(scopes', UnmovedScopes')
  BY <1>1, <1>6, <1>9 DEF Placement, Apart
<1>11. ASSUME NEW f \in Unmoved, NEW s \in Family(scopes, Root(scopes, f))
       PROVE  Roomy(scopes', records, s, Rest(s)') /\ InOrder(scopes', records, s)
  <2>1. s \in DOMAIN scopes /\ s # 1
    BY <1>2, <1>7, NotGlobal
  <2>2. Roomy(scopes, records, s, 0) /\ InOrder(scopes, records, s)
    <3>1. Rest(s) = 0
      BY <1>3 DEF Rest
    <3> QED BY <1>6, <3>1 DEF Placement
  <2>3. scopes'[s].recs = scopes[s].recs
    BY <1>1, <2>1
  <2>4. InOrder(scopes', records, s)
    BY <2>2, <2>3 DEF InOrder
  <2> DEFINE t == TempsOf(s)
             m == max_scope_size(scopes, s)
             u == max_scope_size(scopes', s)
  <2>5. Inner(scopes', s) = Inner(scopes, s) /\ u = m + t /\ Rest(s)' = t
    BY <2>1, RoomForTemps
  <2>6. t \in Nat /\ m \in Nat
    BY <1>2, <2>1, TempsNat, MaxIs
  <2>7. ASSUME NEW i \in DOMAIN scopes[s].recs
        PROVE  EndOf(records, scopes[s].recs[i]) + t <= u
    <3> DEFINE z == EndOf(records, scopes[s].recs[i])
    <3>1. z + 0 <= m /\ z \in Nat
      BY <1>2, <2>1, <2>2, RecordOf DEF Roomy
    <3> HIDE DEF z, t, m, u
    <3>2. z + t <= u
      BY <2>5, <2>6, <3>1
    <3> QED BY <3>2 DEF z
  <2>8. Roomy(scopes', records, s, t)
    BY <2>2, <2>3, <2>5, <2>7 DEF Roomy
  <2> QED BY <2>4, <2>5, <2>8
<1>12. Declared' = Declared /\ Moved' = Moved /\ Callers' = Callers
  BY <1>1, <1>3, SameDeclared DEF Moved, Callers
<1>13. Apart(scopes', ClosedScopes')
  <2>1. ClosedScopes' = UNION {Family(scopes', Root(scopes', f)) : f \in Declared \ Callers}
    BY <1>12 DEF ClosedScopes, ScopesOf
  <2>2. ClosedScopes' = ClosedScopes
    BY <1>4, <2>1, StateNames DEF ClosedScopes, ScopesOf
  <2>3. ClosedScopes \subseteq DOMAIN scopes
    BY DEF ClosedScopes, ScopesOf, Family
  <2> QED BY <1>1, <1>6, <2>2, <2>3 DEF Placement, Apart
<1>14. ASSUME NEW f \in Moved, NEW s \in Family(scopes, Root(scopes, f))
       PROVE  InOrder(scopes', records, s)
  <2>1. s \in DOMAIN scopes /\ InOrder(scopes, records, s)
    BY <1>6 DEF Placement, Family
  <2> QED BY <1>1, <2>1 DEF InOrder
<1>15. \A f \in Moved : Family(scopes', Root(scopes', f)) = Family(scopes, Root(scopes, f))
  BY <1>3, <1>4, <1>5, MovedIs
<1> QED BY <1>3, <1>7, <1>8, <1>10, <1>11, <1>12, <1>13, <1>14, <1>15 DEF Placement

FrameInv == TypeInv /\ InlinedDeclared /\ Layout /\ TempPlaces

\* The invariant holds in the beginning,
LEMMA InitFrames == Init => FrameInv
<1> SUFFICES ASSUME Init PROVE FrameInv
  OBVIOUS
<1>1. TypeInv
  BY InitTypes
<1>2. phase = "declare" /\ \A f \in Funcs : temps[f] = <<>>
  BY DEF Init
<1>3. InlinedDeclared /\ Layout
  BY <1>2 DEF InlinedDeclared, Layout
<1>4. ASSUME NEW c \in Children(scopes, Global) PROVE Rest(c) <= scopes[c].size
  <2>1. Tree(scopes) /\ c \in DOMAIN scopes
    BY <1>1, TypesOf
  <2>2. scopes[c].size \in Nat
    BY <2>1, ScopeOf
  <2>3. Rest(c) = 0
    BY <1>2 DEF Rest
  <2> QED BY <2>2, <2>3
<1>5. \A f \in Declared : DOMAIN temps[f] = {}
  BY <1>1, <1>2, TypesOf
<1>6. TempPlaces
  BY <1>4, <1>5 DEF TempPlaces
<1> QED BY <1>1, <1>3, <1>6 DEF FrameInv

\* every step keeps the variables placed right,
LEMMA NextLayout == FrameInv /\ [Next]_vars => Layout'
<1> SUFFICES ASSUME FrameInv, [Next]_vars PROVE Layout'
  OBVIOUS
<1>1. TypeInv /\ InlinedDeclared /\ Layout /\ TempPlaces
  BY DEF FrameInv
<1>2. CASE phase' = "declare"
  BY <1>2 DEF Layout
<1>3. CASE DeclareGlobal \/ DeclareFunc \/ EnterFunction \/ LeaveFunction \/ add_scope \/ LeaveBlock
  <2>1. phase' = "declare"
    BY <1>3 DEF DeclareGlobal, DeclareFunc, EnterFunction, LeaveFunction, add_scope, LeaveBlock
  <2> QED BY <1>2, <2>1
<1>4. CASE set_scope_offsets
  BY <1>1, <1>4, OffsetPlacement DEF Layout
<1>5. CASE InlineCall
  BY <1>1, <1>5, InlinePlacement DEF Layout
<1>6. CASE AllocateRegisters
  <2>1. /\ phase = "inline" /\ phase' = "allocate" /\ scopes' = scopes
        /\ records' = records /\ inlined' = inlined
    BY <1>6 DEF AllocateRegisters
  <2>2. \A s : Rest(s)' = Rest(s)
    BY <2>1 DEF Rest
  <2> QED BY <1>1, <2>1, <2>2, LayoutKept
<1>7. CASE SpillTemp
  <2>1. /\ phase = "allocate" /\ phase' = "allocate" /\ scopes' = scopes
        /\ records' = records /\ inlined' = inlined
    BY <1>7 DEF SpillTemp
  <2>2. \A s : Rest(s)' = Rest(s)
    BY <2>1 DEF Rest
  <2> QED BY <1>1, <2>1, <2>2, LayoutKept
<1>8. CASE add_temps_to_scopes
  BY <1>1, <1>8, AddTempsLayout
<1>9. CASE UNCHANGED vars
  <2>1. /\ phase' = phase /\ scopes' = scopes /\ temps' = temps
        /\ records' = records /\ inlined' = inlined
    BY <1>9 DEF vars
  <2>2. \A s : Rest(s)' = Rest(s)
    BY <2>1 DEF Rest, TempsOf
  <2> QED BY <1>1, <1>2, <2>1, <2>2, LayoutKept
<1>10. CASE Done
  BY <1>9, <1>10 DEF Done
<1> QED BY <1>3, <1>4, <1>5, <1>6, <1>7, <1>8, <1>9, <1>10 DEF Next

\* and the temporaries behind each other,
LEMMA NextPlaces == FrameInv /\ [Next]_vars => TempPlaces'
<1> SUFFICES ASSUME FrameInv, [Next]_vars PROVE TempPlaces'
  OBVIOUS
<1>1. TypeInv /\ TempPlaces
  BY DEF FrameInv
<1>2. TypeInv'
  BY <1>1, NextTypes
<1>3. CASE phase' = "declare" \/ phase' = "inline"
  BY <1>2, <1>3, NoTempsYet
<1>4. CASE DeclareGlobal \/ DeclareFunc \/ EnterFunction \/ LeaveFunction \/ add_scope \/ LeaveBlock
  <2>1. phase' = "declare"
    BY <1>4 DEF DeclareGlobal, DeclareFunc, EnterFunction, LeaveFunction, add_scope, LeaveBlock
  <2> QED BY <1>3, <2>1
<1>5. CASE set_scope_offsets \/ InlineCall
  <2>1. phase' = "inline"
    BY <1>5 DEF set_scope_offsets, InlineCall
  <2> QED BY <1>3, <2>1
<1>6. CASE AllocateRegisters
  <2>1. phase = "inline" /\ phase' = "allocate" /\ scopes' = scopes /\ temps' = temps
    BY <1>6 DEF AllocateRegisters
  <2>2. \A s : Rest(s)' = Rest(s)
    BY <2>1 DEF Rest
  <2> QED BY <1>1, <2>1, <2>2 DEF TempPlaces, Declared, FuncScope
<1>7. CASE SpillTemp
  BY <1>1, <1>7, SpillPlaces
<1>8. CASE add_temps_to_scopes
  BY <1>1, <1>8, AddTempsPlaces
<1>9. CASE UNCHANGED vars
  <2>1. phase' = phase /\ scopes' = scopes /\ temps' = temps
    BY <1>9 DEF vars
  <2>2. \A s : Rest(s)' = Rest(s)
    BY <2>1 DEF Rest, TempsOf
  <2> QED BY <1>1, <2>1, <2>2 DEF TempPlaces, Declared, FuncScope
<1>10. CASE Done
  BY <1>9, <1>10 DEF Done
<1> QED BY <1>4, <1>5, <1>6, <1>7, <1>8, <1>9, <1>10 DEF Next

\* so that every step keeps the invariant,
LEMMA NextFrames == FrameInv /\ [Next]_vars => FrameInv'
<1> SUFFICES ASSUME FrameInv, [Next]_vars PROVE FrameInv'
  OBVIOUS
<1>1. TypeInv /\ InlinedDeclared
  BY DEF FrameInv
<1>2. TypeInv'
  BY <1>1, NextTypes
<1>3. InlinedDeclared'
  <2>1. CASE Next
    BY <1>1, <2>1, InlinedKept
  <2>2. CASE UNCHANGED vars
    BY <1>1, <2>2 DEF vars, InlinedDeclared, Declared
  <2> QED BY <2>1, <2>2
<1>4. Layout' /\ TempPlaces'
  BY NextLayout, NextPlaces
<1> QED BY <1>2, <1>3, <1>4 DEF FrameInv

\* and it always holds.
LEMMA FramesInvariant == Spec => []FrameInv
<1>1. Init => FrameInv
  BY InitFrames
<1>2. FrameInv /\ [Next]_vars => FrameInv'
  BY NextFrames
<1> QED BY <1>1, <1>2, PTL DEF Spec

----------------------------------------------------------------------------
(* Variables that can be in use at once *)

\* The bytes that are left for temporaries.
LEMMA RestNat ==
  ASSUME TypeInv, NEW s \in DOMAIN scopes
  PROVE  Rest(s) \in Nat
BY TempsNat DEF Rest

\* Records that are in scopes of one function, one inside the other, are apart.
LEMMA BehindInner ==
  ASSUME TypeInv, Placement, NEW f \in Unmoved, NEW a \in Family(scopes, Root(scopes, f)),
         NEW b \in Family(scopes, Root(scopes, f)), a # b, a \in Ancestors(scopes, b)
  PROVE  \A i \in DOMAIN scopes[a].recs, j \in DOMAIN scopes[b].recs :
            EndOf(records, scopes[b].recs[j]) <= OffsetOf(records, scopes[a].recs[i])
<1> SUFFICES ASSUME NEW i \in DOMAIN scopes[a].recs, NEW j \in DOMAIN scopes[b].recs
             PROVE  EndOf(records, scopes[b].recs[j]) <= OffsetOf(records, scopes[a].recs[i])
  OBVIOUS
<1>1. Sound(scopes, records) /\ Tree(scopes)
  BY DEF TypeInv, Sound
<1>2. a \in DOMAIN scopes /\ b \in DOMAIN scopes
  BY DEF Family
<1> DEFINE e == EndOf(records, scopes[b].recs[j])
           o == OffsetOf(records, scopes[a].recs[i])
           m == max_scope_size(scopes, b)
           n == Inner(scopes, a)
           t == Rest(b)
<1>3. e + t <= m /\ n <= o
  BY DEF Placement, Roomy
<1>4. e \in Nat /\ o \in Nat
  BY <1>1, <1>2, RecordOf
<1>5. m \in Nat /\ n \in Nat /\ t \in Nat
  BY <1>1, <1>2, MaxIs, RestNat
<1>6. m <= n
  BY <1>1, <1>2, Nested
<1> HIDE DEF e, o, m, n, t
<1>7. e <= o
  BY <1>3, <1>4, <1>5, <1>6
<1>8. QED
  BY <1>7 DEF e, o

\* Two variables that can be in use at once are in one scope, where they are
\* in order, or in two scopes one of which is inside the other, where the
\* inner one ends before the records of the outer one.
LEMMA SlotsApart == FrameInv => SlotsDisjoint
<1> SUFFICES ASSUME FrameInv, phase # "declare", CopiedOnce,
                    NEW f \in Left, NEW s \in OwnScopes(f),
                    NEW r \in RecsIn(Ancestors(scopes, s) \ {Global}),
                    NEW q \in RecsIn(Ancestors(scopes, s) \ {Global}), r < q
             PROVE  ~Overlap(records[r].offset, entry_size(records[r].type),
                             records[q].offset, entry_size(records[q].type))
  BY DEF SlotsDisjoint
<1>1. TypeInv /\ Placement
  BY DEF FrameInv, Layout
<1>2. Sound(scopes, records) /\ Tree(scopes)
  BY <1>1 DEF TypeInv, Sound
<1>3. f \in Declared /\ f \in Names(scopes) /\ s \in Family(scopes, Root(scopes, f))
  BY StateNames DEF Left
<1> DEFINE own == Family(scopes, Root(scopes, f))
<1>4. Root(scopes, f) \in Children(scopes, 1) /\ s \in DOMAIN scopes
      /\ Root(scopes, f) \in Ancestors(scopes, s)
  BY <1>2, <1>3, RootIs DEF Family
<1>5. PICK a \in Ancestors(scopes, s) \ {1} : \E i \in DOMAIN scopes[a].recs : scopes[a].recs[i] = r
  BY DEF RecsIn, Global
<1>6. PICK b \in Ancestors(scopes, s) \ {1} : \E j \in DOMAIN scopes[b].recs : scopes[b].recs[j] = q
  BY DEF RecsIn, Global
<1>7. PICK i \in DOMAIN scopes[a].recs : scopes[a].recs[i] = r
  BY <1>5
<1>8. PICK j \in DOMAIN scopes[b].recs : scopes[b].recs[j] = q
  BY <1>6
<1>9. ASSUME NEW c \in Ancestors(scopes, s) \ {1} PROVE c \in own /\ c \in DOMAIN scopes
  <2>1. Root(scopes, f) \in Ancestors(scopes, c)
    BY <1>2, <1>4, WithinRoot
  <2>2. c \in DOMAIN scopes
    BY <1>2, <1>4, AncestorsBefore
  <2> QED BY <2>1, <2>2 DEF Family
<1>10. EndOf(records, r) <= OffsetOf(records, q) \/ EndOf(records, q) <= OffsetOf(records, r)
  <2>1. CASE a = b
    <3>1. i # j /\ i \in Nat /\ j \in Nat
      <4>0. r \in DOMAIN records /\ DOMAIN records = 1 .. Len(records) /\ Len(records) \in Nat
      BY <1>2, <1>7, <1>9, RecordOf, ListOf DEF Sound
    <4>1. i # j
      BY <1>7, <1>8, <2>1, <4>0
    <4>2. i \in Nat
      BY <1>2, <1>9, RecordOf
    <4>3. j \in Nat
      BY <1>2, <1>9, RecordOf
    <4> QED BY <4>1, <4>2, <4>3
    <3>2. InOrder(scopes, records, a)
      BY <1>1, <1>3, <1>9 DEF Placement, Unmoved
    <3>3. i < j \/ j < i
      BY <3>1
    <3> QED BY <1>7, <1>8, <2>1, <3>2, <3>3 DEF InOrder
  <2>2. CASE a # b
    <3>0. f \in Unmoved
      <4> SUFFICES ASSUME f \in Moved PROVE FALSE
        BY <1>3 DEF Unmoved
      <4>1. Cardinality(Filled(scopes, Root(scopes, f))) <= 1
        BY MovedIs DEF FrameInv
      <4>2. \E one \in own : \A c \in own : c # one => scopes[c].recs = <<>>
        BY <1>2, <1>3, <4>1, RootIs, OneFilled
      <4>3. a \in own /\ b \in own /\ scopes[a].recs # <<>> /\ scopes[b].recs # <<>>
        BY <1>7, <1>8, <1>9
      <4> QED BY <2>2, <4>2, <4>3
    <3>1. a \in Ancestors(scopes, b) \/ b \in Ancestors(scopes, a)
      BY <1>2, <1>4, AroundChain
    <3>2. CASE a \in Ancestors(scopes, b)
      <4>1. a \in own /\ b \in own
        BY <1>9
      <4>2. EndOf(records, scopes[b].recs[j]) <= OffsetOf(records, scopes[a].recs[i])
        BY <1>1, <2>2, <3>0, <3>2, <4>1, BehindInner
      <4> QED BY <1>7, <1>8, <4>2
    <3>3. CASE b \in Ancestors(scopes, a)
      <4>1. a \in own /\ b \in own
        BY <1>9
      <4>2. EndOf(records, scopes[a].recs[i]) <= OffsetOf(records, scopes[b].recs[j])
        BY <1>1, <2>2, <3>0, <3>3, <4>1, BehindInner
      <4> QED BY <1>7, <1>8, <4>2
    <3> QED BY <3>1, <3>2, <3>3
  <2> QED BY <2>1, <2>2
<1> DEFINE o == records[r].offset
           p == records[q].offset
           m == entry_size(records[r].type)
           n == entry_size(records[q].type)
<1>11. o \in Nat /\ p \in Nat /\ m \in Nat /\ n \in Nat
  BY <1>2, <1>7, <1>8, <1>9, RecordOf DEF OffsetOf
<1>12. o + m <= p \/ p + n <= o
  BY <1>10 DEF EndOf, OffsetOf
<1> HIDE DEF o, p, m, n
<1>13. ~Overlap(o, m, p, n)
  BY <1>11, <1>12 DEF Overlap
<1> QED BY <1>13 DEF o, p, m, n

----------------------------------------------------------------------------
(* The frame holds what is in it *)

\* A record ends before the temporaries of the function.
LEMMA RecordInside ==
  ASSUME TypeInv, Placement, TempPlaces, NEW f \in Unmoved, NEW r \in RecsIn(OwnScopes(f))
  PROVE  /\ OffsetOf(records, r) \in Nat /\ entry_size(records[r].type) \in Nat
         /\ EndOf(records, r) = OffsetOf(records, r) + entry_size(records[r].type)
         /\ EndOf(records, r) + Rest(FuncScope(f)) <= max_scope_size(scopes, FuncScope(f))
<1> DEFINE c == Root(scopes, f)
<1>1. Sound(scopes, records) /\ Tree(scopes)
  BY DEF TypeInv, Sound
<1>2. f \in Names(scopes) /\ FuncScope(f) = c /\ OwnScopes(f) = Family(scopes, c)
  BY UnmovedIs, StateNames
<1>3. c \in Children(scopes, 1) /\ c \in DOMAIN scopes
  BY <1>1, <1>2, RootIs
<1>4. PICK s \in Family(scopes, c) : \E i \in DOMAIN scopes[s].recs : scopes[s].recs[i] = r
  BY <1>2 DEF RecsIn
<1>5. PICK i \in DOMAIN scopes[s].recs : scopes[s].recs[i] = r
  BY <1>4
<1>6. s \in DOMAIN scopes /\ c \in Ancestors(scopes, s)
  BY DEF Family
<1> DEFINE e == EndOf(records, r)
           m == max_scope_size(scopes, s)
           t == Rest(s)
<1>7. /\ OffsetOf(records, r) \in Nat /\ entry_size(records[r].type) \in Nat
      /\ e = OffsetOf(records, r) + entry_size(records[r].type) /\ e \in Nat
  BY <1>1, <1>5, <1>6, RecordOf
<1>8. e + t <= m
  <2>1. Roomy(scopes, records, s, Rest(s))
    BY DEF Placement
  <2> QED BY <1>5, <2>1 DEF Roomy
<1> DEFINE u == Rest(c)
           n == max_scope_size(scopes, c)
<1>9. e + u <= n
  <2>1. CASE s = c
    BY <1>8, <2>1
  <2>2. CASE s # c
    <3> DEFINE a == Inner(scopes, c)
               y == scopes[c].size
    <3>1. m <= a
      BY <1>1, <1>6, <2>2, Nested
    <3>2. n = y + a /\ y \in Nat /\ a \in Nat /\ m \in Nat
      BY <1>1, <1>3, <1>6, MaxIs
    <3>3. u <= y
      BY <1>3 DEF TempPlaces, Global
    <3>4. t \in Nat /\ u \in Nat
      BY <1>3, <1>6, RestNat
    <3> HIDE DEF a, y, n, u, t, m, e
    <3> QED BY <1>7, <1>8, <3>1, <3>2, <3>3, <3>4
  <2> QED BY <2>1, <2>2
<1> QED BY <1>2, <1>7, <1>9

\* The size of a frame is rounded up.
LEMMA AlignUp == ASSUME NEW n \in Nat PROVE align(n) \in Nat /\ align(n) >= n
<1> DEFINE a == STACK_ALIGN
           k == n % a
<1>1. a \in Nat \ {0}
  BY StackAssumption
<1>2. k \in 0 .. a - 1
  BY <1>1
<1>3. align(n) = IF k = 0 THEN n ELSE n + (a - k)
  BY DEF align
<1> HIDE DEF k, a
<1> QED BY <1>1, <1>2, <1>3

\* Outgoing arguments take a number of bytes.
LEMMA WordsNat == ASSUME NEW w \in 0 .. MaxStackArgs PROVE w * WORD_SIZE \in Nat
<1>1. WORD_SIZE \in Nat /\ MaxStackArgs \in Nat
  BY StackAssumption, FramesAssumption
<1>2. w \in Nat
  BY <1>1
<1> QED BY <1>1, <1>2

\* What is inside the scopes is inside the frame.
LEMMA InsideFrame ==
  ASSUME TypeInv, NEW f \in Declared, NEW w \in 0 .. MaxStackArgs, NEW o \in Nat, NEW n \in Nat,
         o + n <= max_scope_size(scopes, FuncScope(f))
  PROVE  /\ sp_offset(o, w) >= STACK_ARGS_BASE + w * WORD_SIZE
         /\ sp_offset(o, w) + n <= FrameSize(f, w)
<1> DEFINE m == max_scope_size(scopes, FuncScope(f))
           p == w * WORD_SIZE
           h == STACK_HEADER_SIZE
           all == h + m + p
<1>1. m \in Nat
  BY PlaceOfTemp
<1>2. p \in Nat
  BY WordsNat
<1>3. h \in Nat /\ STACK_LOCAL_BASE \in Nat /\ STACK_ARGS_BASE \in Nat
      /\ STACK_ARGS_BASE <= STACK_LOCAL_BASE /\ STACK_LOCAL_BASE <= h
  BY StackAssumption
<1>4. sp_offset(o, w) = o + STACK_LOCAL_BASE + p /\ FrameSize(f, w) = align(all)
  BY DEF sp_offset, FrameSize
<1> HIDE DEF m, p, h
<1>5. all \in Nat
  BY <1>1, <1>2, <1>3
<1>6. align(all) \in Nat /\ align(all) >= all
  <2> HIDE DEF all
  <2> QED BY <1>5, AlignUp
<1>7. o + n <= m
  BY DEF m
<1> DEFINE z == align(all)
<1> HIDE DEF z
<1>8. z \in Nat /\ z >= h + m + p
  BY <1>6 DEF z
<1>9. o + STACK_LOCAL_BASE + p + n <= z
  BY <1>1, <1>2, <1>3, <1>7, <1>8
<1>10. o + STACK_LOCAL_BASE + p >= STACK_ARGS_BASE + p
  BY <1>2, <1>3
<1> QED BY <1>4, <1>9, <1>10 DEF z, p

\* Where the temporaries of a function are.
LEMMA TempInside ==
  ASSUME TypeInv, TempPlaces, NEW f \in Declared, NEW i \in DOMAIN temps[f]
  PROVE  /\ temps[f][i] \in Nat /\ i \in Nat
         /\ temps[f][i] + Rest(FuncScope(f)) = max_scope_size(scopes, FuncScope(f)) + 4 * (i - 1)
         /\ Rest(FuncScope(f)) \in Nat /\ max_scope_size(scopes, FuncScope(f)) \in Nat
         /\ phase = "generate" => temps[f][i] + 4 <= max_scope_size(scopes, FuncScope(f))
<1> DEFINE c == FuncScope(f)
           m == max_scope_size(scopes, c)
           t == Rest(c)
           e == temps[f][i]
           k == Len(temps[f])
<1>1. temps[f] \in Seq(Nat) /\ k \in Nat /\ m \in Nat
  BY PlaceOfTemp
<1>2. e \in Nat /\ i \in Nat /\ i >= 1 /\ i <= k
  BY <1>1
<1>3. c \in DOMAIN scopes /\ c \in Children(scopes, 1) /\ scopes[c].func = f
  BY TypesOf DEF Global
<1>4. t \in Nat
  BY <1>3, RestNat
<1>5. e + t = m + 4 * (i - 1)
  BY DEF TempPlaces
<1>6. ASSUME phase = "generate" PROVE e + 4 <= m
  <2>1. t = 4 * k
    BY <1>3, <1>6 DEF Rest, TempsOf, Children
  <2> HIDE DEF c, m, t, e, k
  <2> QED BY <1>1, <1>2, <1>5, <2>1
<1> QED BY <1>1, <1>2, <1>4, <1>5, <1>6

\* The variables of a function that was not inlined end before the temporaries,
\* and these with the scope of the function, which is inside of the frame.
LEMMA FrameHolds == FrameInv => FramesHold
<1> SUFFICES ASSUME FrameInv, phase \in {"allocate", "generate"}, CopiedOnce,
                    NEW f \in Left
             PROVE  LET recs == IF f \in Moved THEN {} ELSE RecsIn(OwnScopes(f))
                        slots == {<<records[r].offset, entry_size(records[r].type)>> : r \in recs}
                                   \cup {<<temps[f][i], 4>> : i \in DOMAIN temps[f]}
                    IN  /\ phase = "generate" =>
                              \A w \in 0 .. MaxStackArgs, x \in slots :
                                 /\ sp_offset(x[1], w) >= STACK_ARGS_BASE + w * WORD_SIZE
                                 /\ sp_offset(x[1], w) + x[2] <= FrameSize(f, w)
                        /\ \A i, j \in DOMAIN temps[f] :
                              i < j => ~Overlap(temps[f][i], 4, temps[f][j], 4)
                        /\ \A i \in DOMAIN temps[f], r \in recs :
                              ~Overlap(temps[f][i], 4, records[r].offset,
                                       entry_size(records[r].type))
  BY DEF FramesHold
<1>1. TypeInv /\ Placement /\ TempPlaces
  BY DEF FrameInv, Layout
<1>2. f \in Declared
  BY DEF Left
<1> DEFINE recs == IF f \in Moved THEN {} ELSE RecsIn(OwnScopes(f))
           t == Rest(FuncScope(f))
           m == max_scope_size(scopes, FuncScope(f))
<1>3. ASSUME NEW r \in recs
      PROVE  /\ records[r].offset \in Nat /\ entry_size(records[r].type) \in Nat
             /\ (records[r].offset + entry_size(records[r].type)) + t <= m
  <2>1. /\ OffsetOf(records, r) \in Nat /\ entry_size(records[r].type) \in Nat
        /\ EndOf(records, r) = OffsetOf(records, r) + entry_size(records[r].type)
        /\ EndOf(records, r) + t <= m
    <3>1. f \in Unmoved /\ r \in RecsIn(OwnScopes(f))
      BY <1>2 DEF Unmoved
    <3> QED BY <1>1, <3>1, RecordInside
  <2> QED BY <2>1 DEF OffsetOf, EndOf
<1>4. ASSUME NEW i \in DOMAIN temps[f]
      PROVE  /\ temps[f][i] \in Nat /\ i \in Nat
             /\ temps[f][i] + t = m + 4 * (i - 1)
             /\ phase = "generate" => temps[f][i] + 4 <= m
  BY <1>1, <1>2, TempInside
<1>5. t \in Nat /\ m \in Nat
  <2>1. FuncScope(f) \in DOMAIN scopes
    BY <1>1, <1>2, TypesOf
  <2> QED BY <1>1, <1>2, <2>1, RestNat, PlaceOfTemp
<1> HIDE DEF recs, t, m
<1>6. ASSUME phase = "generate", NEW w \in 0 .. MaxStackArgs, NEW o \in Nat, NEW n \in Nat, o + n <= m
      PROVE  /\ sp_offset(o, w) >= STACK_ARGS_BASE + w * WORD_SIZE
             /\ sp_offset(o, w) + n <= FrameSize(f, w)
  BY <1>1, <1>2, <1>6, InsideFrame DEF m
<1>7. ASSUME phase = "generate", NEW w \in 0 .. MaxStackArgs, NEW r \in recs
      PROVE  /\ sp_offset(records[r].offset, w) >= STACK_ARGS_BASE + w * WORD_SIZE
             /\ sp_offset(records[r].offset, w) + entry_size(records[r].type) <= FrameSize(f, w)
  <2> DEFINE o == records[r].offset
             n == entry_size(records[r].type)
  <2>1. o \in Nat /\ n \in Nat /\ (o + n) + t <= m
    BY <1>3
  <2> HIDE DEF o, n
  <2>2. o + n <= m
    BY <1>5, <2>1
  <2>3. /\ sp_offset(o, w) >= STACK_ARGS_BASE + w * WORD_SIZE
        /\ sp_offset(o, w) + n <= FrameSize(f, w)
    BY <1>6, <1>7, <2>1, <2>2
  <2> QED BY <2>3 DEF o, n
<1>8. ASSUME phase = "generate", NEW w \in 0 .. MaxStackArgs, NEW i \in DOMAIN temps[f]
      PROVE  /\ sp_offset(temps[f][i], w) >= STACK_ARGS_BASE + w * WORD_SIZE
             /\ sp_offset(temps[f][i], w) + 4 <= FrameSize(f, w)
  BY <1>4, <1>6, <1>8
<1>9. ASSUME NEW i \in DOMAIN temps[f], NEW j \in DOMAIN temps[f], i < j
      PROVE  ~Overlap(temps[f][i], 4, temps[f][j], 4)
  <2> DEFINE a == temps[f][i]
             b == temps[f][j]
  <2>1. a \in Nat /\ b \in Nat /\ i \in Nat /\ j \in Nat /\ a + t = m + 4 * (i - 1) /\ b + t = m + 4 * (j - 1)
    BY <1>4
  <2> HIDE DEF a, b
  <2>2. a + 4 <= b
    BY <1>5, <1>9, <2>1
  <2>3. ~Overlap(a, 4, b, 4)
    BY <2>1, <2>2 DEF Overlap
  <2> QED BY <2>3 DEF a, b
<1>10. ASSUME NEW i \in DOMAIN temps[f], NEW r \in recs
       PROVE  ~Overlap(temps[f][i], 4, records[r].offset, entry_size(records[r].type))
  <2> DEFINE a == temps[f][i]
             o == records[r].offset
             n == entry_size(records[r].type)
  <2>1. a \in Nat /\ i \in Nat /\ a + t = m + 4 * (i - 1)
    BY <1>4
  <2>2. o \in Nat /\ n \in Nat /\ (o + n) + t <= m
    BY <1>3
  <2>3. i >= 1
    <3>1. temps[f] \in Seq(Nat)
      BY <1>1, <1>2, PlaceOfTemp
    <3> QED BY <3>1
  <2> HIDE DEF a, o, n
  <2>4. o + n <= a
    BY <1>5, <2>1, <2>2, <2>3
  <2>5. ~Overlap(a, 4, o, n)
    BY <2>1, <2>2, <2>4 DEF Overlap
  <2> QED BY <2>5 DEF a, o, n
<1>11. ASSUME phase = "generate", NEW w \in 0 .. MaxStackArgs,
              NEW x \in {<<records[r].offset, entry_size(records[r].type)>> : r \in recs}
                           \cup {<<temps[f][i], 4>> : i \in DOMAIN temps[f]}
       PROVE  /\ sp_offset(x[1], w) >= STACK_ARGS_BASE + w * WORD_SIZE
              /\ sp_offset(x[1], w) + x[2] <= FrameSize(f, w)
  BY <1>7, <1>8, <1>11
<1> QED BY <1>9, <1>10, <1>11 DEF recs

----------------------------------------------------------------------------
(* Theorems *)

\* The state has its types: the scopes are a tree, every scope is at least
\* as large as the records in it, and no offset is negative, whatever is
\* declared, inlined and spilled.
THEOREM TypeCorrect == Spec => []TypeOK
<1>1. FrameInv => TypeOK
  BY TypeInvImplies DEF FrameInv
<1> QED BY <1>1, FramesInvariant, PTL

\* Variables of a function that is left that can be in use at once never share
\* a byte of the frame, after set_scope_offsets and after any number of calls
\* were inlined that copy_locals handles right (CopiedOnce), in a function
\* whose inlining was disabled when it was already inlined, too.
THEOREM VariablesApart == Spec => []SlotsDisjoint
<1>1. FrameInv => SlotsDisjoint
  BY SlotsApart
<1> QED BY <1>1, FramesInvariant, PTL

\* In a function that is left every temporary, and every variable unless the
\* function was inlined too, is inside of the frame that init_function makes
\* and behind the words for outgoing arguments, and no temporary shares a word
\* with such a variable or another temporary, when the calls that were inlined
\* are those that copy_locals handles right (CopiedOnce).
THEOREM FramesAreLargeEnough == Spec => []FramesHold
<1>1. FrameInv => FramesHold
  BY FrameHolds
<1> QED BY <1>1, FramesInvariant, PTL

\* The space kept for a variable, and for what history storage adds to it,
\* is at least what the program and the run time library make use of, for
\* every type that can be declared except those whose elements are measured
\* by another type and the index-wise pointers.
THEOREM StorageIsEnough == Spec => []StorageSuffices
<1>1. FrameInv => StorageSuffices
  <2> SUFFICES ASSUME FrameInv, NEW r \in DOMAIN records PROVE Stored(records[r])
    BY DEF StorageSuffices, Stored
  <2> QED BY DEF FrameInv, TypeInv, Sound, IsList, IsRecord
<1> QED BY <1>1, FramesInvariant, PTL

=============================================================================
