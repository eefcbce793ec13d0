---------------------------- MODULE IndexLemmas ----------------------------
(***************************************************************************)
(* Facts about natural numbers and about functions defined by recursion on *)
(* an index, as the loops of the compiler are modelled:                    *)
(*                                                                         *)
(*   after[i \in 0 .. n] == IF i = 0 THEN base ELSE ... after[i - 1] ...   *)
(*                                                                         *)
(* IterationExists says that such a function exists when the body of the   *)
(* loop stays within a set of states, Upward that what holds before the    *)
(* first round and is kept by every round holds after each of them.        *)
(* LoopExists is the same, one round at a time.  CourseUp and CourseDown   *)
(* are for recursions that look at all smaller, or all greater, places.    *)
(***************************************************************************)
EXTENDS Integers, FiniteSetTheorems, WellFoundedInduction, TLAPS

\* A finite set of numbers has a greatest element.
LEMMA Greatest ==
  ASSUME NEW T \in SUBSET Nat, IsFiniteSet(T), T # {}
  PROVE  \E m \in T : \A i \in T : i <= m
<1> DEFINE Above(c) == {i \in T : i > c}
           Aboves == {Above(c) : c \in T}
           Order == StrictSubsetOrdering(Nat)
<1>1. Aboves \subseteq FiniteSubsetsOf(Nat)
  <2> SUFFICES ASSUME NEW c \in T PROVE Above(c) \in FiniteSubsetsOf(Nat)
    OBVIOUS
  <2>1. IsFiniteSet(Above(c))
    BY FS_Subset
  <2> QED BY <2>1 DEF FiniteSubsetsOf
<1>2. Aboves # {}
  OBVIOUS
<1>3. PICK x \in Aboves : \A y \in Aboves : ~(<<y, x>> \in Order)
  <2>1. IsWellFoundedOn(Order, FiniteSubsetsOf(Nat))
    BY FS_StrictSubsetOrderingWellFounded
  <2> HIDE DEF Aboves, Order
  <2> QED BY <1>1, <1>2, <2>1, WFMin
<1>4. PICK m \in T : x = Above(m)
  OBVIOUS
<1>5. ASSUME NEW i \in T, i > m PROVE FALSE
  <2>1. Above(i) \subseteq Above(m) /\ Above(i) # Above(m)
    <3>1. i \in Above(m) /\ i \notin Above(i)
      BY <1>5
    <3>2. ASSUME NEW k \in Above(i) PROVE k \in Above(m)
      BY <1>5
    <3> HIDE DEF Above
    <3> QED BY <3>1, <3>2
  <2>2. Above(i) \in Aboves /\ <<Above(i), Above(m)>> \notin Order
    BY <1>3, <1>4
  <2>3. Above(i) \in SUBSET Nat /\ Above(m) \in SUBSET Nat
    OBVIOUS
  <2> QED BY <2>1, <2>2, <2>3 DEF StrictSubsetOrdering
<1> QED BY <1>5

\* A set of numbers has a least element.
LEMMA Least ==
  ASSUME NEW T \in SUBSET Nat, T # {}
  PROVE  \E m \in T : \A i \in T : m <= i
<1>1. PICK t \in T : TRUE
  OBVIOUS
<1> DEFINE Near == {i \in 0 .. t : t - i \in T}
<1>2. Near \in SUBSET Nat /\ Near # {} /\ IsFiniteSet(Near)
  <2>1. IsFiniteSet(0 .. t)
    BY FS_Interval
  <2>2. Near \in SUBSET (0 .. t)
    OBVIOUS
  <2>3. IsFiniteSet(Near)
    <3> HIDE DEF Near
    <3> QED BY <2>1, <2>2, FS_Subset
  <2>4. 0 \in Near
    OBVIOUS
  <2>5. Near \in SUBSET Nat
    OBVIOUS
  <2> QED BY <2>3, <2>4, <2>5
<1>3. PICK g \in Near : \A i \in Near : i <= g
  <2> HIDE DEF Near
  <2> QED BY <1>2, Greatest
<1> DEFINE m == t - g
<1>4. m \in T /\ m <= t
  OBVIOUS
<1>5. ASSUME NEW i \in T PROVE m <= i
  <2>1. CASE i <= t
    <3>1. t - i \in Near
      BY <2>1
    <3> QED BY <1>3, <3>1
  <2>2. CASE i > t
    BY <2>2, <1>4
  <2> QED BY <2>1, <2>2
<1> QED BY <1>4, <1>5

\* What holds at 0 and is passed on by every step holds up to n.
LEMMA Upward ==
  ASSUME NEW n \in Nat, NEW T, 0 \in T, \A i \in 1 .. n : i - 1 \in T => i \in T
  PROVE  0 .. n \subseteq T
<1> DEFINE Missed == {i \in 0 .. n : i \notin T}
<1> SUFFICES ASSUME Missed # {} PROVE FALSE
  OBVIOUS
<1>1. PICK m \in Missed : \A i \in Missed : m <= i
  <2>1. Missed \in SUBSET Nat
    OBVIOUS
  <2> HIDE DEF Missed
  <2> QED BY <2>1, Least
<1>2. m \in 1 .. n /\ m - 1 \in 0 .. n /\ m - 1 \notin Missed
  BY <1>1
<1> QED BY <1>2

\* A round of a loop: from the state before it and its number to the state after
Rounds(S, n) == [S \X (1 .. n) -> S]

\* f holds the states before the first round and after each.
Loop(f, base, n, step) ==
  f = [i \in 0 .. n |-> IF i = 0 THEN base ELSE step[<<f[i - 1], i>>]]

Loops(S, base, n, step) == {f \in [0 .. n -> S] : Loop(f, base, n, step)}

\* The recursion has a solution.
LEMMA IterationExists ==
  ASSUME NEW S, NEW base \in S, NEW n \in Nat, NEW step \in Rounds(S, n)
  PROVE  Loops(S, base, n, step) # {}
<1> USE DEF Rounds, Loop, Loops
<1> DEFINE Sols(m) == {f \in [0 .. m -> S] :
                          f = [i \in 0 .. m |-> IF i = 0 THEN base ELSE step[<<f[i - 1], i>>]]}
           T == {m \in 0 .. n : Sols(m) # {}}
<1>1. 0 \in T
  <2> DEFINE f == [i \in 0 .. 0 |-> base]
  <2>1. f \in [0 .. 0 -> S]
    OBVIOUS
  <2>2. f = [i \in 0 .. 0 |-> IF i = 0 THEN base ELSE step[<<f[i - 1], i>>]]
    OBVIOUS
  <2>3. f \in Sols(0)
    BY <2>1, <2>2
  <2> QED BY <2>3
<1>2. ASSUME NEW m \in 1 .. n, m - 1 \in T PROVE m \in T
  <2>1. PICK f \in [0 .. m - 1 -> S] :
          f = [i \in 0 .. m - 1 |-> IF i = 0 THEN base ELSE step[<<f[i - 1], i>>]]
    BY <1>2
  <2> DEFINE g == [i \in 0 .. m |-> IF i = m THEN step[<<f[m - 1], m>>] ELSE f[i]]
  <2>2. g \in [0 .. m -> S]
    <3>1. step[<<f[m - 1], m>>] \in S
      OBVIOUS
    <3> QED BY <3>1
  <2>3. ASSUME NEW i \in 0 .. m
        PROVE  g[i] = IF i = 0 THEN base ELSE step[<<g[i - 1], i>>]
    <3>1. CASE i = m
      <4>1. m - 1 \in 0 .. m /\ m - 1 # m /\ m # 0
        OBVIOUS
      <4> QED BY <3>1, <4>1
    <3>2. CASE i # m
      <4>1. i \in 0 .. m - 1 /\ g[i] = f[i]
        BY <3>2
      <4>2. CASE i = 0
        BY <2>1, <4>1, <4>2
      <4>3. CASE i # 0
        <5>1. i - 1 \in 0 .. m /\ i - 1 # m
          BY <4>1, <4>3
        <5>2. g[i - 1] = f[i - 1]
          BY <5>1
        <5> HIDE DEF g
        <5> QED BY <2>1, <4>1, <4>3, <5>2
      <4> QED BY <4>2, <4>3
    <3> QED BY <3>1, <3>2
  <2>4. g = [i \in 0 .. m |-> IF i = 0 THEN base ELSE step[<<g[i - 1], i>>]]
    BY <2>3
  <2>5. g \in Sols(m)
    <3> HIDE DEF g
    <3> QED BY <2>2, <2>4
  <2>6. m \in 0 .. n
    OBVIOUS
  <2> HIDE DEF Rounds
  <2> QED BY <2>5, <2>6
<1>3. 0 .. n \subseteq T
  <2> HIDE DEF T
  <2> QED BY <1>1, <1>2, Upward
<1>4. n \in T
  BY <1>3
<1> QED BY <1>4

\* The same, one round at a time
LEMMA LoopExists ==
  ASSUME NEW S, NEW base \in S, NEW n \in Nat, NEW step \in Rounds(S, n)
  PROVE  \E f \in [0 .. n -> S] :
            f[0] = base /\ \A i \in 1 .. n : f[i] = step[<<f[i - 1], i>>]
<1>1. PICK f \in [0 .. n -> S] : Loop(f, base, n, step)
  <2>1. Loops(S, base, n, step) # {}
    BY IterationExists
  <2> QED BY <2>1 DEF Loops
<1>2. ASSUME NEW i \in 0 .. n
      PROVE  f[i] = IF i = 0 THEN base ELSE step[<<f[i - 1], i>>]
  BY <1>1 DEF Loop
<1>3. f[0] = base
  <2>1. 0 \in 0 .. n
    OBVIOUS
  <2> QED BY <1>2, <2>1
<1>4. ASSUME NEW i \in 1 .. n PROVE f[i] = step[<<f[i - 1], i>>]
  <2>1. i \in 0 .. n /\ i # 0
    OBVIOUS
  <2> QED BY <1>2, <2>1
<1> QED BY <1>3, <1>4

\* A function on 1 .. n whose value at every place is given by step, which looks
\* at no place that comes later in the order.
Course(f, n, step) == \A i \in 1 .. n : f[i] = step[<<f, i>>]

Courses(S, n) == [[1 .. n -> S] \X (1 .. n) -> S]

\* The order puts place order[k] at number k and every place at some number.
Orders(n) == {o \in [1 .. n -> 1 .. n] :
                /\ \A k, l \in 1 .. n : o[k] = o[l] => k = l
                /\ \A i \in 1 .. n : \E k \in 1 .. n : o[k] = i}

LooksBack(S, n, step, order) ==
  \A f, g \in [1 .. n -> S] : \A k \in 1 .. n :
     (\A l \in 1 .. k - 1 : f[order[l]] = g[order[l]])
       => step[<<f, order[k]>>] = step[<<g, order[k]>>]

\* The recursion has a solution: the places are filled in one after the other.
LEMMA CourseExists ==
  ASSUME NEW S, S # {}, NEW n \in Nat, NEW step \in Courses(S, n), NEW order \in Orders(n),
         LooksBack(S, n, step, order)
  PROVE  \E f \in [1 .. n -> S] : Course(f, n, step)
<1> DEFINE F == [1 .. n -> S]
           Filled(f, k) == [f EXCEPT ![order[k]] = step[<<f, order[k]>>]]
           round == [p \in F \X (1 .. n) |-> Filled(p[1], p[2])]
<1>1. \A k \in 1 .. n : order[k] \in 1 .. n
  BY DEF Orders
<1>2. ASSUME NEW f \in F, NEW i \in 1 .. n PROVE step[<<f, i>>] \in S
  BY DEF Courses
<1>3. ASSUME NEW f \in F, NEW k \in 1 .. n PROVE Filled(f, k) \in F
  BY <1>1, <1>2
<1>4. round \in Rounds(F, n)
  <2> HIDE DEF Filled, F
  <2> QED BY <1>3 DEF Rounds
<1>5. PICK start \in F : TRUE
  <2>1. PICK s \in S : TRUE
    OBVIOUS
  <2>2. [i \in 1 .. n |-> s] \in F
    OBVIOUS
  <2> QED BY <2>2
<1>6. PICK g \in [0 .. n -> F] : Loop(g, start, n, round)
  <2> HIDE DEF F, round
  <2> QED BY <1>4, <1>5, IterationExists DEF Loops
<1>7. \A k \in 1 .. n : g[k - 1] \in F /\ g[k] = Filled(g[k - 1], k)
  <2> SUFFICES ASSUME NEW k \in 1 .. n PROVE g[k - 1] \in F /\ g[k] = Filled(g[k - 1], k)
    OBVIOUS
  <2>1. k - 1 \in 0 .. n /\ k \in 0 .. n /\ k # 0
    OBVIOUS
  <2>2. g[k] = round[<<g[k - 1], k>>]
    <3> HIDE DEF round, F
    <3> QED BY <1>6, <2>1 DEF Loop
  <2>3. g[k - 1] \in F
    BY <2>1
  <2> HIDE DEF Filled, F
  <2> QED BY <2>2, <2>3
<1> DEFINE Done(k) == \A l \in 1 .. k : g[k][order[l]] = step[<<g[k], order[l]>>]
           T == {k \in 0 .. n : Done(k)}
<1>8. 0 \in T
  OBVIOUS
<1>9. ASSUME NEW k \in 1 .. n, k - 1 \in T PROVE k \in T
  <2>1. g[k] \in F /\ g[k - 1] \in F
    BY <1>7, <1>3
  <2>2. \A l \in 1 .. n : g[k][order[l]] = IF l = k THEN step[<<g[k - 1], order[k]>>]
                                           ELSE g[k - 1][order[l]]
    <3> SUFFICES ASSUME NEW l \in 1 .. n
                 PROVE g[k][order[l]] = IF l = k THEN step[<<g[k - 1], order[k]>>]
                                        ELSE g[k - 1][order[l]]
      OBVIOUS
    <3>1. order[l] = order[k] => l = k
      BY DEF Orders
    <3>2. order[l] \in 1 .. n
      BY <1>1
    <3>3. g[k][order[l]] = Filled(g[k - 1], k)[order[l]]
      BY <1>7
    <3>4. Filled(g[k - 1], k)[order[l]] = IF order[l] = order[k] THEN step[<<g[k - 1], order[k]>>]
                                          ELSE g[k - 1][order[l]]
      BY <2>1, <3>2
    <3> QED BY <3>1, <3>3, <3>4
  <2>3. ASSUME NEW l \in 1 .. k PROVE g[k][order[l]] = step[<<g[k], order[l]>>]
    <3>1. l \in 1 .. n /\ \A j \in 1 .. l - 1 : j \in 1 .. n /\ j # k
      OBVIOUS
    <3>2. \A j \in 1 .. l - 1 : g[k][order[j]] = g[k - 1][order[j]]
      <4> HIDE DEF F, Filled
      <4> QED BY <2>2, <3>1
    <3>3. step[<<g[k], order[l]>>] = step[<<g[k - 1], order[l]>>]
      BY <2>1, <3>1, <3>2 DEF LooksBack
    <3>4. CASE l = k
      BY <2>2, <3>1, <3>3, <3>4
    <3>5. CASE l # k
      <4>1. l \in 1 .. k - 1
        BY <3>5
      <4>2. g[k - 1][order[l]] = step[<<g[k - 1], order[l]>>]
        <5> HIDE DEF F, Filled
        <5> QED BY <1>9, <4>1
      <4> QED BY <2>2, <3>1, <3>3, <3>5, <4>2
    <3> QED BY <3>4, <3>5
  <2> QED BY <2>3
<1>10. n \in T
  <2>1. 0 .. n \subseteq T
    <3> HIDE DEF T
    <3> QED BY <1>8, <1>9, Upward
  <2> QED BY <2>1
<1>11. g[n] \in F
  OBVIOUS
<1>12. Course(g[n], n, step)
  <2> SUFFICES ASSUME NEW i \in 1 .. n PROVE g[n][i] = step[<<g[n], i>>]
    BY DEF Course
  <2>1. PICK k \in 1 .. n : order[k] = i
    BY DEF Orders
  <2> HIDE DEF F
  <2> QED BY <1>10, <2>1
<1> QED BY <1>11, <1>12

\* The recursion on smaller places
LEMMA CourseUp ==
  ASSUME NEW S, S # {}, NEW n \in Nat, NEW step \in Courses(S, n),
         \A f, g \in [1 .. n -> S] : \A i \in 1 .. n :
            (\A j \in 1 .. i - 1 : f[j] = g[j]) => step[<<f, i>>] = step[<<g, i>>]
  PROVE  \E f \in [1 .. n -> S] : Course(f, n, step)
<1> DEFINE order == [k \in 1 .. n |-> k]
<1>1. order \in Orders(n)
  BY DEF Orders
<1>2. LooksBack(S, n, step, order)
  <2> SUFFICES ASSUME NEW f \in [1 .. n -> S], NEW g \in [1 .. n -> S], NEW k \in 1 .. n,
                      \A l \in 1 .. k - 1 : f[order[l]] = g[order[l]]
               PROVE  step[<<f, order[k]>>] = step[<<g, order[k]>>]
    BY DEF LooksBack
  <2>1. order[k] = k /\ \A l \in 1 .. k - 1 : order[l] = l
    OBVIOUS
  <2> HIDE DEF order
  <2>2. \A l \in 1 .. k - 1 : f[l] = g[l]
    BY <2>1
  <2> QED BY <2>1, <2>2
<1> HIDE DEF order
<1> QED BY <1>1, <1>2, CourseExists

\* The recursion on greater places
LEMMA CourseDown ==
  ASSUME NEW S, S # {}, NEW n \in Nat, NEW step \in Courses(S, n),
         \A f, g \in [1 .. n -> S] : \A i \in 1 .. n :
            (\A j \in i + 1 .. n : f[j] = g[j]) => step[<<f, i>>] = step[<<g, i>>]
  PROVE  \E f \in [1 .. n -> S] : Course(f, n, step)
<1> DEFINE order == [k \in 1 .. n |-> n + 1 - k]
<1>1. order \in Orders(n)
  <2>1. order \in [1 .. n -> 1 .. n] /\ \A k, l \in 1 .. n : order[k] = order[l] => k = l
    OBVIOUS
  <2>2. ASSUME NEW i \in 1 .. n PROVE \E k \in 1 .. n : order[k] = i
    <3>1. n + 1 - i \in 1 .. n /\ order[n + 1 - i] = i
      OBVIOUS
    <3> QED BY <3>1
  <2> QED BY <2>1, <2>2 DEF Orders
<1>2. LooksBack(S, n, step, order)
  <2> SUFFICES ASSUME NEW f \in [1 .. n -> S], NEW g \in [1 .. n -> S], NEW k \in 1 .. n,
                      \A l \in 1 .. k - 1 : f[order[l]] = g[order[l]]
               PROVE  step[<<f, order[k]>>] = step[<<g, order[k]>>]
    BY DEF LooksBack
  <2>1. order[k] \in 1 .. n /\ order[k] = n + 1 - k
    OBVIOUS
  <2>2. ASSUME NEW j \in order[k] + 1 .. n PROVE f[j] = g[j]
    <3>1. n + 1 - j \in 1 .. k - 1 /\ order[n + 1 - j] = j
      OBVIOUS
    <3> HIDE DEF order
    <3> QED BY <3>1
  <2> HIDE DEF order
  <2> QED BY <2>1, <2>2
<1> HIDE DEF order
<1> QED BY <1>1, <1>2, CourseExists
=============================================================================
