------------------------- MODULE HistoryArrayProofs -------------------------
(***************************************************************************)
(* Proofs about HistoryArray, for every depth, every size of the array and *)
(* every set of values, with the O(n) and with the O(d) algorithm.         *)
(*                                                                         *)
(* The cycle of snapshots is seen as Depth places of Size words.  If the   *)
(* newest snapshot is in place j, that of k assignments ago is in          *)
(* Place(j, k), and a store goes to Newer(j), the place of the oldest.     *)
(***************************************************************************)
EXTENDS HistoryArray, FiniteSetTheorems, WellFoundedInduction, TLAPS

Places == 0 .. Depth - 1
Newer(j) == IF j = 0 THEN Depth - 1 ELSE j - 1
Place(j, k) == IF j + k - 1 >= Depth THEN j + k - 1 - Depth ELSE j + k - 1

\* The change list has all its words: what TypeOK says of its entries, said of
\* the function, so that it can be kept by a step.
ListType == clist \in [0 .. 2 * Depth - 1 -> Index \cup {Magic} \cup Word]

IInv == TypeOK /\ PtrsOnBoundary /\ ListType

USE DepthAssumption, SizeAssumption, MagicAssumption, OrdersAssumption

----------------------------------------------------------------------------
(* Places *)

\* Where both pointers stand
LEMMA PtrPlace ==
  ASSUME IInv
  PROVE  \E j \in Places : ptr = j * Size
<1>1. ptr \in {j * Size : j \in 0 .. Depth - 1}
  BY DEF IInv, PtrsOnBoundary
<1> QED BY <1>1 DEF Places

LEMMA ListPlace ==
  ASSUME IInv
  PROVE  \E c \in Places : clist_ptr = 2 * c
<1>1. clist_ptr \in {j * 2 : j \in 0 .. Depth - 1}
  BY DEF IInv, PtrsOnBoundary
<1>2. PICK j \in 0 .. Depth - 1 : clist_ptr = j * 2
  BY <1>1
<1>3. j * 2 = 2 * j
  BY <1>2
<1> QED BY <1>2, <1>3 DEF Places

\* A place is Size words of the cycle.
LEMMA WordsOfPlace ==
  ASSUME NEW j \in Places, NEW i \in Index
  PROVE  j * Size \in Nat /\ j * Size + i \in Addr
<1>1. j * Size \in Nat /\ Depth * Size \in Nat
  BY DEF Places
<1>2. j * Size + Size <= Depth * Size
  BY DEF Places
<1> QED BY <1>1, <1>2 DEF Index, Addr

\* Different places have no word in common.
LEMMA PlacesApart ==
  ASSUME NEW j \in Places, NEW l \in Places, j # l, NEW i \in Index
  PROVE  l * Size + i \notin j * Size .. j * Size + Size - 1
<1>1. j * Size \in Nat /\ l * Size \in Nat
  BY DEF Places
<1>2. j < l => j * Size + Size <= l * Size
  BY DEF Places
<1>3. l < j => l * Size + Size <= j * Size
  BY DEF Places
<1> QED BY <1>1, <1>2, <1>3 DEF Places, Index

\* Both wraps of the library are those of the places: the one of the stores
\* from the first place to the last, the one of the load beyond the last.
LEMMA StepBackPlace ==
  ASSUME NEW j \in Places
  PROVE  Newer(j) \in Places /\ StepBack(j * Size) = Newer(j) * Size
<1>1. CASE j = 0
  BY <1>1 DEF Places, Newer, StepBack
<1>2. CASE j # 0
  <2>1. j * Size - Size = (j - 1) * Size /\ (j - 1) * Size \in Nat
    BY <1>2 DEF Places
  <2> QED BY <1>2, <2>1 DEF Places, Newer, StepBack
<1> QED BY <1>1, <1>2

LEMMA SnapshotPlace ==
  ASSUME NEW j \in Places, NEW k \in 1..Depth
  PROVE  /\ Place(j, k) \in Places
         /\ LET p == j * Size + (k - 1) * Size
            IN  Place(j, k) * Size =
                  IF p >= Size * Depth THEN p - Size * Depth ELSE p
<1>1. Place(j, k) \in Places
  BY DEF Places, Place
<1>2. j * Size + (k - 1) * Size = (j + k - 1) * Size
  BY DEF Places
<1>3. (j + k - 1) * Size - Size * Depth = (j + k - 1 - Depth) * Size
  BY DEF Places
<1>4. CASE j + k - 1 >= Depth
  <2>1. (j + k - 1) * Size >= Size * Depth
    BY <1>4 DEF Places
  <2> QED BY <1>1, <1>2, <1>3, <1>4, <2>1 DEF Places, Place
<1>5. CASE j + k - 1 < Depth
  <2>1. (j + k - 1) * Size < Size * Depth
    BY <1>5 DEF Places
  <2> QED BY <1>1, <1>2, <1>3, <1>5, <2>1 DEF Places, Place
<1> QED BY <1>4, <1>5 DEF Places

\* A store shifts every snapshot by one: the place it goes to becomes that of
\* snapshot 1, snapshot k is then where k - 1 was, and is left alone.
LEMMA PlacesShift ==
  ASSUME NEW j \in Places
  PROVE  /\ Place(Newer(j), 1) = Newer(j)
         /\ Place(j, Depth) = Newer(j)
         /\ \A k \in 2..Depth : /\ Place(Newer(j), k) = Place(j, k - 1)
                                /\ Place(Newer(j), k) # Newer(j)
BY DEF Places, Newer, Place

----------------------------------------------------------------------------
(* Types and pointers *)

\* The array loaded for any k has words of the stack or assigned values.
LEMMA LoadsWords ==
  ASSUME IInv, NEW k \in 0..Depth
  PROVE  AwLoad(k) \in [Index -> Word]
<1>1. CASE k = 0
  BY <1>1 DEF IInv, TypeOK, AwLoad
<1>2. CASE k \in 1..Depth
  <2>1. PICK j \in Places : ptr = j * Size
    BY PtrPlace
  <2>2. Place(j, k) \in Places /\ SnapshotBase(k) = Place(j, k) * Size
    BY <1>2, <2>1, SnapshotPlace DEF SnapshotBase
  <2>3. \A i \in Index : SnapshotBase(k) + i \in Addr
    BY <2>2, WordsOfPlace
  <2>4. AwLoad(k) = [i \in Index |-> mem[SnapshotBase(k) + i]]
    BY <1>2 DEF AwLoad
  <2> QED BY <2>3, <2>4 DEF IInv, TypeOK
<1> QED BY <1>1, <1>2

\* The O(n) store copies words to the place of the oldest snapshot.
LEMMA CopyKeepsTypes ==
  ASSUME IInv, NEW j \in Places
  PROVE  CopyCurrent(j * Size) \in [Addr -> Word]
<1> SUFFICES ASSUME NEW a \in Addr, a \in j * Size .. j * Size + Size - 1
             PROVE  cur[a - j * Size] \in Word
  BY DEF CopyCurrent, IInv, TypeOK
<1>1. j * Size \in Nat
  BY DEF Places
<1>2. a - j * Size \in Index
  BY <1>1 DEF Index
<1> QED BY <1>2 DEF IInv, TypeOK

\* A set of numbers up to Depth - 1 has a greatest member: of the changes to an
\* index, one is applied last.
LEMMA LastExists ==
  ASSUME NEW T \in SUBSET (0 .. Depth - 1), T # {}
  PROVE  \E m \in T : \A i \in T : i <= m
<1> DEFINE Rest(c) == c + 1 .. Depth
           Intervals == {Rest(c) : c \in T}
           Order == StrictSubsetOrdering(Nat)
<1>1. Intervals \subseteq FiniteSubsetsOf(Nat)
  <2> SUFFICES ASSUME NEW c \in T PROVE Rest(c) \in FiniteSubsetsOf(Nat)
    OBVIOUS
  <2>1. IsFiniteSet(Rest(c))
    BY FS_Interval
  <2> QED BY <2>1 DEF FiniteSubsetsOf
<1>2. Intervals # {}
  OBVIOUS
<1>3. PICK x \in Intervals : \A y \in Intervals : ~(<<y, x>> \in Order)
  <2>1. IsWellFoundedOn(Order, FiniteSubsetsOf(Nat))
    BY FS_StrictSubsetOrderingWellFounded
  <2> HIDE DEF Intervals, Order
  <2> QED BY <1>1, <1>2, <2>1, WFMin
<1>4. PICK m \in T : x = Rest(m)
  OBVIOUS
<1>5. ASSUME NEW i \in T, i > m PROVE FALSE
  <2>1. Rest(i) \subseteq Rest(m) /\ Rest(i) # Rest(m)
    <3>1. i \in Rest(m) /\ i \notin Rest(i)
      BY <1>5
    <3> QED BY <1>5, <3>1
  <2>2. Rest(i) \in SUBSET Nat /\ Rest(m) \in SUBSET Nat
    OBVIOUS
  <2>3. <<Rest(i), Rest(m)>> \in Order
    BY <2>1, <2>2 DEF StrictSubsetOrdering
  <2> QED BY <1>3, <1>4, <2>3
<1>6. \A i \in T : i <= m
  BY <1>5
<1> QED BY <1>6

\* The entry that the i-th newest change is in; the change list is a cycle like
\* that of the snapshots, two words for each place.
LEMMA EntryPlace ==
  ASSUME NEW c \in Places, NEW i \in Places
  PROVE  /\ Place(c, i + 1) \in Places
         /\ (2 * c + 2 * i) % (2 * Depth) = 2 * Place(c, i + 1)
<1>1. Place(c, i + 1) \in Places
  BY DEF Places, Place
<1>2. CASE c + i < Depth
  <2>1. 2 * c + 2 * i \in Nat /\ 2 * c + 2 * i < 2 * Depth
    BY <1>2 DEF Places
  <2>2. (2 * c + 2 * i) % (2 * Depth) = 2 * c + 2 * i
    BY <2>1
  <2> QED BY <1>1, <1>2, <2>2 DEF Places, Place
<1>3. CASE c + i >= Depth
  <2> DEFINE a == 2 * c + 2 * i
             n == 2 * Depth
  <2>1. a \in Nat /\ n \in Nat \ {0} /\ a >= n /\ a < 2 * n
    BY <1>3 DEF Places
  <2>2. a % n = a - n
    <3> HIDE DEF a, n
    <3> QED BY <2>1
  <2> QED BY <1>1, <1>3, <2>2 DEF Places, Place
<1> QED BY <1>2, <1>3 DEF Places

\* Every round of the loop over the change list is at an entry.
LEMMA EntriesTyped ==
  ASSUME IInv, NEW i \in Places
  PROVE  /\ Entry(i) \in 0 .. 2 * Depth - 1 /\ Entry(i) + 1 \in 0 .. 2 * Depth - 1
         /\ clist[Entry(i)] \in Index \cup {Magic}
         /\ clist[Entry(i) + 1] \in Word
<1>1. PICK c \in Places : clist_ptr = 2 * c
  BY ListPlace
<1>2. PICK e \in Places : Entry(i) = 2 * e
  BY <1>1, EntryPlace DEF Entry
<1> QED BY <1>2 DEF IInv, TypeOK, Places

\* The O(d) store puts values of the change list in the place of the oldest
\* snapshot, and leaves the rest alone.
LEMMA ApplyKeepsTypes ==
  ASSUME IInv, NEW p
  PROVE  ApplyChanges(p) \in [Addr -> Word]
<1> DEFINE Hits(x) == {i \in 0 .. Depth - 1 : clist[Entry(i)] = x}
           Final(x) == CHOOSE i \in Hits(x) : \A o \in Hits(x) : o <= i
<1>1. ASSUME NEW x, Hits(x) # {} PROVE clist[Entry(Final(x)) + 1] \in Word
  <2>1. Final(x) \in Hits(x)
    <3>1. Hits(x) \in SUBSET (0 .. Depth - 1)
      OBVIOUS
    <3> HIDE DEF Hits
    <3> QED BY <1>1, <3>1, LastExists
  <2>2. Final(x) \in Places
    BY <2>1 DEF Places
  <2> HIDE DEF Final
  <2> QED BY <2>2, EntriesTyped
<1>2. ApplyChanges(p) =
        [a \in Addr |-> IF a \in p .. p + Size - 1 /\ Hits(a - p) # {}
                          THEN clist[Entry(Final(a - p)) + 1] ELSE mem[a]]
  BY DEF ApplyChanges
<1> HIDE DEF Hits, Final
<1> QED BY <1>1, <1>2 DEF IInv, TypeOK

\* The pointers start at the first place.
LEMMA InitIInv == Init => IInv
<1> SUFFICES ASSUME Init PROVE IInv
  OBVIOUS
<1>1. TypeOK
  <2>1. 0 \in Addr
    BY DEF Addr
  <2>2. \A i \in 0 .. Depth - 1 :
           clist[2 * i] \in Index \cup {Magic} /\ clist[2 * i + 1] \in Word
    BY DEF Init, UnusedClist, Word
  <2> QED BY <2>1, <2>2 DEF Init, TypeOK, Word
<1>2. PtrsOnBoundary
  <2>1. 0 \in Places /\ 0 = 0 * Size /\ 0 = 0 * 2
    BY DEF Places
  <2> QED BY <2>1 DEF Init, PtrsOnBoundary, Places
<1>3. ListType
  BY DEF Init, UnusedClist, ListType, Word
<1> QED BY <1>1, <1>2, <1>3 DEF IInv

\* The change list steps back as the cycle of snapshots does, and the new change
\* is put in the entry it comes to.
LEMMA ListStep ==
  ASSUME IInv, NEW index \in Index, NEW value \in Val, DawStore(index, value),
         NEW c \in Places, clist_ptr = 2 * c
  PROVE  /\ clist_ptr' = 2 * Newer(c) /\ Newer(c) \in Places
         /\ clist'[2 * Newer(c)] = index /\ clist'[2 * Newer(c) + 1] = value
         /\ \A e \in Places : e # Newer(c) =>
               clist'[2 * e] = clist[2 * e] /\ clist'[2 * e + 1] = clist[2 * e + 1]
         /\ ListType'
<1>1. clist_ptr' = 2 * Newer(c) /\ Newer(c) \in Places
  BY DEF DawStore, ClistStepBack, Newer, Places
<1>2. clist' = [clist EXCEPT ![2 * Newer(c)] = index, ![2 * Newer(c) + 1] = value]
  BY <1>1 DEF DawStore
<1>3. DOMAIN clist = 0 .. 2 * Depth - 1
  BY DEF IInv, ListType
<1>4. \A e \in Places : 2 * e \in DOMAIN clist /\ 2 * e + 1 \in DOMAIN clist
  BY <1>3 DEF Places
<1> HIDE DEF Newer
<1>5. clist'[2 * Newer(c)] = index /\ clist'[2 * Newer(c) + 1] = value
  BY <1>1, <1>2, <1>4 DEF Places
<1>6. \A e \in Places : e # Newer(c) =>
        clist'[2 * e] = clist[2 * e] /\ clist'[2 * e + 1] = clist[2 * e + 1]
  BY <1>1, <1>2, <1>4 DEF Places
<1>7. ListType'
  BY <1>1, <1>2, <1>3 DEF IInv, ListType, Word
<1> QED BY <1>1, <1>5, <1>6, <1>7

\* Every step keeps the types, and both pointers at the beginning of a place.
LEMMA NextIInv == IInv /\ [Next]_vars => IInv'
<1> SUFFICES ASSUME IInv, [Next]_vars PROVE IInv'
  OBVIOUS
<1>1. PICK j \in Places : ptr = j * Size
  BY PtrPlace
<1>2. PICK c \in Places : clist_ptr = 2 * c
  BY ListPlace
<1>3. StepBack(ptr) = Newer(j) * Size /\ Newer(j) \in Places
  BY <1>1, StepBackPlace
<1>4. StepBack(ptr) \in Addr
  <2>1. 0 \in Index
    BY DEF Index
  <2>2. Newer(j) * Size + 0 \in Addr /\ Newer(j) * Size \in Nat
    BY <1>3, <2>1, WordsOfPlace
  <2> QED BY <1>3, <2>2
<1>5. ASSUME NEW index \in Index, NEW value \in Val, Store(index, value) PROVE IInv'
  <2>1. hist' \in [0..Depth -> [Index -> Word]] /\ repeated' \in BOOLEAN
    <3>1. [hist[0] EXCEPT ![index] = value] \in [Index -> Word]
      BY DEF IInv, TypeOK, Word
    <3>2. \A k \in 0..Depth : k # 0 => hist[k - 1] \in [Index -> Word]
      BY DEF IInv, TypeOK
    <3> QED BY <1>5, <3>1, <3>2 DEF Store, Push, IInv, TypeOK, Repeats
  <2>2. cur' \in [Index -> Word] /\ ptr' = StepBack(ptr)
        /\ order_d' = order_d /\ result' = result
    BY <1>5 DEF Store, DawStore, NawStore, IInv, TypeOK, Word
  <2>3. ptr' \in {i * Size : i \in 0 .. Depth - 1}
    BY <1>3, <2>2 DEF Places
  <2>4. CASE order_d
    <3>1. DawStore(index, value)
      BY <1>5, <2>4 DEF Store
    <3>2. mem' \in [Addr -> Word]
      BY <3>1, ApplyKeepsTypes DEF DawStore
    <3>3. /\ clist_ptr' = 2 * Newer(c) /\ Newer(c) \in Places /\ ListType'
          /\ clist'[2 * Newer(c)] = index /\ clist'[2 * Newer(c) + 1] = value
          /\ \A e \in Places : e # Newer(c) =>
               clist'[2 * e] = clist[2 * e] /\ clist'[2 * e + 1] = clist[2 * e + 1]
      BY <1>2, <3>1, ListStep
    <3>4. \A e \in Places :
             clist'[2 * e] \in Index \cup {Magic} /\ clist'[2 * e + 1] \in Word
      BY <3>3 DEF IInv, TypeOK, Places, Word
    <3>5. clist_ptr' \in {e * 2 : e \in 0 .. Depth - 1}
      BY <3>3 DEF Places
    <3> QED BY <1>4, <2>1, <2>2, <2>3, <3>2, <3>3, <3>4, <3>5
            DEF IInv, TypeOK, PtrsOnBoundary, Places
  <2>5. CASE ~order_d
    <3>1. NawStore(index, value)
      BY <1>5, <2>5 DEF Store
    <3>2. mem' \in [Addr -> Word]
      BY <1>3, <3>1, CopyKeepsTypes DEF NawStore
    <3> QED BY <1>4, <2>1, <2>2, <2>3, <3>1, <3>2
            DEF NawStore, IInv, TypeOK, PtrsOnBoundary, ListType
  <2> QED BY <2>4, <2>5
<1>6. ASSUME NEW index \in Index, NEW k \in 0..Depth, Load(index, k) PROVE IInv'
  <2>1. result' \in Word
    BY <1>6, LoadsWords DEF Load
  <2> QED BY <1>6, <2>1 DEF Load, rtvars, IInv, TypeOK, PtrsOnBoundary, ListType
<1>7. CASE UNCHANGED vars
  BY <1>7 DEF vars, rtvars, IInv, TypeOK, PtrsOnBoundary, ListType
<1> QED BY <1>5, <1>6, <1>7 DEF Next

\* Type correctness, for every depth and every size of the array.
THEOREM TypesKept == Spec => []TypeOK
<1>1. IInv => TypeOK
  BY DEF IInv
<1> QED BY InitIInv, NextIInv, <1>1, PTL DEF Spec

\* Both pointers always point at the first word of a place: neither store of the
\* library writes outside the snapshots or the change list.
THEOREM PtrsStayOnBoundary == Spec => []PtrsOnBoundary
<1>1. IInv => PtrsOnBoundary
  BY DEF IInv
<1> QED BY InitIInv, NextIInv, <1>1, PTL DEF Spec

----------------------------------------------------------------------------
(* The snapshots of the O(n) algorithm *)

\* What snapshot k has, in terms of the place it is in.
LEMMA SnapshotAt ==
  ASSUME NEW j \in Places, ptr = j * Size, NEW k \in 1..Depth
  PROVE  /\ Place(j, k) \in Places
         /\ AwLoad(k) = [i \in Index |-> mem[Place(j, k) * Size + i]]
<1>1. Place(j, k) \in Places /\ SnapshotBase(k) = Place(j, k) * Size
  BY SnapshotPlace DEF SnapshotBase
<1> QED BY <1>1 DEF AwLoad

LEMMA SnapshotAtNext ==
  ASSUME NEW j \in Places, ptr' = j * Size, NEW k \in 1..Depth
  PROVE  /\ Place(j, k) \in Places
         /\ AwLoad(k)' = [i \in Index |-> mem'[Place(j, k) * Size + i]]
<1>1. Place(j, k) \in Places /\ SnapshotBase(k)' = Place(j, k) * Size
  BY SnapshotPlace DEF SnapshotBase
<1> QED BY <1>1 DEF AwLoad

\* A store that writes only the place of the oldest snapshot leaves every other
\* snapshot as it was, one assignment older.
LEMMA OlderSnapshotsStay ==
  ASSUME NEW j \in Places, ptr = j * Size, ptr' = Newer(j) * Size,
         \A a \in Addr : a \notin Newer(j) * Size .. Newer(j) * Size + Size - 1
                           => mem'[a] = mem[a],
         NEW k \in 2..Depth
  PROVE  AwLoad(k)' = AwLoad(k - 1)
<1>1. Newer(j) \in Places
  BY StepBackPlace
<1>2. Place(Newer(j), k) = Place(j, k - 1) /\ Place(Newer(j), k) # Newer(j)
  BY PlacesShift
<1>3. /\ Place(j, k - 1) \in Places
      /\ AwLoad(k - 1) = [i \in Index |-> mem[Place(j, k - 1) * Size + i]]
  BY SnapshotAt
<1>4. AwLoad(k)' = [i \in Index |-> mem'[Place(j, k - 1) * Size + i]]
  BY <1>1, <1>2, SnapshotAtNext
<1>5. ASSUME NEW i \in Index
      PROVE  mem'[Place(j, k - 1) * Size + i] = mem[Place(j, k - 1) * Size + i]
  <2>1. Place(j, k - 1) * Size + i \in Addr
    BY <1>3, WordsOfPlace
  <2>2. Place(j, k - 1) * Size + i
          \notin Newer(j) * Size .. Newer(j) * Size + Size - 1
    BY <1>1, <1>2, <1>3, PlacesApart
  <2> QED BY <2>1, <2>2
<1> QED BY <1>3, <1>4, <1>5

\* The O(n) store puts the present array in the place of the oldest snapshot.
LEMMA NextNSnapshots ==
  IInv /\ NSnapshotsExact /\ [Next]_vars => NSnapshotsExact'
<1> SUFFICES ASSUME IInv, NSnapshotsExact, [Next]_vars, ~order_d',
                    NEW k \in 0..Depth
             PROVE  AwLoad(k)' = hist'[k]
  BY DEF NSnapshotsExact
<1>1. PICK j \in Places : ptr = j * Size
  BY PtrPlace
<1>2. StepBack(ptr) = Newer(j) * Size /\ Newer(j) \in Places
  BY <1>1, StepBackPlace
<1>3. ASSUME NEW index \in Index, NEW value \in Val, Store(index, value)
      PROVE  AwLoad(k)' = hist'[k]
  <2>1. NawStore(index, value) /\ ~order_d
    BY <1>3 DEF Store
  <2>2. /\ hist' = [n \in 0..Depth |-> IF n = 0 THEN [hist[0] EXCEPT ![index] = value]
                                         ELSE hist[n - 1]]
        /\ cur' = [cur EXCEPT ![index] = value]
        /\ ptr' = Newer(j) * Size
        /\ mem' = CopyCurrent(Newer(j) * Size)
    BY <1>2, <1>3, <2>1 DEF Store, NawStore, Push
  <2>3. cur = hist[0]
    <3>1. AwLoad(0) = hist[0]
      BY <2>1 DEF NSnapshotsExact
    <3> QED BY <3>1 DEF AwLoad
  <2>4. CASE k = 0
    BY <2>2, <2>3, <2>4 DEF AwLoad
  <2>5. CASE k = 1
    <3>1. AwLoad(1)' = [i \in Index |-> mem'[Newer(j) * Size + i]]
      BY <1>2, <2>2, <2>5, SnapshotAtNext, PlacesShift
    <3>2. ASSUME NEW i \in Index PROVE mem'[Newer(j) * Size + i] = cur[i]
      <4> DEFINE p == Newer(j) * Size
      <4>1. p \in Nat /\ p + i \in Addr
        BY <1>2, WordsOfPlace
      <4>2. mem' = CopyCurrent(p)
        BY <2>2
      <4> HIDE DEF p
      <4>3. p + i \in p .. p + Size - 1 /\ (p + i) - p = i
        BY <4>1 DEF Index
      <4>4. mem'[p + i] = cur[i]
        BY <4>1, <4>2, <4>3 DEF CopyCurrent
      <4> QED BY <4>4 DEF p
    <3>3. [i \in Index |-> cur[i]] = cur
      BY DEF IInv, TypeOK
    <3>4. hist'[1] = hist[0]
      BY <2>2
    <3> QED BY <2>3, <2>5, <3>1, <3>2, <3>3, <3>4
  <2>6. CASE k \in 2..Depth
    <3>1. AwLoad(k)' = AwLoad(k - 1)
      BY <1>1, <2>2, <2>6, OlderSnapshotsStay DEF CopyCurrent
    <3>2. AwLoad(k - 1) = hist[k - 1] /\ hist'[k] = hist[k - 1]
      BY <2>1, <2>2, <2>6 DEF NSnapshotsExact
    <3> QED BY <3>1, <3>2
  <2> QED BY <2>4, <2>5, <2>6
<1>4. ASSUME NEW index \in Index, NEW n \in 0..Depth, Load(index, n)
      PROVE  AwLoad(k)' = hist'[k]
  BY <1>4 DEF Load, rtvars, NSnapshotsExact, AwLoad, SnapshotBase
<1>5. CASE UNCHANGED vars
  BY <1>5 DEF vars, rtvars, NSnapshotsExact, AwLoad, SnapshotBase
<1> QED BY <1>3, <1>4, <1>5 DEF Next

\* With the O(n) algorithm every snapshot is the array as it was, for every depth,
\* every size and every sequence of assignments.
THEOREM NSnapshotsAreExact == Spec => []NSnapshotsExact
<1>1. Init => NSnapshotsExact
  <2> SUFFICES ASSUME Init, NEW k \in 0..Depth PROVE AwLoad(k) = hist[k]
    BY DEF NSnapshotsExact
  <2>1. CASE k = 0
    BY <2>1 DEF Init, AwLoad
  <2>2. CASE k \in 1..Depth
    <3>1. 0 \in Places /\ ptr = 0 * Size
      BY DEF Init, Places
    <3>2. Place(0, k) \in Places
          /\ AwLoad(k) = [i \in Index |-> mem[Place(0, k) * Size + i]]
      BY <2>2, <3>1, SnapshotAt
    <3>3. \A i \in Index : Place(0, k) * Size + i \in Addr
      BY <3>2, WordsOfPlace
    <3> QED BY <2>2, <3>2, <3>3 DEF Init
  <2> QED BY <2>1, <2>2
<1> QED BY InitIInv, NextIInv, NextNSnapshots, <1>1, PTL DEF Spec

----------------------------------------------------------------------------
(* The snapshots of the O(d) algorithm *)

\* The change list is a ledger of the last Depth assignments: an entry has the
\* value that its index got, and no other index changed in that assignment.
Ledger ==
  \A i \in Places :
    /\ clist[Entry(i)] \in Index => hist[i][clist[Entry(i)]] = clist[Entry(i) + 1]
    /\ \A x \in Index : clist[Entry(i)] # x => hist[i][x] = hist[i + 1][x]

DInv ==
  order_d => /\ cur = hist[0]
             /\ Ledger
             /\ ~repeated => ~Repeats(clist) /\ SnapshotsAgree

\* Without repetition every entry for an index has the same value.
LEMMA EntriesAgree ==
  ASSUME IInv, ~Repeats(clist), NEW i \in Places, NEW m \in Places,
         clist[Entry(m)] \in Index, clist[Entry(i)] = clist[Entry(m)]
  PROVE  clist[Entry(i) + 1] = clist[Entry(m) + 1]
<1>1. PICK c \in Places : clist_ptr = 2 * c
  BY ListPlace
<1>2. PICK e \in Places : Entry(i) = 2 * e
  BY <1>1, EntryPlace DEF Entry
<1>3. PICK f \in Places : Entry(m) = 2 * f
  BY <1>1, EntryPlace DEF Entry
<1>4. /\ Entry(i) \in {2 * n : n \in 0 .. Depth - 1}
      /\ Entry(m) \in {2 * n : n \in 0 .. Depth - 1}
  BY <1>2, <1>3 DEF Places
<1> HIDE DEF Entry
<1> QED BY <1>4 DEF Repeats

\* An index in the list has the value that its entries have.
LEMMA ListedIndex ==
  ASSUME IInv, Ledger, ~Repeats(clist), NEW m \in Places,
         clist[Entry(m)] \in Index
  PROVE  hist[0][clist[Entry(m)]] = clist[Entry(m) + 1]
<1> DEFINE x == clist[Entry(m)]
           value == clist[Entry(m) + 1]
           T == {d \in 0 .. m : hist[m - d][x] = value}
<1>1. 0 \in T /\ T \in SUBSET (0 .. Depth - 1)
  <2>1. hist[m][x] = value
    BY DEF Ledger
  <2> QED BY <2>1 DEF Places
<1>2. PICK d \in T : \A i \in T : i <= d
  <2> HIDE DEF T
  <2> QED BY <1>1, LastExists
<1>3. ASSUME d # m PROVE FALSE
  <2> DEFINE e == m - d - 1
  <2>1. e \in Places /\ e + 1 = m - d /\ m - (d + 1) = e /\ d + 1 \in 0 .. m
    BY <1>2, <1>3 DEF Places
  <2>2. hist[e + 1][x] = value
    BY <1>2, <2>1
  <2>3. hist[e][x] = value
    <3>1. CASE clist[Entry(e)] = x
      <4>1. hist[e][clist[Entry(e)]] = clist[Entry(e) + 1]
        BY <2>1, <3>1 DEF Ledger
      <4>2. clist[Entry(e) + 1] = value
        BY <2>1, <3>1, EntriesAgree
      <4> QED BY <3>1, <4>1, <4>2
    <3>2. CASE clist[Entry(e)] # x
      BY <2>1, <2>2, <3>2 DEF Ledger
    <3> QED BY <3>1, <3>2
  <2>4. d + 1 \in T
    BY <2>1, <2>3
  <2>5. d + 1 <= d
    BY <1>2, <2>4
  <2> QED BY <1>2, <2>5 DEF Places
<1>4. hist[m - m][x] = value /\ m - m = 0
  BY <1>2, <1>3 DEF Places
<1> QED BY <1>4

\* An index that is not in the list has the value of Depth assignments ago.
LEMMA UnlistedIndex ==
  ASSUME Ledger, NEW x \in Index, \A i \in Places : clist[Entry(i)] # x
  PROVE  hist[Depth][x] = hist[0][x]
<1> DEFINE T == {i \in 0 .. Depth - 1 : hist[i][x] = hist[0][x]}
<1>1. 0 \in T /\ T \in SUBSET (0 .. Depth - 1)
  OBVIOUS
<1>2. PICK m \in T : \A i \in T : i <= m
  <2> HIDE DEF T
  <2> QED BY <1>1, LastExists
<1>3. m \in Places /\ hist[m + 1][x] = hist[0][x]
  BY <1>2 DEF Ledger, Places
<1>4. CASE m + 1 = Depth
  BY <1>3, <1>4
<1>5. CASE m + 1 # Depth
  <2>1. m + 1 \in T
    BY <1>3, <1>5 DEF Places
  <2> QED BY <1>2, <1>3, <2>1 DEF Places
<1> QED BY <1>4, <1>5

\* The O(d) store leaves in the place of the oldest snapshot what the array has.
LEMMA AppliedIsCurrent ==
  ASSUME IInv, DInv, order_d, ~repeated, NEW j \in Places, ptr = j * Size,
         NEW x \in Index, hist[0][x] # Junk
  PROVE  ApplyChanges(Newer(j) * Size)[Newer(j) * Size + x] = hist[0][x]
<1> DEFINE p == Newer(j) * Size
           Hits(y) == {i \in 0 .. Depth - 1 : clist[Entry(i)] = y}
           Final(y) == CHOOSE i \in Hits(y) : \A o \in Hits(y) : o <= i
<1>1. Newer(j) \in Places /\ p \in Nat /\ p + x \in Addr
  BY StepBackPlace, WordsOfPlace
<1>2. ApplyChanges(p) =
        [a \in Addr |-> IF a \in p .. p + Size - 1 /\ Hits(a - p) # {}
                          THEN clist[Entry(Final(a - p)) + 1] ELSE mem[a]]
  BY DEF ApplyChanges
<1>3. ApplyChanges(p)[p + x] =
        IF Hits(x) # {} THEN clist[Entry(Final(x)) + 1] ELSE mem[p + x]
  <2> HIDE DEF p, Hits, Final
  <2>1. p + x \in p .. p + Size - 1 /\ (p + x) - p = x
    BY <1>1 DEF Index
  <2> QED BY <1>1, <1>2, <2>1
<1>4. CASE Hits(x) # {}
  <2>1. Final(x) \in Hits(x)
    <3>1. Hits(x) \in SUBSET (0 .. Depth - 1)
      OBVIOUS
    <3> HIDE DEF Hits
    <3> QED BY <1>4, <3>1, LastExists
  <2>2. Final(x) \in Places /\ clist[Entry(Final(x))] = x
    BY <2>1 DEF Places
  <2>3. hist[0][x] = clist[Entry(Final(x)) + 1]
    <3> HIDE DEF Final
    <3> QED BY <2>2, ListedIndex DEF DInv
  <2> QED BY <1>3, <1>4, <2>3
<1>5. CASE Hits(x) = {}
  <2>1. hist[Depth][x] = hist[0][x]
    BY <1>5, UnlistedIndex DEF DInv, Places
  <2>2. AwLoad(Depth)[x] = hist[Depth][x]
    BY <2>1 DEF DInv, SnapshotsAgree
  <2>3. AwLoad(Depth) = [i \in Index |-> mem[Place(j, Depth) * Size + i]]
    BY SnapshotAt
  <2>4. Place(j, Depth) = Newer(j)
    BY PlacesShift
  <2>5. AwLoad(Depth)[x] = mem[p + x]
    BY <2>3, <2>4
  <2> QED BY <1>3, <1>5, <2>1, <2>2, <2>5
<1> QED BY <1>4, <1>5

\* An assignment puts its change into the ledger as the newest one, and the
\* others become one assignment older; the oldest one is dropped.
LEMMA NextLedger ==
  ASSUME IInv, Ledger, NEW index \in Index, NEW value \in Val,
         DawStore(index, value),
         hist' = Push(hist, [hist[0] EXCEPT ![index] = value])
  PROVE  Ledger'
<1>1. PICK c \in Places : clist_ptr = 2 * c
  BY ListPlace
<1>2. /\ clist_ptr' = 2 * Newer(c) /\ Newer(c) \in Places
      /\ clist'[2 * Newer(c)] = index /\ clist'[2 * Newer(c) + 1] = value
      /\ \A e \in Places : e # Newer(c) =>
           clist'[2 * e] = clist[2 * e] /\ clist'[2 * e + 1] = clist[2 * e + 1]
  BY <1>1, ListStep
<1>3. \A i \in Places : Entry(i)' = 2 * Place(Newer(c), i + 1)
  BY <1>2, EntryPlace DEF Entry
<1>4. /\ hist'[0] = [hist[0] EXCEPT ![index] = value]
      /\ \A k \in 1..Depth : hist'[k] = hist[k - 1]
  BY DEF Push
<1>5. hist[0] \in [Index -> Word]
  BY DEF IInv, TypeOK
<1> SUFFICES ASSUME NEW i \in Places
             PROVE  /\ clist'[Entry(i)'] \in Index =>
                          hist'[i][clist'[Entry(i)']] = clist'[Entry(i)' + 1]
                    /\ \A x \in Index : clist'[Entry(i)'] # x =>
                          hist'[i][x] = hist'[i + 1][x]
  BY DEF Ledger
<1>6. CASE i = 0
  <2>1. Entry(i)' = 2 * Newer(c)
    BY <1>3, <1>6, PlacesShift
  <2>2. hist'[1] = hist[0]
    BY <1>4
  <2>3. hist'[0][index] = value /\ \A x \in Index : x # index => hist'[0][x] = hist[0][x]
    BY <1>4, <1>5
  <2> HIDE DEF Entry
  <2> QED BY <1>2, <1>6, <2>1, <2>2, <2>3
<1>7. CASE i # 0
  <2>1. i - 1 \in Places /\ i + 1 \in 2..Depth /\ (i + 1) - 1 = i /\ (i - 1) + 1 = i
        /\ i \in 1..Depth
    BY <1>7 DEF Places
  <2>2. Place(Newer(c), i + 1) = Place(c, i) /\ Place(c, i) # Newer(c)
    BY <2>1, PlacesShift
  <2>3. Entry(i - 1) = 2 * Place(c, i) /\ Place(c, i) \in Places
    BY <1>1, <2>1, EntryPlace DEF Entry
  <2>4. Entry(i)' = Entry(i - 1)
    BY <1>3, <2>2, <2>3
  <2>5. clist'[Entry(i)'] = clist[Entry(i - 1)]
        /\ clist'[Entry(i)' + 1] = clist[Entry(i - 1) + 1]
    BY <1>2, <2>2, <2>3, <2>4
  <2>6. hist'[i] = hist[i - 1] /\ hist'[i + 1] = hist[i]
    BY <1>4, <2>1
  <2>7. /\ clist[Entry(i - 1)] \in Index =>
             hist[i - 1][clist[Entry(i - 1)]] = clist[Entry(i - 1) + 1]
        /\ \A x \in Index : clist[Entry(i - 1)] # x => hist[i - 1][x] = hist[i][x]
    BY <2>1 DEF Ledger
  <2> HIDE DEF Entry
  <2> QED BY <2>5, <2>6, <2>7
<1> QED BY <1>6, <1>7

\* The store keeps the older snapshots, and completes the new one.
LEMMA NextSnapshots ==
  ASSUME IInv, DInv, order_d, ~repeated,
         NEW index \in Index, NEW value \in Val, DawStore(index, value),
         hist' = Push(hist, [hist[0] EXCEPT ![index] = value])
  PROVE  SnapshotsAgree'
<1>1. PICK j \in Places : ptr = j * Size
  BY PtrPlace
<1>2. StepBack(ptr) = Newer(j) * Size /\ Newer(j) \in Places
  BY <1>1, StepBackPlace
<1>3. /\ ptr' = Newer(j) * Size
      /\ mem' = ApplyChanges(Newer(j) * Size)
      /\ cur' = [cur EXCEPT ![index] = value]
  BY <1>2 DEF DawStore
<1>4. /\ hist'[0] = [hist[0] EXCEPT ![index] = value]
      /\ \A k \in 1..Depth : hist'[k] = hist[k - 1]
  BY DEF Push
<1> SUFFICES ASSUME NEW k \in 0..Depth, NEW x \in Index, hist'[k][x] # Junk
             PROVE  AwLoad(k)'[x] = hist'[k][x]
  BY DEF SnapshotsAgree
<1>5. CASE k = 0
  BY <1>3, <1>4, <1>5 DEF AwLoad, DInv
<1>6. CASE k = 1
  <2>1. AwLoad(1)' = [i \in Index |-> mem'[Newer(j) * Size + i]]
    BY <1>2, <1>3, <1>6, SnapshotAtNext, PlacesShift
  <2>2. hist'[1] = hist[0]
    BY <1>4, <1>6
  <2>3. mem'[Newer(j) * Size + x] = hist[0][x]
    BY <1>1, <1>3, <1>6, <2>2, AppliedIsCurrent
  <2> QED BY <1>6, <2>1, <2>2, <2>3
<1>7. CASE k \in 2..Depth
  <2>1. \A a \in Addr : a \notin Newer(j) * Size .. Newer(j) * Size + Size - 1
                          => mem'[a] = mem[a]
    BY <1>3 DEF ApplyChanges
  <2>2. AwLoad(k)' = AwLoad(k - 1)
    BY <1>1, <1>3, <1>7, <2>1, OlderSnapshotsStay
  <2>3. hist'[k] = hist[k - 1] /\ k - 1 \in 0..Depth
    BY <1>4, <1>7
  <2>4. AwLoad(k - 1)[x] = hist[k - 1][x]
    BY <2>3 DEF DInv, SnapshotsAgree
  <2> QED BY <2>2, <2>3, <2>4
<1> QED BY <1>5, <1>6, <1>7

LEMMA NextDInv == IInv /\ DInv /\ [Next]_vars => DInv'
<1> SUFFICES ASSUME IInv, DInv, [Next]_vars, order_d'
             PROVE  /\ (cur = hist[0])' /\ Ledger'
                    /\ ~repeated' => ~Repeats(clist') /\ SnapshotsAgree'
  BY DEF DInv, Repeats
<1>1. ASSUME NEW index \in Index, NEW value \in Val, Store(index, value)
      PROVE  /\ (cur = hist[0])' /\ Ledger'
             /\ ~repeated' => ~Repeats(clist') /\ SnapshotsAgree'
  <2>1. /\ order_d /\ DawStore(index, value)
        /\ hist' = Push(hist, [hist[0] EXCEPT ![index] = value])
        /\ repeated' = (repeated \/ Repeats(clist'))
    BY <1>1 DEF Store
  <2>2. (cur = hist[0])'
    <3>1. hist'[0] = [hist[0] EXCEPT ![index] = value]
      BY <2>1 DEF Push
    <3>2. cur' = [cur EXCEPT ![index] = value] /\ cur = hist[0]
      BY <2>1 DEF DInv, DawStore
    <3> QED BY <3>1, <3>2
  <2>3. Ledger'
    BY <2>1, NextLedger DEF DInv
  <2>4. ASSUME ~repeated' PROVE ~Repeats(clist') /\ SnapshotsAgree'
    <3>1. ~repeated /\ ~Repeats(clist')
      BY <2>1, <2>4
    <3> QED BY <2>1, <3>1, NextSnapshots
  <2> QED BY <2>2, <2>3, <2>4
<1>2. ASSUME NEW index \in Index, NEW k \in 0..Depth, Load(index, k)
      PROVE  /\ (cur = hist[0])' /\ Ledger'
             /\ ~repeated' => ~Repeats(clist') /\ SnapshotsAgree'
  BY <1>2 DEF Load, rtvars, DInv, Ledger, Entry, Repeats, SnapshotsAgree, AwLoad,
              SnapshotBase
<1>3. CASE UNCHANGED vars
  BY <1>3 DEF vars, rtvars, DInv, Ledger, Entry, Repeats, SnapshotsAgree, AwLoad,
              SnapshotBase
<1> QED BY <1>1, <1>2, <1>3 DEF Next

\* With the O(d) algorithm every index that had been assigned reads back with the
\* value of the time, for every depth and every size, as long as no index is
\* given two different values within Depth consecutive assignments.
THEOREM DSnapshotsAgreeUnrepeated == Spec => []DSnapshotsAgree
<1>1. Init => DInv
  <2> SUFFICES ASSUME Init
               PROVE  cur = hist[0] /\ Ledger /\ ~Repeats(clist) /\ SnapshotsAgree
    BY DEF DInv
  <2>1. \A k \in 0..Depth, i \in Index : hist[k][i] = Junk
    BY DEF Init
  <2>2. cur = hist[0] /\ SnapshotsAgree
    BY <2>1 DEF Init, SnapshotsAgree
  <2>3. \A c \in Places : clist[2 * c] = Magic
    BY DEF Init, UnusedClist, Places
  <2>4. ~Repeats(clist)
    BY <2>3 DEF Repeats, Places
  <2>5. Ledger
    <3> SUFFICES ASSUME NEW i \in Places PROVE clist[Entry(i)] = Magic
      BY <2>1 DEF Ledger, Places
    <3>1. 0 \in Places /\ clist_ptr = 2 * 0
      BY DEF Init, Places
    <3>2. PICK e \in Places : Entry(i) = 2 * e
      BY <3>1, EntryPlace DEF Entry
    <3> QED BY <2>3, <3>2
  <2> QED BY <2>2, <2>4, <2>5
<1>2. DInv => DSnapshotsAgree
  BY DEF DInv, DSnapshotsAgree
<1> QED BY InitIInv, NextIInv, NextDInv, <1>1, <1>2, PTL DEF Spec
=============================================================================
