------------------------ MODULE HistoryScalarProofs ------------------------
(***************************************************************************)
(* Proofs about HistoryScalar, for every depth, every set of values and    *)
(* every set of configurations in which the pointer is initialised.        *)
(***************************************************************************)
EXTENDS HistoryScalar, TLAPS

\* The compiler initialises the pointer of every cyclic variable.
AllInitialised == \A c \in Configs : ~Flat(c) => PtrInitialised(c)

\* The inductive invariant: PtrInCycle needs the type of the pointer, and the
\* type of the memory needs nothing else.
IInv == TypeOK /\ PtrInCycle

USE DepthAssumption, ValAssumption DEF Base, Own, Addr

----------------------------------------------------------------------------

\* The pointer that __hist_p_store__ computes is inside the cycle whenever the
\* one it starts from is a word of the cycle, at any depth.
LEMMA StepBackInCycle ==
  ASSUME NEW p \in Base .. Base + Depth - 1
  PROVE  StepBack(p) \in Base .. Base + Depth - 1
BY DEF StepBack

\* The place __hist_p_load__ reads is inside the cycle for every history index
\* from 1 to Depth: one conditional subtraction is enough.
LEMMA CyclePosInCycle ==
  ASSUME NEW p \in Base .. Base + Depth - 1, NEW k \in 1..Depth
  PROVE  CyclePos(p, k) \in Base .. Base + Depth - 1
BY DEF CyclePos

\* The word just overwritten is history 1 of the new cycle.
LEMMA NewestAtStepBack ==
  ASSUME NEW p \in Base .. Base + Depth - 1
  PROVE  CyclePos(StepBack(p), 1) = StepBack(p)
BY StepBackInCycle DEF CyclePos, StepBack

\* Every older history is found at the place it had before the store, one index
\* further back, and the store did not overwrite it.
LEMMA OlderKeepTheirPlace ==
  ASSUME NEW p \in Base .. Base + Depth - 1, NEW k \in 2..Depth
  PROVE  /\ CyclePos(StepBack(p), k) = CyclePos(p, k - 1)
         /\ CyclePos(StepBack(p), k) # StepBack(p)
BY DEF CyclePos, StepBack

----------------------------------------------------------------------------

\* The variable starts with the types declared and a pointer inside the cycle:
\* what the data segment or history_init_scalar sees to.
LEMMA InitIInv == AllInitialised /\ Init => IInv
<1> SUFFICES ASSUME AllInitialised, Init PROVE IInv
  OBVIOUS
<1>1. mem \in [Addr -> Val]
  BY DEF Init, InitWords
<1>2. ptr \in Addr
  BY DEF Init
<1>3. cur \in Val /\ result \in Val /\ conf \in Configs
  BY DEF Init
<1>4. PtrInCycle
  BY DEF AllInitialised, Init, PtrInCycle
<1> QED BY <1>1, <1>2, <1>3, <1>4 DEF IInv, TypeOK

\* Whatever history is asked for, the word read is one the variable owns.
LEMMA VisibleInVal ==
  ASSUME IInv, NEW k \in 0..Depth
  PROVE  Visible(k) \in Val
<1>1. CASE Flat(conf)
  BY <1>1 DEF Visible, FlatLoad, IInv, TypeOK
<1>2. CASE ~Flat(conf)
  <2>1. CASE k = 0
    BY <1>2, <2>1 DEF Visible, PLoad, IInv, TypeOK
  <2>2. CASE k # 0
    <3>1. CyclePos(ptr, k) \in Base .. Base + Depth - 1
      BY <1>2, <2>2, CyclePosInCycle DEF IInv, PtrInCycle
    <3> QED BY <1>2, <2>2, <3>1 DEF Visible, PLoad, IInv, TypeOK
  <2> QED BY <2>1, <2>2
<1> QED BY <1>1, <1>2

\* The short code for a constant index delivers what the library call would.
LEMMA ConstLoadAgrees ==
  ASSUME IInv, NEW k \in 0..Depth, LoadConst(k)
  PROVE  result' = Visible(k)
<1>1. CASE Flat(conf)
  BY <1>1 DEF LoadConst, Visible
<1>2. CASE ~Flat(conf)
  <2>1. CASE k = 1
    <3>1. CyclePos(ptr, 1) = ptr
      BY <1>2 DEF CyclePos, IInv, PtrInCycle
    <3> QED BY <1>2, <2>1, <3>1 DEF LoadConst, ConstLoad, Visible, PLoad
  <2>2. CASE k # 1
    BY <1>2, <2>2 DEF LoadConst, ConstLoad, Visible, PLoad
  <2> QED BY <2>1, <2>2
<1> QED BY <1>1, <1>2

\* No store and no load takes the pointer out of the cycle.
LEMMA NextIInv == IInv /\ [Next]_vars => IInv'
<1> SUFFICES ASSUME IInv, [Next]_vars PROVE IInv'
  OBVIOUS
<1>1. ASSUME NEW v \in Val, Store(v) PROVE IInv'
  <2>1. CASE Flat(conf)
    <3>1. mem' \in [Addr -> Val]
      BY <1>1, <2>1 DEF Store, StoreFlat, IInv, TypeOK
    <3> QED BY <1>1, <2>1, <3>1 DEF Store, StoreFlat, IInv, TypeOK, PtrInCycle
  <2>2. CASE ~Flat(conf)
    <3>1. StepBack(ptr) \in Base .. Base + Depth - 1
      BY <2>2, StepBackInCycle DEF IInv, PtrInCycle
    <3>2. mem' \in [Addr -> Val]
      BY <1>1, <2>2, <3>1 DEF Store, StoreCyclic, IInv, TypeOK
    <3> QED BY <1>1, <2>2, <3>1, <3>2
            DEF Store, StoreCyclic, IInv, TypeOK, PtrInCycle
  <2> QED BY <2>1, <2>2
<1>2. ASSUME NEW k \in 0..Depth, LoadIndexed(k) PROVE IInv'
  <2>1. result' \in Val
    BY <1>2, VisibleInVal DEF LoadIndexed, Visible
  <2> QED BY <1>2, <2>1 DEF LoadIndexed, IInv, TypeOK, PtrInCycle
<1>3. ASSUME NEW k \in 0..Depth, LoadConst(k) PROVE IInv'
  <2>1. result' \in Val
    BY <1>3, VisibleInVal, ConstLoadAgrees
  <2> QED BY <1>3, <2>1 DEF LoadConst, IInv, TypeOK, PtrInCycle
<1>4. CASE UNCHANGED vars
  BY <1>4 DEF vars, IInv, TypeOK, PtrInCycle
<1> QED BY <1>1, <1>2, <1>3, <1>4 DEF Next

----------------------------------------------------------------------------

\* Type correctness and the pointer's range, for every depth: no sequence of
\* stores and loads takes .x_ptr out of the cycle of a cyclic variable.
THEOREM PtrStaysInCycle == AllInitialised /\ Spec => [](TypeOK /\ PtrInCycle)
<1>1. IInv => TypeOK /\ PtrInCycle
  BY DEF IInv
<1> QED BY InitIInv, NextIInv, <1>1, PTL DEF Spec

\* The words of the variable, its pointer and what a load delivers keep their
\* types: every address the library computes is one of the memory.
THEOREM TypesKept == AllInitialised /\ Spec => []TypeOK
<1>1. IInv => TypeOK
  BY DEF IInv
<1> QED BY InitIInv, NextIInv, <1>1, PTL DEF Spec

\* Stores never write outside the words x owns.
THEOREM StoresStayInside == AllInitialised /\ Spec => NeighboursUntouched
<1>1. IInv /\ [Next]_vars => [\A a \in Addr \ Own : mem'[a] = mem[a]]_vars
  <2> SUFFICES ASSUME IInv, Next, NEW a \in Addr \ Own
               PROVE  mem'[a] = mem[a]
    BY DEF vars
  <2>1. ASSUME NEW v \in Val, Store(v) PROVE mem'[a] = mem[a]
    <3>1. CASE Flat(conf)
      BY <2>1, <3>1 DEF Store, StoreFlat, IInv, TypeOK
    <3>2. CASE ~Flat(conf)
      <4>1. StepBack(ptr) \in Base .. Base + Depth - 1
        BY <3>2, StepBackInCycle DEF IInv, PtrInCycle
      <4> QED BY <2>1, <3>2, <4>1 DEF Store, StoreCyclic, IInv, TypeOK
    <3> QED BY <3>1, <3>2
  <2>2. ASSUME NEW k \in 0..Depth, LoadIndexed(k) PROVE mem'[a] = mem[a]
    BY <2>2 DEF LoadIndexed
  <2>3. ASSUME NEW k \in 0..Depth, LoadConst(k) PROVE mem'[a] = mem[a]
    BY <2>3 DEF LoadConst
  <2> QED BY <2>1, <2>2, <2>3 DEF Next
<1> QED BY InitIInv, NextIInv, <1>1, PTL DEF Spec, NeighboursUntouched

----------------------------------------------------------------------------
(* The refinement *)

\* After a store, history 0 is the stored value and history k is what history
\* k - 1 was.
LEMMA StorePushes ==
  ASSUME IInv, NEW v \in Val, Store(v), NEW k \in 0..Depth
  PROVE  Visible(k)' = IF k = 0 THEN v ELSE Visible(k - 1)
<1>0. conf' = conf
  BY DEF Store
<1>1. CASE Flat(conf)
  <2>1. /\ Visible(k)' = mem'[k]
        /\ k # 0 => Visible(k - 1) = mem[k - 1]
    BY <1>0, <1>1 DEF Visible, FlatLoad
  <2>2. mem'[k] = IF k = 0 THEN v ELSE mem[k - 1]
    BY <1>1 DEF Store, StoreFlat
  <2> QED BY <2>1, <2>2
<1>2. CASE ~Flat(conf)
  <2>0. /\ ptr \in Base .. Base + Depth - 1
        /\ StepBack(ptr) \in Base .. Base + Depth - 1
        /\ mem \in [Addr -> Val]
    BY <1>2, StepBackInCycle DEF IInv, PtrInCycle, TypeOK
  <2>1. /\ ptr' = StepBack(ptr)
        /\ mem' = [mem EXCEPT ![StepBack(ptr)] = cur]
        /\ cur' = v
    BY <1>2 DEF Store, StoreCyclic
  <2>2. CASE k = 0
    BY <1>0, <1>2, <2>1, <2>2 DEF Visible, PLoad
  <2>3. CASE k = 1
    <3>1. CyclePos(ptr', 1) = StepBack(ptr)
      BY <2>0, <2>1, NewestAtStepBack
    <3>2. Visible(k)' = mem'[StepBack(ptr)]
      BY <1>0, <1>2, <2>3, <3>1 DEF Visible, PLoad
    <3>3. Visible(k - 1) = cur
      BY <1>2, <2>3 DEF Visible, PLoad
    <3> QED BY <2>0, <2>1, <2>3, <3>2, <3>3
  <2>4. CASE k \in 2..Depth
    <3>1. /\ CyclePos(ptr', k) = CyclePos(ptr, k - 1)
          /\ CyclePos(ptr', k) # StepBack(ptr)
      BY <2>0, <2>1, <2>4, OlderKeepTheirPlace
    <3>2. CyclePos(ptr, k - 1) \in Base .. Base + Depth - 1
      BY <2>0, <2>4, CyclePosInCycle
    <3>3. Visible(k)' = mem'[CyclePos(ptr', k)]
      BY <1>0, <1>2, <2>4 DEF Visible, PLoad
    <3>4. Visible(k - 1) = mem[CyclePos(ptr, k - 1)]
      BY <1>2, <2>4 DEF Visible, PLoad
    <3> QED BY <2>0, <2>1, <2>4, <3>1, <3>2, <3>3, <3>4
  <2> QED BY <2>2, <2>3, <2>4
<1> QED BY <1>1, <1>2

\* Cyclic and flat storage both implement the history variable of the language,
\* for every depth: initial states map to initial states, a store is an abstract
\* assignment, and each form of load is an abstract load.
THEOREM StorageImplementsHistory == AllInitialised /\ Spec => ImplementsHistory
<1>1. IInv /\ Init => Abs!Init
  <2> SUFFICES ASSUME IInv, Init PROVE Abs!Init
    OBVIOUS
  <2>1. \A k \in 0..Depth : Visible(k) \in Val
    BY VisibleInVal
  <2> QED BY <2>1 DEF Abs!Init, IInv, TypeOK
<1>2. IInv /\ [Next]_vars => [Abs!Next]_(Abs!absvars)
  <2> SUFFICES ASSUME IInv, [Next]_vars PROVE [Abs!Next]_(Abs!absvars)
    OBVIOUS
  <2>1. ASSUME NEW v \in Val, Store(v) PROVE Abs!Assign(v)
    <3>1. \A k \in 0..Depth :
            Visible(k)' = IF k = 0 THEN v ELSE Visible(k - 1)
      BY <2>1, StorePushes
    <3>2. \A k \in 0..Depth : k # 0 => k - 1 \in 0..Depth
      OBVIOUS
    <3> QED BY <2>1, <3>1, <3>2 DEF Abs!Assign, Abs!Push, Store
  <2>2. ASSUME UNCHANGED <<conf, mem, ptr, cur>>
        PROVE  \A k \in 0..Depth : Visible(k)' = Visible(k)
    BY <2>2 DEF Visible, FlatLoad, PLoad
  <2>3. ASSUME NEW k \in 0..Depth, LoadIndexed(k) PROVE Abs!Load(k)
    <3>1. result' = Visible(k)
      BY <2>3 DEF LoadIndexed, Visible
    <3> QED BY <2>2, <2>3, <3>1 DEF Abs!Load, LoadIndexed
  <2>4. ASSUME NEW k \in 0..Depth, LoadConst(k) PROVE Abs!Load(k)
    <3>1. result' = Visible(k)
      BY <2>4, ConstLoadAgrees
    <3> QED BY <2>2, <2>4, <3>1 DEF Abs!Load, LoadConst
  <2>5. CASE UNCHANGED vars
    BY <2>2, <2>5 DEF vars, Abs!absvars
  <2> QED BY <2>1, <2>3, <2>4, <2>5 DEF Next, Abs!Next
<1> QED BY InitIInv, NextIInv, <1>1, <1>2, PTL
        DEF Spec, ImplementsHistory, Abs!Spec
============================================================================
