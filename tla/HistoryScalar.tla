--------------------------- MODULE HistoryScalar ---------------------------
(***************************************************************************)
(* The storage of one scalar history variable, with the operations on it   *)
(* that the compiler emits (history.c) and the runtime library executes    *)
(* (rtlib/history.c).                                                      *)
(*                                                                         *)
(* The variable x owns the words Base .. Base + Depth (sizeof_type plus    *)
(* sizeof_history).  With cyclic storage the words Base .. Base + Depth-1  *)
(* are the cycle, .x_ptr the newest history in it and .x_cur the present   *)
(* value; with flat storage word Base + k holds the value of k assignments *)
(* ago.  Pointers count words.  The words on either side of x belong to    *)
(* other variables of the frame or of the data segment.                    *)
(***************************************************************************)
EXTENDS Integers

CONSTANTS
  Depth,   \* get_history_depth of the variable's type
  Val,     \* the values an int can hold
  Zero,    \* the word the data segment holds initially
  Configs  \* how the compiler may be invoked and x be declared, see Config

\* The option --history-simple-store with its argument, which is 0 without
\* the option, and whether x is declared in a function.
Config == [simple_store : BOOLEAN, simple_depth : Nat, local : BOOLEAN]

ASSUME DepthAssumption == Depth \in Nat \ {0}
ASSUME ValAssumption == Zero \in Val
ASSUME ConfigAssumption ==
  /\ Configs \subseteq Config
  /\ \A c \in Configs : ~c.simple_store => c.simple_depth = 0

VARIABLES
  conf,    \* the configuration in force; no step changes it
  mem,     \* the words of x and one word of each neighbour
  ptr,     \* .x_ptr
  cur,     \* .x_cur
  result   \* the register the last load returned

vars == <<conf, mem, ptr, cur, result>>

Base == 0
Own  == Base .. Base + Depth
Addr == Base - 1 .. Base + Depth + 1

----------------------------------------------------------------------------
(* Which layout history.c picks, and what it initialises. *)

Flat(c) == c.simple_store /\ Depth < c.simple_depth

InitScalarEmitted(c) == ~c.simple_store /\ Depth > c.simple_depth

\* Globals are laid out in the data segment, with the pointer at the base; a
\* local's pointer is whatever the stack holds unless history_init_scalar runs.
PtrInitialised(c) == ~c.local \/ InitScalarEmitted(c)

InitWords(c) ==
  IF c.local THEN [Addr -> Val]
             ELSE {m \in [Addr -> Val] : \A a \in Own : m[a] = Zero}

Init ==
  /\ conf \in Configs
  /\ mem \in InitWords(conf)
  /\ ptr \in IF PtrInitialised(conf) THEN {Base} ELSE Addr
  /\ cur \in IF conf.local THEN Val ELSE {Zero}
  /\ result \in Val

----------------------------------------------------------------------------
(* The runtime library *)

\* Mistake: the wrap oldest_history has, one word past the cycle.
StepBackPast(p) == IF p - 1 < Base THEN Base + Depth ELSE p - 1

\* Mistake: the wrap goes to the base.
StepBackStuck(p) == IF p - 1 < Base THEN Base ELSE p - 1

\* Mistake: the wrap is one test late, so the word before x is written.
StepBackLate(p) == IF p < Base THEN Base + Depth - 1 ELSE p - 1

\* Mistake: no wrap at all.
StepBackNoWrap(p) == p - 1

\* Where __hist_p_store__ moves the pointer before it overwrites the oldest.
StepBack(p) == IF p - 1 < Base THEN Base + Depth - 1 ELSE p - 1

\* __hist_p_store__, and the MOVE to .x_cur emitted behind the call
StoreCyclic(v) ==
  /\ ptr' = StepBack(ptr)
  /\ mem' = [mem EXCEPT ![StepBack(ptr)] = cur]
  /\ cur' = v

\* __hist_fp_store__ shifts the words up, from the last one down to the base
StoreFlat(v) ==
  /\ mem' = [a \in Addr |-> IF a = Base THEN v
                            ELSE IF a \in Own THEN mem[a - 1] ELSE mem[a]]
  /\ UNCHANGED <<ptr, cur>>

\* __hist_p_load__: the place in the cycle of the history of k stores ago
CyclePos(p, k) ==
  IF p + (k - 1) >= Base + Depth THEN p + (k - 1) - Depth ELSE p + (k - 1)

PLoad(k) == IF k = 0 THEN cur ELSE mem[CyclePos(ptr, k)]

\* __hist_fp_load__, and the instructions of its inline form
FlatLoad(k) == mem[Base + k]

----------------------------------------------------------------------------
(* The code history_store and history_load emit. *)

Store(v) ==
  /\ IF Flat(conf) THEN StoreFlat(v) ELSE StoreCyclic(v)
  /\ UNCHANGED <<conf, result>>

\* An index computed at run time goes through the library.
LoadIndexed(k) ==
  /\ result' = IF Flat(conf) THEN FlatLoad(k) ELSE PLoad(k)
  /\ UNCHANGED <<conf, mem, ptr, cur>>

\* A constant index 0 or 1 of a cyclic variable is read without a call.
ConstLoad(k) == IF k = 0 THEN cur ELSE IF k = 1 THEN mem[ptr] ELSE PLoad(k)

LoadConst(k) ==
  /\ result' = IF Flat(conf) THEN FlatLoad(k) ELSE ConstLoad(k)
  /\ UNCHANGED <<conf, mem, ptr, cur>>

Next ==
  \/ \E v \in Val : Store(v)
  \/ \E k \in 0..Depth : LoadIndexed(k)
  \/ \E k \in 0..Depth : LoadConst(k)

Spec == Init /\ [][Next]_vars

----------------------------------------------------------------------------
(* Properties *)

TypeOK ==
  /\ conf \in Configs
  /\ mem \in [Addr -> Val]
  /\ ptr \in Addr
  /\ cur \in Val
  /\ result \in Val

\* The pointer of a cyclic variable is inside the cycle from the moment the
\* function is entered: __hist_p_store__ and the loads go through it.
PtrInCycle == ~Flat(conf) => ptr \in Base .. Base + Depth - 1

\* No store to x, and so no sequence of stores, changes a word of a neighbour.
NeighboursUntouched ==
  [][\A a \in Addr \ Own : mem'[a] = mem[a]]_vars

\* The value of k assignments ago, as the layout keeps it.
Visible(k) == IF Flat(conf) THEN FlatLoad(k) ELSE PLoad(k)

Abs == INSTANCE HistoryAbs WITH hist <- [k \in 0..Depth |-> Visible(k)]

\* Whatever the layout, the variable behaves as the language promises: a store
\* pushes every visible value back by one place, and a load, by call or by the
\* short code for a constant index, delivers the value of k assignments ago.
ImplementsHistory == Abs!Spec
============================================================================
