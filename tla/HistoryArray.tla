---------------------------- MODULE HistoryArray ----------------------------
(***************************************************************************)
(* An array-wise history array  var int a<:Depth:>[Size]  local to a        *)
(* function: an assignment to any index saves a snapshot of the whole       *)
(* array.  The operations are those of rtlib/harray.c, reached through      *)
(* history_init_array, history_array_store and history_array_load.          *)
(*                                                                          *)
(* The words 0 .. Depth*Size - 1 are the cycle of snapshots, Size words     *)
(* each; .a_ptr points at the newest one and .a_cur is the present array.   *)
(* The O(n) algorithm copies the array into the oldest snapshot.  The O(d)  *)
(* algorithm brings the oldest snapshot up to date with the last Depth      *)
(* changes, which .a_clist keeps as (index, value) pairs, newest at         *)
(* .a_clist_ptr.  Pointers are offsets in words from addr and from clist.   *)
(***************************************************************************)
EXTENDS Histories, FiniteSets

CONSTANTS
  Size,    \* get_num_elements of the array type
  Val,     \* the values assigned
  Junk,    \* what a word of the stack holds before it is assigned
  Magic,   \* 999, the index that marks an unused entry of the change list
  Orders   \* may the option --history-aw-order-d be given, a set of BOOLEANs

Index == 0 .. Size - 1
Word  == Val \cup {Junk}

ASSUME DepthAssumption == Depth \in Nat \ {0}
ASSUME SizeAssumption == Size \in Nat \ {0}
ASSUME JunkAssumption == Junk \notin Val
\* An array of more than Magic elements has an index that looks unused.
ASSUME MagicAssumption == Magic \in Nat \ Index
ASSUME OrdersAssumption == Orders \subseteq BOOLEAN

VARIABLES
  order_d,    \* CFLAG_HISTORY_AW_ORDER_D; no step changes it
  mem,        \* the snapshots
  ptr,        \* .a_ptr
  cur,        \* .a_cur
  clist,      \* .a_clist
  clist_ptr,  \* .a_clist_ptr
  result,     \* what the last load delivered
  hist,       \* the arrays the source asks for: hist[k], k assignments ago
  repeated    \* did an index get two values within Depth assignments

rtvars == <<mem, ptr, cur, clist, clist_ptr>>
vars == <<order_d, rtvars, result, hist, repeated>>

Addr == 0 .. Depth * Size - 1

\* __hist_daw_init__ marks every entry of the change list unused.
UnusedClist == [c \in 0 .. 2 * Depth - 1 |-> IF c % 2 = 0 THEN Magic ELSE Junk]

\* history_init_array: the pointers are set, the arrays stay as the stack is.
Init ==
  /\ order_d \in Orders
  /\ mem = [a \in Addr |-> Junk]
  /\ ptr = 0
  /\ cur = [i \in Index |-> Junk]
  /\ clist = UnusedClist
  /\ clist_ptr = 0
  /\ result = Junk
  /\ hist = [k \in 0..Depth |-> cur]
  /\ repeated = FALSE

----------------------------------------------------------------------------
(* The runtime library *)

\* Mistake: the wrap is to the end of the cycle.
StepBackPast(p) == IF p - Size < 0 THEN Depth * Size ELSE p - Size

\* Mistake: the newest snapshot is overwritten.
StepBackNone(p) == p

\* The oldest snapshot, which both stores overwrite
StepBack(p) == IF p - Size < 0 THEN (Depth - 1) * Size ELSE p - Size

\* The loop of __hist_naw_store__
CopyCurrent(p) ==
  [a \in Addr |-> IF a \in p .. p + Size - 1 THEN cur[a - p] ELSE mem[a]]

\* The entry of the change list that the loop of __hist_daw_store__ visits in
\* round i: the pointer advances by two words and wraps at the end.
Entry(i) == (clist_ptr + 2 * i) % (2 * Depth)

\* Mistake: the loop stops one entry early.
ApplyTooFew(p) ==
  LET Hits(j) == {i \in 0 .. Depth - 2 : clist[Entry(i)] = j} IN
  [a \in Addr |->
     IF a \in p .. p + Size - 1 /\ Hits(a - p) # {}
       THEN clist[Entry(CHOOSE i \in Hits(a - p) :
                          \A o \in Hits(a - p) : o <= i) + 1]
       ELSE mem[a]]

\* The loop applies the changes in turn, the newest first, so that of several
\* changes to one index the one applied last, the oldest, remains.
ApplyChanges(p) ==
  LET Hits(j) == {i \in 0 .. Depth - 1 : clist[Entry(i)] = j} IN
  [a \in Addr |->
     IF a \in p .. p + Size - 1 /\ Hits(a - p) # {}
       THEN clist[Entry(CHOOSE i \in Hits(a - p) :
                          \A o \in Hits(a - p) : o <= i) + 1]
       ELSE mem[a]]

\* Depth rounds bring the pointer back to where it was; it then steps back.
ClistStepBack ==
  IF clist_ptr - 2 < 0 THEN 2 * Depth - 2 ELSE clist_ptr - 2

\* __hist_naw_store__
NawStore(index, value) ==
  /\ ptr' = StepBack(ptr)
  /\ mem' = CopyCurrent(ptr')
  /\ cur' = [cur EXCEPT ![index] = value]
  /\ UNCHANGED <<clist, clist_ptr>>

\* __hist_daw_store__
DawStore(index, value) ==
  /\ ptr' = StepBack(ptr)
  /\ mem' = ApplyChanges(ptr')
  /\ clist_ptr' = ClistStepBack
  /\ clist' = [clist EXCEPT ![clist_ptr'] = index, ![clist_ptr' + 1] = value]
  /\ cur' = [cur EXCEPT ![index] = value]

\* __hist_aw_load__: the base address of the snapshot of k assignments ago
SnapshotBase(k) ==
  LET p == ptr + (k - 1) * Size
  IN  IF p >= Size * Depth THEN p - Size * Depth ELSE p

AwLoad(k) == IF k = 0 THEN cur ELSE [i \in Index |-> mem[SnapshotBase(k) + i]]

----------------------------------------------------------------------------
(* The code history_array_store and history_array_load emit.  The load      *)
(* returns a base address, which the emitted code then indexes.             *)

\* Did two of the last Depth changes give one index different values?
Repeats(list) ==
  \E c, d \in {2 * i : i \in 0 .. Depth - 1} :
    list[c] # Magic /\ list[c] = list[d] /\ list[c + 1] # list[d + 1]

Store(index, value) ==
  /\ IF order_d THEN DawStore(index, value) ELSE NawStore(index, value)
  /\ hist' = Push(hist, [hist[0] EXCEPT ![index] = value])
  /\ repeated' = (repeated \/ Repeats(clist'))
  /\ UNCHANGED <<order_d, result>>

Load(index, k) ==
  /\ result' = AwLoad(k)[index]
  /\ UNCHANGED <<order_d, rtvars, hist, repeated>>

Next ==
  \/ \E index \in Index, value \in Val : Store(index, value)
  \/ \E index \in Index, k \in 0..Depth : Load(index, k)

Spec == Init /\ [][Next]_vars

----------------------------------------------------------------------------
(* Properties *)

TypeOK ==
  /\ order_d \in Orders
  /\ mem \in [Addr -> Word]
  /\ ptr \in Addr
  /\ cur \in [Index -> Word]
  /\ \A i \in 0 .. Depth - 1 :
       clist[2 * i] \in Index \cup {Magic} /\ clist[2 * i + 1] \in Word
  /\ result \in Word
  /\ hist \in [0..Depth -> [Index -> Word]]
  /\ repeated \in BOOLEAN

\* Both pointers always point at the first word of a snapshot, or of an entry,
\* inside their own storage: the stores write Size words, or two, from there.
PtrsOnBoundary ==
  /\ ptr \in {j * Size : j \in 0 .. Depth - 1}
  /\ clist_ptr \in {j * 2 : j \in 0 .. Depth - 1}

\* With the O(n) algorithm every snapshot is the array as it was, whatever the
\* sequence of assignments.
NSnapshotsExact == ~order_d => \A k \in 0..Depth : AwLoad(k) = hist[k]

\* Every index that had been assigned reads back with the value of the time.
\* (What an index held before its first assignment is unspecified.)
SnapshotsAgree ==
  \A k \in 0..Depth, i \in Index :
    hist[k][i] # Junk => AwLoad(k)[i] = hist[k][i]

\* With the O(d) algorithm the same, as long as no index is given two different
\* values within Depth consecutive assignments.
DSnapshotsAgree == order_d /\ ~repeated => SnapshotsAgree
=============================================================================
