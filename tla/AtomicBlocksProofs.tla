------------------------- MODULE AtomicBlocksProofs -------------------------
(***************************************************************************)
(* Proofs about AtomicBlocks, for every depth, any variables and values    *)
(* and function bodies of any length.                                      *)
(*                                                                         *)
(* Every position of the code is inside of a number of atomic blocks that  *)
(* does not depend on the way the execution takes to it: the counter of    *)
(* the parser has it when the position is emitted, braces change it by     *)
(* one, and every jump goes to a position inside of as many as its own.    *)
(*                                                                         *)
(* In plain code, without a block in a block or a copy that a test in the  *)
(* block skips, the variables copied since the last brace are a function   *)
(* of the position too.  The list of the parser has them when the block    *)
(* ends, so the commits behind an exit are of just these variables, each   *)
(* once, and a run that stands before a commit lacks just that push.       *)
(***************************************************************************)
EXTENDS AtomicBlocks, IndexLemmas, SequenceTheorems, TLAPS

Construct == [kind : {"atomic"}] \cup [kind : {"if", "while"}, at : Nat]

Change(i) == IF i.op = "enter" THEN 1 ELSE IF i.op = "exit" THEN -1 ELSE 0

\* D gives the number of blocks around every position of the code c, the one
\* behind its end, where the counter is n, included.  The variables themselves
\* are stored to outside of all blocks only.
Marks(c, D, n) ==
  /\ c \in Seq(Instr) /\ D \in [Nat -> Nat] /\ n \in Nat
  /\ D[1] = 0 /\ D[Len(c) + 1] = n
  /\ \A i \in 1 .. Len(c) :
       /\ D[i + 1] = D[i] + Change(c[i])
       /\ c[i].op \in {"store", "commit"} => D[i] = 0

\* L gives the number of blocks around every construct that is being parsed: one
\* less outside of an atomic block, as many at the test of an if or a while.
Width(k) == IF k.kind = "atomic" THEN 1 ELSE 0

OpenAt(c, k, D, l) ==
  k.kind # "atomic" => k.at \in 1 .. Len(c) /\ c[k.at].op = "if" /\ D[k.at] = l

Levels(c, o, D, L, n) ==
  /\ o \in Seq(Construct) /\ L \in [Nat -> Nat] /\ L[1] = n
  /\ \A k \in 1 .. Len(o) :
       L[k] = L[k + 1] + Width(o[k]) /\ OpenAt(c, o[k], D, L[k])

\* Every jump stays on its level, but for the tests that are still to be patched.
Lands(c, D, i) == c[i].to \in 1 .. Len(c) + 1 /\ D[c[i].to] = D[i]

Waits(o, i) == \E k \in 1 .. Len(o) : o[k].kind # "atomic" /\ o[k].at = i

Jumps(c, o, D) ==
  \A i \in 1 .. Len(c) : c[i].op \in {"if", "jump"} => Lands(c, D, i) \/ Waits(o, i)

Placed(c, o, n, D, L) == Marks(c, D, n) /\ Levels(c, o, D, L, n) /\ Jumps(c, o, D)

USE DepthAssumption, NoneAssumption

----------------------------------------------------------------------------
(* Instructions *)

LEMMA InstrFields ==
  ASSUME NEW i \in Instr
  PROVE  /\ i.op \in {"store", "copy"} => i.x \in Vars /\ i.v \in Val
         /\ i.op \in {"commit", "recopy"} => i.x \in Vars
         /\ i.op \in {"if", "jump"} => i.to \in Nat
         /\ Change(i) \in {-1, 0, 1}
BY DEF Instr, Change

LEMMA Instrs ==
  /\ \A x \in Vars, v \in Val : /\ [op |-> "store", x |-> x, v |-> v] \in Instr
                                /\ [op |-> "copy", x |-> x, v |-> v] \in Instr
  /\ \A x \in Vars : /\ [op |-> "commit", x |-> x] \in Instr
                     /\ [op |-> "recopy", x |-> x] \in Instr
  /\ \A n \in Nat : /\ [op |-> "if", to |-> n] \in Instr
                    /\ [op |-> "jump", to |-> n] \in Instr
  /\ [op |-> "enter"] \in Instr /\ [op |-> "exit"] \in Instr
BY DEF Instr

\* What a variable shows after an assignment
LEMMA PushTyped ==
  ASSUME NEW h \in [0..Depth -> Val], NEW v \in Val
  PROVE  Push(h, v) \in [0..Depth -> Val]
BY DEF Push

----------------------------------------------------------------------------
(* Code grows *)

\* What is emitted at once: the first instruction may change the counter, and
\* what comes with it belongs to the new position.
Emitted(s, n, m) ==
  /\ s \in Seq(Instr) /\ s # <<>> /\ m \in Nat
  /\ m = n + Change(s[1])
  /\ s[1].op \in {"store", "commit"} => n = 0
  /\ \A i \in 2 .. Len(s) : /\ Change(s[i]) = 0
                            /\ s[i].op \in {"store", "commit"} => m = 0
                            /\ s[i].op \notin {"if", "jump"}

Extended(c, D, m) == [i \in Nat |-> IF i <= Len(c) + 1 THEN D[i] ELSE m]

LEMMA GrowMarks ==
  ASSUME NEW c, NEW D, NEW n, Marks(c, D, n), NEW s, NEW m, Emitted(s, n, m)
  PROVE  Marks(c \o s, Extended(c, D, m), m)
<1> DEFINE E == Extended(c, D, m)
<1>1. /\ c \o s \in Seq(Instr) /\ Len(c \o s) = Len(c) + Len(s)
      /\ Len(c) \in Nat /\ Len(s) \in Nat \ {0}
      /\ \A i \in 1 .. Len(c) + Len(s) :
           (c \o s)[i] = IF i <= Len(c) THEN c[i] ELSE s[i - Len(c)]
  BY ConcatProperties, LenProperties, EmptySeq DEF Marks, Emitted
<1>0. /\ D \in [Nat -> Nat] /\ D[1] = 0 /\ D[Len(c) + 1] = n
      /\ n \in Nat /\ m \in Nat
  BY DEF Marks, Emitted
<1>2. E \in [Nat -> Nat]
  BY <1>0 DEF Extended
<1>3. E[1] = 0 /\ E[Len(c) + Len(s) + 1] = m
  <2>1. E[1] = D[1]
    BY <1>1 DEF Extended
  <2>2. E[Len(c) + Len(s) + 1] = m
    BY <1>1 DEF Extended
  <2> QED BY <1>0, <2>1, <2>2
<1>4. ASSUME NEW i \in 1 .. Len(c) + Len(s)
      PROVE  /\ E[i + 1] = E[i] + Change((c \o s)[i])
             /\ (c \o s)[i].op \in {"store", "commit"} => E[i] = 0
  <2>1. CASE i <= Len(c)
    <3>1. E[i + 1] = D[i + 1] /\ E[i] = D[i] /\ i \in 1 .. Len(c)
      BY <1>1, <2>1 DEF Extended
    <3> QED BY <1>1, <2>1, <3>1 DEF Marks
  <2>2. CASE i = Len(c) + 1
    <3>1. E[i + 1] = m
      BY <1>1, <2>2 DEF Extended
    <3>2. E[i] = n
      BY <1>0, <1>1, <2>2 DEF Extended
    <3>3. (c \o s)[i] = s[1]
      <4>1. i - Len(c) = 1 /\ ~(i <= Len(c))
        BY <1>1, <2>2
      <4> QED BY <1>1, <4>1
    <3> QED BY <3>1, <3>2, <3>3 DEF Emitted
  <2>3. CASE i > Len(c) + 1
    <3>1. E[i + 1] = m /\ E[i] = m /\ i - Len(c) \in 2 .. Len(s)
          /\ (c \o s)[i] = s[i - Len(c)] /\ m \in Nat
      BY <1>1, <2>3 DEF Extended, Emitted
    <3> QED BY <3>1 DEF Emitted
  <2> QED BY <1>1, <2>1, <2>2, <2>3
<1> QED BY <1>1, <1>2, <1>3, <1>4 DEF Marks, Emitted

\* The constructs that are open stay where they are.
LEMMA GrowLevels ==
  ASSUME NEW c, NEW D, NEW n, Marks(c, D, n), NEW s, NEW m, Emitted(s, n, m),
         NEW k \in Construct, NEW l, OpenAt(c, k, D, l)
  PROVE  OpenAt(c \o s, k, Extended(c, D, m), l)
<1>1. /\ Len(c \o s) = Len(c) + Len(s)
      /\ Len(c) \in Nat /\ Len(s) \in Nat \ {0}
      /\ \A i \in 1 .. Len(c) + Len(s) :
           (c \o s)[i] = IF i <= Len(c) THEN c[i] ELSE s[i - Len(c)]
  BY ConcatProperties, LenProperties, EmptySeq DEF Marks, Emitted
<1> QED BY <1>1 DEF OpenAt, Extended

\* Jumps that were patched stay so; only the first instruction that is emitted
\* can be a new one.
LEMMA GrowJumps ==
  ASSUME NEW c, NEW D, NEW n, Marks(c, D, n), NEW s, NEW m, Emitted(s, n, m),
         NEW o, NEW p, Jumps(c, o, D),
         \A i \in 1 .. Len(c) : Waits(o, i) => Waits(p, i),
         s[1].op \in {"if", "jump"} =>
            \/ s[1].to \in 1 .. Len(c) /\ D[s[1].to] = n
            \/ Waits(p, Len(c) + 1)
  PROVE  Jumps(c \o s, p, Extended(c, D, m))
<1> DEFINE E == Extended(c, D, m)
<1>1. /\ Len(c \o s) = Len(c) + Len(s)
      /\ Len(c) \in Nat /\ Len(s) \in Nat \ {0}
      /\ \A i \in 1 .. Len(c) + Len(s) :
           (c \o s)[i] = IF i <= Len(c) THEN c[i] ELSE s[i - Len(c)]
  BY ConcatProperties, LenProperties, EmptySeq DEF Marks, Emitted
<1>2. \A i \in 1 .. Len(c) + 1 : E[i] = D[i]
  BY <1>1 DEF Extended
<1> SUFFICES ASSUME NEW i \in 1 .. Len(c) + Len(s),
                    (c \o s)[i].op \in {"if", "jump"}
             PROVE  Lands(c \o s, E, i) \/ Waits(p, i)
  BY <1>1 DEF Jumps
<1> HIDE DEF E
<1>3. CASE i <= Len(c)
  <2>1. i \in 1 .. Len(c) /\ (c \o s)[i] = c[i]
    BY <1>1, <1>3
  <2>2. CASE Lands(c, D, i)
    BY <1>1, <1>2, <2>1, <2>2 DEF Lands
  <2>3. CASE Waits(o, i)
    BY <2>1, <2>3
  <2> QED BY <2>1, <2>2, <2>3 DEF Jumps
<1>4. CASE i = Len(c) + 1
  <2>1. (c \o s)[i] = s[1] /\ E[i] = n
    <3>1. i - Len(c) = 1 /\ ~(i <= Len(c)) /\ (c \o s)[i] = s[i - Len(c)]
      BY <1>1, <1>4
    <3>2. D[Len(c) + 1] = n
      BY DEF Marks
    <3> QED BY <1>1, <1>2, <1>4, <3>1, <3>2
  <2>2. ASSUME s[1].to \in 1 .. Len(c), D[s[1].to] = n PROVE Lands(c \o s, E, i)
    BY <1>1, <1>2, <2>1, <2>2 DEF Lands
  <2> QED BY <1>4, <2>1, <2>2
<1>5. CASE i > Len(c) + 1
  <2>1. (c \o s)[i] = s[i - Len(c)] /\ i - Len(c) \in 2 .. Len(s)
    BY <1>1, <1>5
  <2> QED BY <2>1 DEF Emitted
<1> QED BY <1>1, <1>3, <1>4, <1>5

----------------------------------------------------------------------------
(* The stack of constructs *)

\* A construct is opened: o is what is open, k what comes around the next code.
LEMMA PushConstruct ==
  ASSUME NEW o \in Seq(Construct), NEW k \in Construct
  PROVE  /\ <<k>> \o o \in Seq(Construct) /\ Len(<<k>> \o o) = Len(o) + 1
         /\ (<<k>> \o o)[1] = k
         /\ \A i \in 2 .. Len(o) + 1 : (<<k>> \o o)[i] = o[i - 1]
         /\ \A i \in Nat : Waits(o, i) => Waits(<<k>> \o o, i)
         /\ k.kind # "atomic" => Waits(<<k>> \o o, k.at)
<1> DEFINE p == <<k>> \o o
<1>1. <<k>> \in Seq(Construct) /\ Len(<<k>>) = 1 /\ <<k>>[1] = k
  OBVIOUS
<1>2. /\ p \in Seq(Construct) /\ Len(p) = Len(o) + 1 /\ Len(o) \in Nat
      /\ \A i \in 1 .. Len(o) + 1 : p[i] = IF i <= 1 THEN <<k>>[i] ELSE o[i - 1]
  BY <1>1, ConcatProperties, LenProperties
<1>3. p[1] = k /\ \A i \in 2 .. Len(o) + 1 : p[i] = o[i - 1]
  BY <1>1, <1>2
<1> HIDE DEF p
<1>4. ASSUME NEW i \in Nat, Waits(o, i) PROVE Waits(p, i)
  <2>1. PICK j \in 1 .. Len(o) : o[j].kind # "atomic" /\ o[j].at = i
    BY <1>4 DEF Waits
  <2>2. j + 1 \in 1 .. Len(p) /\ p[j + 1] = o[j]
    BY <1>2, <1>3
  <2> QED BY <2>1, <2>2 DEF Waits
<1>5. k.kind # "atomic" => Waits(p, k.at)
  BY <1>2, <1>3 DEF Waits
<1> QED BY <1>2, <1>3, <1>4, <1>5 DEF p

\* A construct is closed.
LEMMA PopConstruct ==
  ASSUME NEW o \in Seq(Construct), o # <<>>
  PROVE  /\ Tail(o) \in Seq(Construct) /\ Len(Tail(o)) = Len(o) - 1
         /\ Len(o) \in Nat \ {0} /\ Head(o) = o[1] /\ o[1] \in Construct
         /\ \A i \in 1 .. Len(o) - 1 : Tail(o)[i] = o[i + 1]
         /\ \A i \in Nat : /\ Waits(o, i)
                           /\ o[1].kind # "atomic" => o[1].at # i
                           => Waits(Tail(o), i)
<1>1. /\ Tail(o) \in Seq(Construct) /\ Len(Tail(o)) = Len(o) - 1
      /\ Len(o) \in Nat \ {0} /\ Head(o) = o[1] /\ o[1] \in Construct
      /\ \A i \in 1 .. Len(o) - 1 : Tail(o)[i] = o[i + 1]
  BY HeadTailProperties, EmptySeq, LenProperties
<1>2. ASSUME NEW i \in Nat, Waits(o, i), o[1].kind # "atomic" => o[1].at # i
      PROVE  Waits(Tail(o), i)
  <2>1. PICK j \in 1 .. Len(o) : o[j].kind # "atomic" /\ o[j].at = i
    BY <1>2 DEF Waits
  <2>2. j # 1
    BY <1>2, <2>1
  <2>3. j - 1 \in 1 .. Len(Tail(o)) /\ Tail(o)[j - 1] = o[j]
    BY <1>1, <2>1, <2>2
  <2> QED BY <2>1, <2>3 DEF Waits
<1> QED BY <1>1, <1>2

\* The test of an if or a while is patched.
Patched(c, a, t) == [c EXCEPT ![a].to = t]

LEMMA PatchedCode ==
  ASSUME NEW c \in Seq(Instr), NEW a \in 1 .. Len(c), c[a].op = "if", NEW t \in Nat
  PROVE  /\ Patched(c, a, t) \in Seq(Instr) /\ Len(Patched(c, a, t)) = Len(c)
         /\ Len(c) \in Nat
         /\ Patched(c, a, t)[a] = [op |-> "if", to |-> t]
         /\ \A i \in 1 .. Len(c) : i # a => Patched(c, a, t)[i] = c[i]
         /\ \A i \in 1 .. Len(c) : /\ Patched(c, a, t)[i].op = c[i].op
                                   /\ Change(Patched(c, a, t)[i]) = Change(c[i])
<1> DEFINE j == [op |-> "if", to |-> t]
<1>1. c[a] \in Instr /\ c \in [1 .. Len(c) -> Instr] /\ Len(c) \in Nat
  BY ElementOfSeq, LenProperties
<1>2. c[a] \in [op : {"if", "jump"}, to : Nat]
  BY <1>1 DEF Instr
<1>3. [c[a] EXCEPT !.to = t] = j /\ j \in Instr
  <2>1. c[a] = [op |-> "if", to |-> c[a].to]
    BY <1>2
  <2>2. j \in Instr
    BY Instrs
  <2> QED BY <2>1, <2>2
<1>4. Patched(c, a, t) = [c EXCEPT ![a] = j]
  BY <1>1, <1>3 DEF Patched
<1>5. /\ Patched(c, a, t) \in Seq(Instr) /\ Len(Patched(c, a, t)) = Len(c)
      /\ \A i \in 1 .. Len(c) : Patched(c, a, t)[i] = IF i = a THEN j ELSE c[i]
  BY <1>3, <1>4, ExceptSeq
<1>6. Patched(c, a, t)[a] = j /\ \A i \in 1 .. Len(c) : i # a => Patched(c, a, t)[i] = c[i]
  BY <1>5
<1>7. j.op = "if" /\ Change(j) = 0 /\ Change(c[a]) = 0
  BY DEF Change
<1> QED BY <1>1, <1>5, <1>6, <1>7

\* That changes no level.
TestInner(o) == o # <<>> /\ o[1].kind # "atomic"

TestAt(c, D, n, a, t) == a \in 1 .. Len(c) /\ D[a] = n /\ c[a].to = t

LEMMA PatchKeeps ==
  ASSUME NEW c, NEW o, NEW n, NEW D, NEW L, Placed(c, o, n, D, L), TestInner(o),
         NEW t \in Nat
  PROVE  /\ Placed(Patched(c, o[1].at, t), o, n, D, L)
         /\ TestAt(Patched(c, o[1].at, t), D, n, o[1].at, t)
         /\ Len(Patched(c, o[1].at, t)) = Len(c)
<1> DEFINE a == o[1].at
           p == Patched(c, a, t)
<1>0. /\ o # <<>> /\ o[1].kind # "atomic"
      /\ Marks(c, D, n) /\ Levels(c, o, D, L, n) /\ Jumps(c, o, D)
  BY DEF TestInner, Placed
<1>1. o \in Seq(Construct) /\ 1 \in 1 .. Len(o) /\ L[1] = n
  BY <1>0, EmptySeq DEF Levels
<1>2. a \in 1 .. Len(c) /\ c[a].op = "if" /\ D[a] = n
  BY <1>0, <1>1 DEF Levels, OpenAt
<1>3. /\ p \in Seq(Instr) /\ Len(p) = Len(c) /\ Len(c) \in Nat
      /\ p[a] = [op |-> "if", to |-> t]
      /\ \A i \in 1 .. Len(c) : i # a => p[i] = c[i]
      /\ \A i \in 1 .. Len(c) : p[i].op = c[i].op /\ Change(p[i]) = Change(c[i])
  <2>1. c \in Seq(Instr)
    BY <1>0 DEF Marks
  <2> HIDE DEF a
  <2> QED BY <1>2, <2>1, PatchedCode
<1>4. Waits(o, a)
  BY <1>0, <1>1 DEF Waits
<1> HIDE DEF p
<1>5. Marks(p, D, n)
  BY <1>0, <1>3 DEF Marks
<1>6. Levels(p, o, D, L, n)
  BY <1>0, <1>3 DEF Levels, OpenAt
<1>7. ASSUME NEW i \in 1 .. Len(c), p[i].op \in {"if", "jump"}
      PROVE  Lands(p, D, i) \/ Waits(o, i)
  <2>1. CASE i = a
    BY <1>4, <2>1
  <2>2. CASE i # a
    <3>1. p[i] = c[i]
      BY <1>3, <2>2
    <3> QED BY <1>0, <1>3, <1>7, <3>1 DEF Jumps, Lands
  <2> QED BY <2>1, <2>2
<1>8. p[a].to = t
  BY <1>3
<1>9. Jumps(p, o, D)
  BY <1>3, <1>7 DEF Jumps
<1>10. TestAt(p, D, n, a, t)
  BY <1>2, <1>3, <1>8 DEF TestAt
<1> QED BY <1>3, <1>5, <1>6, <1>9, <1>10 DEF p, Placed

\* A construct can be closed once its test is patched.
LEMMA PopJumps ==
  ASSUME NEW c \in Seq(Instr), NEW D, NEW o \in Seq(Construct), Jumps(c, o, D),
         o # <<>>, o[1].kind # "atomic" => Lands(c, D, o[1].at)
  PROVE  Jumps(c, Tail(o), D)
<1> SUFFICES ASSUME NEW i \in 1 .. Len(c), c[i].op \in {"if", "jump"}
             PROVE  Lands(c, D, i) \/ Waits(Tail(o), i)
  BY DEF Jumps
<1>1. i \in Nat
  BY LenProperties
<1>2. CASE o[1].kind # "atomic" /\ o[1].at = i
  BY <1>2
<1>3. CASE ~(o[1].kind # "atomic" /\ o[1].at = i)
  <2>1. Waits(o, i) => Waits(Tail(o), i)
    BY <1>1, <1>3, PopConstruct
  <2> QED BY <2>1 DEF Jumps
<1> QED BY <1>2, <1>3

Popped(L) == [i \in Nat |-> L[i + 1]]

LEMMA PopLevels ==
  ASSUME NEW c, NEW D, NEW n, NEW o, NEW L, Levels(c, o, D, L, n), o # <<>>
  PROVE  /\ Levels(c, Tail(o), D, Popped(L), L[2])
         /\ n = L[2] + Width(o[1]) /\ L[2] \in Nat /\ Popped(L) \in [Nat -> Nat]
<1>1. /\ Tail(o) \in Seq(Construct) /\ Len(Tail(o)) = Len(o) - 1
      /\ Len(o) \in Nat \ {0} /\ o[1] \in Construct
      /\ \A i \in 1 .. Len(o) - 1 : Tail(o)[i] = o[i + 1]
  BY PopConstruct DEF Levels
<1>2. Popped(L) \in [Nat -> Nat] /\ Popped(L)[1] = L[2] /\ L[2] \in Nat
  <2>1. L \in [Nat -> Nat]
    BY DEF Levels
  <2> QED BY <2>1 DEF Popped
<1>3. ASSUME NEW k \in 1 .. Len(Tail(o))
      PROVE  /\ Popped(L)[k] = Popped(L)[k + 1] + Width(Tail(o)[k])
             /\ OpenAt(c, Tail(o)[k], D, Popped(L)[k])
  <2>1. k + 1 \in 1 .. Len(o) /\ k \in Nat /\ Tail(o)[k] = o[k + 1]
    BY <1>1
  <2>2. Popped(L)[k] = L[k + 1] /\ Popped(L)[k + 1] = L[(k + 1) + 1]
    BY <2>1 DEF Popped
  <2>3. /\ L[k + 1] = L[(k + 1) + 1] + Width(o[k + 1])
        /\ OpenAt(c, o[k + 1], D, L[k + 1])
    BY <2>1 DEF Levels
  <2> QED BY <2>1, <2>2, <2>3
<1>4. n = L[2] + Width(o[1])
  BY <1>1 DEF Levels
<1> QED BY <1>1, <1>2, <1>3, <1>4 DEF Levels

Pushed(L, m) == [i \in Nat |-> IF i <= 1 THEN m ELSE L[i - 1]]

LEMMA PushLevels ==
  ASSUME NEW c, NEW D, NEW n, NEW o, NEW L, Levels(c, o, D, L, n),
         NEW k \in Construct, NEW m \in Nat, m = n + Width(k), OpenAt(c, k, D, m)
  PROVE  Levels(c, <<k>> \o o, D, Pushed(L, m), m)
<1> DEFINE p == <<k>> \o o
           P == Pushed(L, m)
<1>1. /\ p \in Seq(Construct) /\ Len(p) = Len(o) + 1 /\ p[1] = k
      /\ \A i \in 2 .. Len(o) + 1 : p[i] = o[i - 1]
  BY PushConstruct DEF Levels
<1>2. Len(o) \in Nat
  BY LenProperties DEF Levels
<1>3. P \in [Nat -> Nat] /\ P[1] = m /\ P[2] = n
  <2>1. L \in [Nat -> Nat] /\ L[1] = n
    BY DEF Levels
  <2> QED BY <2>1 DEF Pushed
<1> HIDE DEF p, P
<1>4. ASSUME NEW i \in 1 .. Len(p)
      PROVE  P[i] = P[i + 1] + Width(p[i]) /\ OpenAt(c, p[i], D, P[i])
  <2>1. CASE i = 1
    <3>1. p[i] = k /\ P[i] = m /\ P[i + 1] = n
      BY <1>1, <1>3, <2>1
    <3> QED BY <3>1
  <2>2. CASE i # 1
    <3>1. i - 1 \in 1 .. Len(o) /\ p[i] = o[i - 1] /\ i \in Nat
      BY <1>1, <1>2, <2>2
    <3>2. P[i] = L[i - 1] /\ P[i + 1] = L[(i - 1) + 1]
      BY <1>2, <2>2, <3>1 DEF P, Pushed
    <3>3. /\ L[i - 1] = L[(i - 1) + 1] + Width(o[i - 1])
          /\ OpenAt(c, o[i - 1], D, L[i - 1])
      BY <3>1 DEF Levels
    <3> QED BY <3>1, <3>2, <3>3
  <2> QED BY <2>1, <2>2
<1> QED BY <1>1, <1>3, <1>4 DEF Levels, p, P

\* Code is emitted: the levels of what is open stay; the counter gets its new
\* value with the construct that is opened or closed.
LEMMA EmitLevels ==
  ASSUME NEW c, NEW D, NEW n, Marks(c, D, n), NEW s, NEW m, Emitted(s, n, m),
         NEW o, NEW L, NEW l, Levels(c, o, D, L, l)
  PROVE  Levels(c \o s, o, Extended(c, D, m), L, l)
<1>1. ASSUME NEW k \in 1 .. Len(o) PROVE OpenAt(c \o s, o[k], Extended(c, D, m), L[k])
  <2>1. o[k] \in Construct
    BY ElementOfSeq DEF Levels
  <2>2. OpenAt(c, o[k], D, L[k])
    BY DEF Levels
  <2> QED BY <2>1, <2>2, GrowLevels
<1> QED BY <1>1 DEF Levels

----------------------------------------------------------------------------
(* Compile time *)

Agree(c, D, E) == \A i \in 1 .. Len(c) + 1 : E[i] = D[i]

\* What a step of the parser keeps: the levels of the code c that is there, and
\* a placement of the code d it leaves.
Grows(c, D, d, o, n) ==
  /\ d \in Seq(Instr) /\ Len(c) <= Len(d)
  /\ \E E, M \in [Nat -> Nat] :
       Placed(d, o, n, E, M) /\ Agree(c, D, E)

LEMMA PlacedFacts ==
  ASSUME NEW c, NEW o, NEW n, NEW D, NEW L, Placed(c, o, n, D, L)
  PROVE  /\ Marks(c, D, n) /\ Jumps(c, o, D) /\ Levels(c, o, D, L, n)
         /\ n \in Nat /\ c \in Seq(Instr) /\ Len(c) \in Nat /\ D \in [Nat -> Nat]
         /\ o \in Seq(Construct) /\ L \in [Nat -> Nat]
<1>1. Marks(c, D, n) /\ Jumps(c, o, D) /\ Levels(c, o, D, L, n)
  BY DEF Placed
<1>2. n \in Nat /\ c \in Seq(Instr) /\ Len(c) \in Nat /\ D \in [Nat -> Nat]
  BY <1>1, LenProperties DEF Marks
<1>3. o \in Seq(Construct) /\ L \in [Nat -> Nat]
  BY <1>1 DEF Levels
<1> QED BY <1>1, <1>2, <1>3

LEMMA Appended ==
  ASSUME NEW c \in Seq(Instr), NEW s \in Seq(Instr)
  PROVE  /\ c \o s \in Seq(Instr) /\ Len(c \o s) = Len(c) + Len(s)
         /\ Len(c) \in Nat /\ Len(c) <= Len(c \o s)
         /\ \A i \in 1 .. Len(s) : (c \o s)[Len(c) + i] = s[i]
<1>1. /\ c \o s \in Seq(Instr) /\ Len(c \o s) = Len(c) + Len(s)
      /\ Len(c) \in Nat /\ Len(s) \in Nat
      /\ \A i \in 1 .. Len(c) + Len(s) :
           (c \o s)[i] = IF i <= Len(c) THEN c[i] ELSE s[i - Len(c)]
  BY ConcatProperties, LenProperties
<1>2. \A i \in 1 .. Len(s) : (c \o s)[Len(c) + i] = s[i]
  BY <1>1
<1> QED BY <1>1, <1>2

LEMMA ExtendedKeeps ==
  ASSUME NEW c \in Seq(Instr), NEW D \in [Nat -> Nat], NEW m \in Nat
  PROVE  /\ Extended(c, D, m) \in [Nat -> Nat]
         /\ Agree(c, D, Extended(c, D, m))
<1>1. Len(c) \in Nat
  BY LenProperties
<1>2. \A i \in 1 .. Len(c) + 1 : Extended(c, D, m)[i] = D[i]
  BY <1>1 DEF Extended
<1> QED BY <1>1, <1>2 DEF Extended, Agree

\* One instruction
LEMMA EmittedOne ==
  ASSUME NEW i \in Instr, NEW n \in Nat, NEW m \in Nat, m = n + Change(i),
         i.op \in {"store", "commit"} => n = 0
  PROVE  Emitted(<<i>>, n, m) /\ <<i>>[1] = i /\ Len(<<i>>) = 1
BY DEF Emitted

\* Code is emitted, without a new construct, and one that is atomic or none is
\* closed.
LEMMA EmitGrows ==
  ASSUME NEW c, NEW D, NEW n, Marks(c, D, n), NEW s, NEW m, Emitted(s, n, m),
         NEW o, NEW L \in [Nat -> Nat], Levels(c, o, D, L, m), NEW q, Jumps(c, q, D),
         \A i \in 1 .. Len(c) : Waits(q, i) => Waits(o, i),
         s[1].op \notin {"if", "jump"}
  PROVE  Grows(c, D, c \o s, o, m)
<1> DEFINE E == Extended(c, D, m)
<1>1. Marks(c \o s, E, m)
  BY GrowMarks
<1>2. Levels(c \o s, o, E, L, m)
  BY EmitLevels
<1>3. Jumps(c \o s, o, E)
  BY GrowJumps
<1>4. c \in Seq(Instr) /\ s \in Seq(Instr) /\ D \in [Nat -> Nat] /\ m \in Nat
  BY DEF Marks, Emitted
<1>5. c \o s \in Seq(Instr) /\ Len(c) <= Len(c \o s)
  BY <1>4, Appended
<1>6. E \in [Nat -> Nat] /\ Agree(c, D, E)
  BY <1>4, ExtendedKeeps
<1> HIDE DEF E
<1>7. Placed(c \o s, o, m, E, L)
  BY <1>1, <1>2, <1>3 DEF Placed
<1> QED BY <1>5, <1>6, <1>7 DEF Grows

\* The instruction i is emitted for the construct k that it opens.
Opens(c, i, k, n, m) ==
  /\ i \in Instr /\ i.op \notin {"store", "commit", "jump"} /\ k \in Construct
  /\ m \in Nat /\ m = n + Width(k) /\ m = n + Change(i)
  /\ i.op = "if" <=> k.kind # "atomic"
  /\ i.op = "if" => k.at = Len(c) + 1

LEMMA OpenGrows ==
  ASSUME NEW c, NEW o, NEW n, NEW D, NEW L, Placed(c, o, n, D, L),
         NEW i, NEW k, NEW m, Opens(c, i, k, n, m)
  PROVE  Grows(c, D, c \o <<i>>, <<k>> \o o, m)
<1> DEFINE s == <<i>>
           p == <<k>> \o o
           E == Extended(c, D, m)
           M == Pushed(L, m)
<1>1. Marks(c, D, n) /\ Jumps(c, o, D) /\ Levels(c, o, D, L, n)
  BY PlacedFacts
<1>2. n \in Nat /\ Len(c) \in Nat
  BY PlacedFacts
<1>3. o \in Seq(Construct)
  BY PlacedFacts
<1>4. m \in Nat /\ m = n + Width(k) /\ k \in Construct
  BY DEF Opens
<1>5. M \in [Nat -> Nat]
  <2>1. L \in [Nat -> Nat]
    BY PlacedFacts
  <2> QED BY <1>4, <2>1 DEF Pushed
<1>6. Emitted(s, n, m) /\ s[1] = i /\ Len(s) = 1
  BY <1>2, EmittedOne DEF Opens
<1>7. \A j \in Nat : Waits(o, j) => Waits(p, j)
  BY <1>3, <1>4, PushConstruct
<1>8. k.kind # "atomic" => Waits(p, k.at)
  BY <1>3, <1>4, PushConstruct
<1> HIDE DEF s, p, M
<1>9. Marks(c \o s, E, m)
  BY <1>1, <1>6, GrowMarks
<1>10. /\ c \o s \in Seq(Instr) /\ Len(c \o s) = Len(c) + Len(s)
       /\ Len(c) <= Len(c \o s)
       /\ \A j \in 1 .. Len(s) : (c \o s)[Len(c) + j] = s[j]
  <2>1. c \in Seq(Instr) /\ s \in Seq(Instr)
    BY <1>1, <1>6 DEF Marks, Emitted
  <2> QED BY <2>1, Appended
<1>11. c \in Seq(Instr) /\ D \in [Nat -> Nat]
  BY <1>1 DEF Marks
<1>12. E \in [Nat -> Nat]
  BY <1>4, <1>11, ExtendedKeeps
<1>13. Agree(c, D, E)
  BY <1>4, <1>11, ExtendedKeeps
<1>14. Levels(c \o s, o, E, L, n)
  BY <1>1, <1>6, EmitLevels
<1> HIDE DEF E
<1>15. OpenAt(c \o s, k, E, m)
  <2>1. k.kind # "atomic" => k.at = Len(c) + 1 /\ i.op = "if" /\ m = n
    BY <1>2, <1>4 DEF Width, Opens
  <2>2. (c \o s)[Len(c) + 1] = i
    BY <1>6, <1>10
  <2>3. E[Len(c) + 1] = n
    <3>1. E[Len(c) + 1] = D[Len(c) + 1]
      BY <1>2, <1>13 DEF Agree
    <3> QED BY <1>1, <3>1 DEF Marks
  <2>4. Len(c) + 1 \in 1 .. Len(c \o s)
    BY <1>2, <1>6, <1>10
  <2> QED BY <2>1, <2>2, <2>3, <2>4 DEF OpenAt
<1>16. Levels(c \o s, p, E, M, m)
  BY <1>4, <1>14, <1>15, PushLevels DEF p, M
<1>17. Jumps(c \o s, p, E)
  <2>1. \A j \in 1 .. Len(c) : Waits(o, j) => Waits(p, j)
    BY <1>2, <1>7
  <2>2. s[1].op \in {"if", "jump"} => Waits(p, Len(c) + 1)
    BY <1>6, <1>8 DEF Opens
  <2> QED BY <1>1, <1>6, <2>1, <2>2, GrowJumps DEF E
<1>18. Placed(c \o s, p, m, E, M)
  BY <1>9, <1>16, <1>17 DEF Placed
<1> QED BY <1>5, <1>10, <1>12, <1>13, <1>18 DEF Grows, s, p

\* What an atomic block emits at its end
ExitCode(l, m) ==
  <<[op |-> "exit"]>> \o
  [i \in 1 .. Len(l) |-> [op |-> IF m > 0 THEN "recopy" ELSE "commit", x |-> l[i]]]

LEMMA ExitEmitted ==
  ASSUME NEW l \in Seq(Vars), NEW m \in Nat
  PROVE  Emitted(ExitCode(l, m), m + 1, m) /\ ExitCode(l, m)[1].op = "exit"
<1> DEFINE op == IF m > 0 THEN "recopy" ELSE "commit"
           e == <<[op |-> "exit"]>>
           t == [i \in 1 .. Len(l) |-> [op |-> op, x |-> l[i]]]
           s == e \o t
<1>1. e \in Seq(Instr) /\ Len(e) = 1 /\ e[1] = [op |-> "exit"]
  BY Instrs
<1>2. Len(l) \in Nat /\ \A i \in 1 .. Len(l) : l[i] \in Vars
  BY LenProperties, ElementOfSeq
<1>3. \A y \in Vars : [op |-> op, x |-> y] \in Instr
  BY Instrs
<1>4. t \in Seq(Instr) /\ Len(t) = Len(l)
  <2>1. \A i \in 1 .. Len(l) : [op |-> op, x |-> l[i]] \in Instr
    BY <1>2, <1>3
  <2> QED BY <1>2, <2>1
<1>5. \A i \in 1 .. Len(t) : t[i].op = op
  BY <1>4
<1> HIDE DEF e, t
<1>6. /\ s \in Seq(Instr) /\ Len(s) = 1 + Len(t)
      /\ \A i \in 1 .. 1 + Len(t) : s[i] = IF i <= 1 THEN e[i] ELSE t[i - 1]
  <2>1. /\ s \in Seq(Instr) /\ Len(s) = Len(e) + Len(t)
        /\ \A i \in 1 .. Len(e) + Len(t) :
             s[i] = IF i <= Len(e) THEN e[i] ELSE t[i - Len(e)]
    BY <1>1, <1>4, ConcatProperties, ZenonT(30)
  <2> HIDE DEF s
  <2> QED BY <1>1, <2>1
<1>7. s[1] = e[1] /\ \A i \in 2 .. Len(s) : s[i].op = op
  <2>1. Len(t) \in Nat
    BY <1>2, <1>4
  <2>2. s[1] = e[1]
    BY <1>6, <2>1
  <2>3. ASSUME NEW i \in 2 .. Len(s) PROVE s[i].op = op
    <3>1. i - 1 \in 1 .. Len(t) /\ s[i] = t[i - 1]
      BY <1>6, <2>1
    <3> QED BY <1>5, <3>1
  <2> QED BY <2>2, <2>3
<1>8. s # <<>>
  BY <1>2, <1>4, <1>6, EmptySeq
<1>9. Change(s[1]) = -1 /\ s[1].op = "exit"
  BY <1>1, <1>7 DEF Change
<1> HIDE DEF s
<1>10. \A i \in 2 .. Len(s) : Change(s[i]) = 0
  BY <1>7 DEF Change
<1>11. Emitted(s, m + 1, m)
  BY <1>6, <1>7, <1>8, <1>9, <1>10 DEF Emitted
<1> QED BY <1>9, <1>11 DEF s, e, t, ExitCode

\* What each step of the parser emits
LEMMA BecomesGrows ==
  ASSUME NEW c, NEW o, NEW n, NEW D, NEW L, Placed(c, o, n, D, L),
         NEW x \in Vars, NEW v \in Val
  PROVE  Grows(c, D,
               c \o <<[op |-> IF n > 0 THEN "copy" ELSE "store", x |-> x, v |-> v]>>, o, n)
<1> DEFINE i == [op |-> IF n > 0 THEN "copy" ELSE "store", x |-> x, v |-> v]
           s == <<i>>
<1>1. Marks(c, D, n) /\ Jumps(c, o, D) /\ Levels(c, o, D, L, n)
  BY PlacedFacts
<1>2. n \in Nat
  BY PlacedFacts
<1>3. i \in Instr /\ i.op \notin {"if", "jump"} /\ Change(i) = 0
      /\ (i.op \in {"store", "commit"} => n = 0)
  <2>1. i = IF n > 0 THEN [op |-> "copy", x |-> x, v |-> v]
                     ELSE [op |-> "store", x |-> x, v |-> v]
    OBVIOUS
  <2>2. i \in Instr
    BY <2>1, Instrs
  <2>3. i.op = IF n > 0 THEN "copy" ELSE "store"
    OBVIOUS
  <2> HIDE DEF i
  <2> QED BY <1>2, <2>2, <2>3 DEF Change
<1> HIDE DEF i
<1>4. Emitted(s, n, n) /\ s[1] = i
  BY <1>2, <1>3, EmittedOne
<1> HIDE DEF s
<1>5. s[1].op \notin {"if", "jump"}
  BY <1>3, <1>4
<1>6. L \in [Nat -> Nat]
  BY PlacedFacts
<1>7. Grows(c, D, c \o s, o, n)
  BY <1>1, <1>4, <1>5, <1>6, EmitGrows
<1> QED BY <1>7 DEF s, i

LEMMA AtomicGrows ==
  ASSUME NEW c, NEW o, NEW n, NEW D, NEW L, Placed(c, o, n, D, L)
  PROVE  Grows(c, D, c \o <<[op |-> "enter"]>>, <<[kind |-> "atomic"]>> \o o, n + 1)
<1> DEFINE i == [op |-> "enter"]
           k == [kind |-> "atomic"]
<1>1. n \in Nat
  BY PlacedFacts
<1>2. i \in Instr /\ i.op = "enter" /\ k \in Construct /\ k.kind = "atomic"
  BY Instrs DEF Construct
<1> HIDE DEF i, k
<1>3. Opens(c, i, k, n, n + 1)
  BY <1>1, <1>2 DEF Opens, Width, Change
<1>4. Grows(c, D, c \o <<i>>, <<k>> \o o, n + 1)
  BY <1>3, OpenGrows
<1> QED BY <1>4 DEF i, k

\* The test of an if or a while waits to be patched.
LEMMA TestGrows ==
  ASSUME NEW c, NEW o, NEW n, NEW D, NEW L, Placed(c, o, n, D, L),
         NEW kd \in {"if", "while"}
  PROVE  Grows(c, D, c \o <<[op |-> "if", to |-> 0]>>,
               <<[kind |-> kd, at |-> Len(c) + 1]>> \o o, n)
<1> DEFINE i == [op |-> "if", to |-> 0]
           k == [kind |-> kd, at |-> Len(c) + 1]
<1>1. n \in Nat /\ Len(c) \in Nat
  BY PlacedFacts
<1>2. i \in Instr /\ i.op = "if"
  BY Instrs
<1>3. k \in Construct
  BY <1>1 DEF Construct
<1>4. k.kind # "atomic" /\ k.at = Len(c) + 1
  OBVIOUS
<1> HIDE DEF i, k
<1>5. Opens(c, i, k, n, n)
  BY <1>1, <1>2, <1>3, <1>4 DEF Opens, Width, Change
<1>6. Grows(c, D, c \o <<i>>, <<k>> \o o, n)
  BY <1>5, OpenGrows
<1> QED BY <1>6 DEF i, k

\* The construct that ends
Inner(o, kd) == o # <<>> /\ o[1].kind = kd

LEMMA Ends ==
  ASSUME NEW c, NEW o, NEW n, NEW D, NEW L, Placed(c, o, n, D, L),
         NEW kd \in {"atomic", "if", "while"}, Inner(o, kd),
         NEW d, Levels(d, o, D, L, n)
  PROVE  /\ kd = "atomic" => n - 1 \in Nat /\ Levels(d, Tail(o), D, Popped(L), n - 1)
         /\ kd # "atomic" => Levels(d, Tail(o), D, Popped(L), n)
         /\ Popped(L) \in [Nat -> Nat]
<1>1. o # <<>>
  BY DEF Inner
<1>2. Levels(d, Tail(o), D, Popped(L), L[2]) /\ n = L[2] + Width(o[1]) /\ L[2] \in Nat
      /\ Popped(L) \in [Nat -> Nat]
  BY <1>1, PopLevels
<1>3. Width(o[1]) = IF kd = "atomic" THEN 1 ELSE 0
  BY DEF Inner, Width
<1> QED BY <1>2, <1>3

LEMMA AtomicEndGrows ==
  ASSUME NEW c, NEW o, NEW n, NEW D, NEW L, Placed(c, o, n, D, L),
         NEW l \in Seq(Vars), Inner(o, "atomic")
  PROVE  Grows(c, D, c \o ExitCode(l, n - 1), Tail(o), n - 1)
<1> DEFINE s == ExitCode(l, n - 1)
           q == Tail(o)
           m == n - 1
           M == Popped(L)
<1>1. Marks(c, D, n) /\ Jumps(c, o, D) /\ Levels(c, o, D, L, n)
  BY PlacedFacts
<1>2. n \in Nat /\ Len(c) \in Nat
  BY PlacedFacts
<1>3. o \in Seq(Construct)
  BY PlacedFacts
<1>4. Levels(c, q, D, M, m) /\ m \in Nat /\ M \in [Nat -> Nat]
  BY <1>1, Ends
<1>5. n = m + 1
  BY <1>2
<1> HIDE DEF q, M, m
<1>6. Emitted(s, n, m) /\ s[1].op = "exit"
  <2>1. Emitted(ExitCode(l, m), m + 1, m) /\ ExitCode(l, m)[1].op = "exit"
    BY <1>4, ExitEmitted
  <2> QED BY <1>5, <2>1 DEF m
<1> HIDE DEF s
<1>7. \A i \in 1 .. Len(c) : Waits(o, i) => Waits(q, i)
  <2>1. o # <<>> /\ o[1].kind = "atomic"
    BY DEF Inner
  <2>2. \A i \in Nat : Waits(o, i) => Waits(q, i)
    BY <1>3, <2>1, PopConstruct DEF q
  <2> QED BY <1>2, <2>2
<1>8. Grows(c, D, c \o s, q, m)
  <2>1. s[1].op \notin {"if", "jump"}
    BY <1>6
  <2> QED BY <1>1, <1>4, <1>6, <1>7, <2>1, EmitGrows
<1> QED BY <1>8 DEF s, q, m


LEMMA IfEndGrows ==
  ASSUME NEW c, NEW o, NEW n, NEW D, NEW L, Placed(c, o, n, D, L), Inner(o, "if")
  PROVE  Grows(c, D, Patched(c, o[1].at, Len(c) + 1), Tail(o), n)
<1> DEFINE a == o[1].at
           d == Patched(c, a, Len(c) + 1)
           M == Popped(L)
<1>1. n \in Nat /\ Len(c) \in Nat /\ o \in Seq(Construct)
  BY PlacedFacts
<1>2. Len(c) + 1 \in Nat
  BY <1>1
<1>3. Placed(d, o, n, D, L) /\ TestAt(d, D, n, a, Len(c) + 1) /\ Len(d) = Len(c)
  <2>1. TestInner(o)
    BY DEF Inner, TestInner
  <2> QED BY <1>2, <2>1, PatchKeeps
<1>4. o # <<>>
  BY DEF Inner
<1> HIDE DEF d, a
<1>5. Marks(d, D, n) /\ Jumps(d, o, D) /\ Levels(d, o, D, L, n) /\ d \in Seq(Instr)
  BY <1>3, PlacedFacts
<1>6. Levels(d, Tail(o), D, M, n) /\ M \in [Nat -> Nat]
  BY <1>5, Ends
<1> HIDE DEF M
<1>7. Lands(d, D, a)
  <2>1. D[Len(c) + 1] = n
    BY PlacedFacts DEF Marks
  <2> QED BY <1>1, <1>3, <2>1 DEF Lands, TestAt
<1>8. Jumps(d, Tail(o), D)
  BY <1>1, <1>4, <1>5, <1>7, PopJumps DEF a
<1>9. Placed(d, Tail(o), n, D, M)
  BY <1>5, <1>6, <1>8 DEF Placed
<1>10. D \in [Nat -> Nat] /\ Agree(c, D, D)
  BY PlacedFacts DEF Agree
<1>11. Len(c) <= Len(d)
  BY <1>1, <1>3
<1> QED BY <1>5, <1>6, <1>9, <1>10, <1>11 DEF Grows, d, a

\* The loop jumps back to its test.
LEMMA WhileEndGrows ==
  ASSUME NEW c, NEW o, NEW n, NEW D, NEW L, Placed(c, o, n, D, L), Inner(o, "while")
  PROVE  Grows(c, D, Patched(c, o[1].at, Len(c) + 2) \o <<[op |-> "jump", to |-> o[1].at]>>,
               Tail(o), n)
<1> DEFINE a == o[1].at
           i == [op |-> "jump", to |-> a]
           s == <<i>>
           d == Patched(c, a, Len(c) + 2)
           e == d \o s
           E == Extended(d, D, n)
           M == Popped(L)
<1>1. n \in Nat /\ Len(c) \in Nat /\ o \in Seq(Construct)
  BY PlacedFacts
<1>2. Len(c) + 2 \in Nat
  BY <1>1
<1>3. Placed(d, o, n, D, L) /\ TestAt(d, D, n, a, Len(c) + 2) /\ Len(d) = Len(c)
  <2>1. TestInner(o)
    BY DEF Inner, TestInner
  <2> QED BY <1>2, <2>1, PatchKeeps
<1>4. o # <<>>
  BY DEF Inner
<1> HIDE DEF d, a
<1>5. i \in Instr /\ i.op = "jump" /\ i.to = a
  <2>1. a \in Nat
    BY <1>1, <1>3 DEF TestAt
  <2> QED BY <2>1, Instrs
<1> HIDE DEF i
<1>6. /\ Marks(d, D, n) /\ Jumps(d, o, D) /\ Levels(d, o, D, L, n)
      /\ d \in Seq(Instr) /\ D \in [Nat -> Nat]
  BY <1>3, PlacedFacts
<1>7. Levels(d, Tail(o), D, M, n) /\ M \in [Nat -> Nat]
  BY <1>6, Ends
<1>8. Emitted(s, n, n) /\ s[1] = i /\ Len(s) = 1
  BY <1>1, <1>5, EmittedOne DEF Change
<1>9. s \in Seq(Instr)
  BY <1>5
<1> HIDE DEF M, s
<1>10. e \in Seq(Instr) /\ Len(e) = Len(d) + 1 /\ Len(d) <= Len(e)
  <2>1. e \in Seq(Instr) /\ Len(e) = Len(d) + Len(s)
    BY <1>6, <1>9, Appended
  <2> HIDE DEF e
  <2> QED BY <1>1, <1>3, <1>8, <2>1
<1>11. E \in [Nat -> Nat]
  BY <1>1, <1>6, ExtendedKeeps
<1>12. Agree(d, D, E)
  BY <1>1, <1>6, ExtendedKeeps
<1>13. Marks(e, E, n) /\ Levels(e, Tail(o), E, M, n)
  BY <1>6, <1>7, <1>8, GrowMarks, EmitLevels
<1>14. Jumps(e, o, E)
  <2>1. s[1].to \in 1 .. Len(d) /\ D[s[1].to] = n
    BY <1>3, <1>5, <1>8 DEF TestAt
  <2> QED BY <1>6, <1>8, <2>1, GrowJumps
<1>15. e[a] = d[a] /\ E[a] = D[a]
  <2>1. e[a] = d[a]
    <3>1. a \in 1 .. Len(d) + Len(s) /\ a <= Len(d)
      BY <1>1, <1>3, <1>8 DEF TestAt
    <3> QED BY <1>6, <1>9, <3>1, ConcatProperties
  <2>2. a \in 1 .. Len(d) + 1
    BY <1>1, <1>3 DEF TestAt
  <2> QED BY <2>1, <2>2, <1>12 DEF Agree
<1>16. E[Len(c) + 2] = n
  BY <1>3, <1>10, <1>13 DEF Marks
<1> HIDE DEF e, E
<1>17. Lands(e, E, a)
  BY <1>1, <1>3, <1>10, <1>15, <1>16 DEF Lands, TestAt
<1>18. Jumps(e, Tail(o), E)
  BY <1>1, <1>4, <1>10, <1>14, <1>17, PopJumps DEF a
<1>19. Placed(e, Tail(o), n, E, M)
  BY <1>13, <1>18 DEF Placed
<1>20. Agree(c, D, E) /\ Len(c) <= Len(e)
  BY <1>3, <1>10, <1>12 DEF Agree
<1> QED BY <1>7, <1>10, <1>11, <1>19, <1>20 DEF Grows, e, d, s, i, a

----------------------------------------------------------------------------
(* The invariant *)

\* The values the variables have
Values ==
  /\ hist \in [Vars -> [0..Depth -> Val]] /\ cpy \in [Vars -> Val]
  /\ pend \in [Vars -> Val \cup {None}] /\ want \in [Vars -> [0..Depth -> Val]]

Lists ==
  /\ atomic_modified \in Seq(Vars) /\ phase \in {"parse", "run", "done"}
  /\ phase # "parse" => open = <<>>

Stands(D) == pc \in 1 .. Len(code) + 1 /\ depth = D[pc]

IInv ==
  /\ Values /\ Lists
  /\ \E D, L \in [Nat -> Nat] :
       Placed(code, open, atomic_counter, D, L) /\ Stands(D)

LEMMA InvType == IInv => TypeOK
<1> SUFFICES ASSUME IInv PROVE TypeOK
  OBVIOUS
<1>1. PICK D \in [Nat -> Nat], L \in [Nat -> Nat] :
        Placed(code, open, atomic_counter, D, L) /\ Stands(D)
  BY DEF IInv
<1>2. Values /\ Lists
  BY DEF IInv
<1>3. code \in Seq(Instr) /\ atomic_counter \in Nat /\ Len(code) \in Nat
  BY <1>1, PlacedFacts
<1>4. \A i \in DOMAIN code : code[i] \in Instr
  BY <1>3, ElementOfSeq, LenProperties
<1>5. \A i \in DOMAIN atomic_modified : atomic_modified[i] \in Vars
  BY <1>2, ElementOfSeq, LenProperties DEF Lists
<1>6. pc \in 1 .. Len(code) + 1 /\ depth \in Nat
  BY <1>1, <1>3 DEF Stands
<1> QED BY <1>2, <1>3, <1>4, <1>5, <1>6 DEF TypeOK, Values, Lists

LEMMA InitInv == Init => IInv
<1> SUFFICES ASSUME Init PROVE IInv
  OBVIOUS
<1> DEFINE D == [i \in Nat |-> 0]
<1>1. Values
  BY DEF Init, Values
<1>2. Lists
  BY DEF Init, Lists
<1>3. D \in [Nat -> Nat]
  OBVIOUS
<1>4. code = <<>> /\ open = <<>> /\ atomic_counter = 0 /\ pc = 1 /\ depth = 0
  BY DEF Init
<1>5. Marks(code, D, 0) /\ Levels(code, open, D, D, 0) /\ Jumps(code, open, D)
  BY <1>4 DEF Marks, Levels, Jumps
<1>6. Stands(D)
  BY <1>4 DEF Stands
<1> QED BY <1>1, <1>2, <1>3, <1>4, <1>5, <1>6 DEF IInv, Placed

\* A step of the parser
Moves ==
  \A D, L : Placed(code, open, atomic_counter, D, L)
              => Grows(code, D, code', open', atomic_counter')

LEMMA ParseKeeps ==
  ASSUME IInv, Moves, Lists', UNCHANGED <<pc, mach, src>>
  PROVE  IInv'
<1>1. PICK D \in [Nat -> Nat], L \in [Nat -> Nat] :
        Placed(code, open, atomic_counter, D, L) /\ Stands(D)
  BY DEF IInv
<1>2. Grows(code, D, code', open', atomic_counter')
  BY <1>1 DEF Moves
<1>3. PICK E \in [Nat -> Nat], M \in [Nat -> Nat] :
        Placed(code', open', atomic_counter', E, M) /\ Agree(code, D, E)
  BY <1>2 DEF Grows
<1>4. Len(code) \in Nat /\ Len(code') \in Nat /\ Len(code) <= Len(code')
  BY <1>1, <1>2, LenProperties, PlacedFacts DEF Grows
<1>5. pc' = pc /\ depth' = depth /\ pc \in 1 .. Len(code) + 1 /\ depth = D[pc]
  BY <1>1 DEF Stands, src
<1>6. pc' \in 1 .. Len(code') + 1 /\ depth' = E[pc']
  BY <1>3, <1>4, <1>5 DEF Agree
<1>7. Values'
  <2>1. Values
    BY DEF IInv
  <2> QED BY <2>1 DEF Values, mach, src
<1> QED BY <1>3, <1>6, <1>7 DEF IInv, Stands

LEMMA BecomesKeeps ==
  ASSUME IInv, NEW x \in Vars, NEW v \in Val, ParseBecomes(x, v)
  PROVE  IInv'
<1>1. Moves
  BY BecomesGrows DEF Moves, ParseBecomes, history_store, Emit
<1>2. Lists'
  <2>1. atomic_modified \in Seq(Vars) /\ phase = "parse"
    BY DEF IInv, Lists, ParseBecomes, Parsing
  <2>2. atomic_modified' \in Seq(Vars)
    BY <2>1 DEF ParseBecomes, history_store, mark_atomic_modified
  <2>3. phase' = "parse"
    BY <2>1 DEF ParseBecomes
  <2> QED BY <2>2, <2>3 DEF Lists
<1>3. UNCHANGED <<pc, mach, src>>
  BY DEF ParseBecomes
<1> QED BY <1>1, <1>2, <1>3, ParseKeeps

LEMMA AtomicKeeps ==
  ASSUME IInv, ParseAtomic
  PROVE  IInv'
<1>1. Moves
  BY AtomicGrows DEF Moves, ParseAtomic, history_enter_atomic, Emit
<1>2. Lists'
  BY DEF Lists, ParseAtomic, history_enter_atomic, Parsing
<1>3. UNCHANGED <<pc, mach, src>>
  BY DEF ParseAtomic
<1> QED BY <1>1, <1>2, <1>3, ParseKeeps

LEMMA AtomicEndKeeps ==
  ASSUME IInv, ParseAtomicEnd
  PROVE  IInv'
<1>1. atomic_modified \in Seq(Vars)
  BY DEF IInv, Lists
<1>2. /\ code' = code \o ExitCode(atomic_modified, atomic_counter - 1)
      /\ open' = Tail(open) /\ atomic_counter' = atomic_counter - 1
  <2>1. atomic_counter' = atomic_counter - 1
    BY DEF ParseAtomicEnd, history_exit_atomic
  <2> QED BY <2>1 DEF ParseAtomicEnd, history_exit_atomic, Emit, ExitCode
<1>3. ASSUME NEW D, NEW L, Placed(code, open, atomic_counter, D, L)
      PROVE  Grows(code, D, code', open', atomic_counter')
  <2>1. Inner(open, "atomic")
    <3>1. open \in Seq(Construct)
      BY <1>3, PlacedFacts
    <3>2. open # <<>> /\ Head(open).kind = "atomic"
      BY DEF ParseAtomicEnd
    <3>3. Head(open) = open[1]
      BY <3>1, <3>2, PopConstruct
    <3> QED BY <3>2, <3>3 DEF Inner
  <2> QED BY <1>1, <1>2, <1>3, <2>1, AtomicEndGrows
<1>4. Moves
  BY <1>3 DEF Moves
<1>5. Lists'
  BY <1>1 DEF Lists, ParseAtomicEnd, history_exit_atomic, Parsing
<1>6. UNCHANGED <<pc, mach, src>>
  BY DEF ParseAtomicEnd
<1> QED BY <1>4, <1>5, <1>6, ParseKeeps

LEMMA TestKeeps ==
  ASSUME IInv, ParseIf \/ ParseWhile
  PROVE  IInv'
<1>1. Moves
  <2>1. CASE ParseIf
    BY <2>1, TestGrows DEF Moves, ParseIf, Emit
  <2>2. CASE ParseWhile
    BY <2>2, TestGrows DEF Moves, ParseWhile, Emit
  <2> QED BY <2>1, <2>2
<1>2. Lists'
  <2>1. atomic_modified \in Seq(Vars)
    BY DEF IInv, Lists
  <2> QED BY <2>1 DEF Lists, ParseIf, ParseWhile, Parsing
<1>3. UNCHANGED <<pc, mach, src>>
  BY DEF ParseIf, ParseWhile
<1> QED BY <1>1, <1>2, <1>3, ParseKeeps

LEMMA TestEndKeeps ==
  ASSUME IInv, ParseIfEnd \/ ParseWhileEnd
  PROVE  IInv'
<1>1. ASSUME NEW D, NEW L, Placed(code, open, atomic_counter, D, L)
      PROVE  Grows(code, D, code', open', atomic_counter')
  <2>1. open \in Seq(Construct) /\ code \in Seq(Instr) /\ Len(code) \in Nat
    BY <1>1, PlacedFacts
  <2>2. open # <<>> /\ open' = Tail(open) /\ atomic_counter' = atomic_counter
    BY DEF ParseIfEnd, ParseWhileEnd
  <2>3. Head(open) = open[1]
    BY <2>1, <2>2, PopConstruct
  <2>4. CASE ParseIfEnd
    <3>1. Inner(open, "if")
      BY <2>3, <2>4 DEF ParseIfEnd, Inner
    <3>2. code' = Patched(code, open[1].at, Len(code) + 1)
      BY <2>3, <2>4 DEF ParseIfEnd, Patched
    <3> QED BY <1>1, <2>2, <3>1, <3>2, IfEndGrows
  <2>5. CASE ParseWhileEnd
    <3>1. Inner(open, "while")
      BY <2>3, <2>5 DEF ParseWhileEnd, Inner
    <3>2. TestInner(open) /\ Len(code) + 2 \in Nat
      BY <2>1, <3>1 DEF Inner, TestInner
    <3>3. Placed(Patched(code, open[1].at, Len(code) + 2), open, atomic_counter, D, L)
          /\ TestAt(Patched(code, open[1].at, Len(code) + 2), D, atomic_counter,
                    open[1].at, Len(code) + 2)
      BY <1>1, <3>2, PatchKeeps
    <3>4. Patched(code, open[1].at, Len(code) + 2) \in Seq(Instr)
      BY <3>3, PlacedFacts
    <3>5. code' = Append(Patched(code, open[1].at, Len(code) + 2),
                         [op |-> "jump", to |-> open[1].at])
      BY <2>3, <2>5 DEF ParseWhileEnd, Patched
    <3>6. [op |-> "jump", to |-> open[1].at] \in Instr
      <4>1. open[1].at \in Nat
        <5>1. Len(Patched(code, open[1].at, Len(code) + 2)) \in Nat
          BY <3>3, PlacedFacts
        <5> QED BY <3>3, <5>1 DEF TestAt
      <4> QED BY <4>1, Instrs
    <3>7. code' = Patched(code, open[1].at, Len(code) + 2)
                    \o <<[op |-> "jump", to |-> open[1].at]>>
      BY <3>4, <3>5, <3>6, AppendIsConcat
    <3> QED BY <1>1, <2>2, <3>1, <3>7, WhileEndGrows
  <2> QED BY <2>4, <2>5
<1>2. Moves
  BY <1>1 DEF Moves
<1>3. Lists'
  <2>1. atomic_modified \in Seq(Vars)
    BY DEF IInv, Lists
  <2> QED BY <2>1 DEF Lists, ParseIfEnd, ParseWhileEnd, Parsing
<1>4. UNCHANGED <<pc, mach, src>>
  BY DEF ParseIfEnd, ParseWhileEnd
<1> QED BY <1>2, <1>3, <1>4, ParseKeeps

LEMMA FuncEndKeeps ==
  ASSUME IInv, ParseFuncEnd
  PROVE  IInv'
<1>1. ASSUME NEW D, NEW L, Placed(code, open, atomic_counter, D, L)
      PROVE  Grows(code, D, code', open', atomic_counter')
  <2>1. /\ code \in Seq(Instr) /\ Len(code) \in Nat
        /\ D \in [Nat -> Nat] /\ L \in [Nat -> Nat]
    BY <1>1, PlacedFacts
  <2>2. Agree(code, D, D)
    BY DEF Agree
  <2>3. Grows(code, D, code, open, atomic_counter)
    <3>1. \E E, M \in [Nat -> Nat] :
            Placed(code, open, atomic_counter, E, M) /\ Agree(code, D, E)
      BY <1>1, <2>1, <2>2
    <3>2. Len(code) <= Len(code)
      BY <2>1
    <3> QED BY <2>1, <3>1, <3>2 DEF Grows
  <2> QED BY <2>3 DEF ParseFuncEnd, comp
<1>2. Moves
  BY <1>1 DEF Moves
<1>3. Lists'
  <2>1. atomic_modified \in Seq(Vars)
    BY DEF IInv, Lists
  <2> QED BY <2>1 DEF Lists, ParseFuncEnd, comp
<1>4. UNCHANGED <<pc, mach, src>>
  BY DEF ParseFuncEnd
<1> QED BY <1>2, <1>3, <1>4, ParseKeeps

\* A step of the machine: the level of the position it reaches is the number
\* of blocks it is inside of then.
LEMMA RunKeeps ==
  ASSUME IInv, UNCHANGED comp, phase = "run", phase' \in {"run", "done"}, Values',
         \A D, L : Placed(code, open, atomic_counter, D, L) /\ Stands(D) => Stands(D)'
  PROVE  IInv'
<1>1. PICK D \in [Nat -> Nat], L \in [Nat -> Nat] :
        Placed(code, open, atomic_counter, D, L) /\ Stands(D)
  BY DEF IInv
<1>2. Stands(D)'
  BY <1>1
<1>3. code' = code /\ open' = open /\ atomic_counter' = atomic_counter
      /\ atomic_modified' = atomic_modified
  BY DEF comp
<1>4. Lists'
  BY <1>3 DEF IInv, Lists
<1> QED BY <1>1, <1>2, <1>3, <1>4 DEF IInv

\* The instruction a run stands at
LEMMA InstructionAt ==
  ASSUME IInv, NEW op, At(op)
  PROVE  /\ code[pc] \in Instr /\ code[pc].op = op /\ pc \in 1 .. Len(code) /\ Values
         /\ open = <<>>
<1>1. PICK D \in [Nat -> Nat], L \in [Nat -> Nat] :
        Placed(code, open, atomic_counter, D, L) /\ Stands(D)
  BY DEF IInv
<1>2. code \in Seq(Instr) /\ Len(code) \in Nat
  BY <1>1, PlacedFacts
<1>3. pc \in 1 .. Len(code)
  BY <1>1, <1>2 DEF Stands, At
<1>4. code[pc] \in Instr
  BY <1>2, <1>3, ElementOfSeq
<1> QED BY <1>3, <1>4 DEF At, IInv, Lists

LEMMA StepStands ==
  ASSUME NEW D, NEW L, Placed(code, open, atomic_counter, D, L), Stands(D),
         pc <= Len(code), UNCHANGED comp, pc' = pc + 1,
         depth' = depth + Change(code[pc])
  PROVE  Stands(D)'
<1>1. Marks(code, D, atomic_counter) /\ Len(code) \in Nat
  BY PlacedFacts
<1>2. pc \in 1 .. Len(code) /\ depth = D[pc]
  BY <1>1 DEF Stands
<1>3. D[pc + 1] = D[pc] + Change(code[pc])
  BY <1>1, <1>2 DEF Marks
<1>4. pc' \in 1 .. Len(code') + 1 /\ depth' = D[pc']
  BY <1>1, <1>2, <1>3 DEF comp
<1> QED BY <1>4 DEF Stands

LEMMA JumpStands ==
  ASSUME NEW D, NEW L, Placed(code, open, atomic_counter, D, L), Stands(D),
         open = <<>>, pc <= Len(code), code[pc].op \in {"if", "jump"},
         UNCHANGED comp, pc' = code[pc].to, depth' = depth
  PROVE  Stands(D)'
<1>1. Jumps(code, open, D) /\ Len(code) \in Nat
  BY PlacedFacts
<1>2. pc \in 1 .. Len(code) /\ depth = D[pc]
  BY <1>1 DEF Stands
<1>3. ~Waits(open, pc)
  BY DEF Waits
<1>4. Lands(code, D, pc)
  BY <1>1, <1>2, <1>3 DEF Jumps
<1>5. pc' \in 1 .. Len(code') + 1 /\ depth' = D[pc']
  BY <1>1, <1>2, <1>4 DEF Lands, comp
<1> QED BY <1>5 DEF Stands

LEMMA StoreKeeps ==
  ASSUME IInv, RunStore
  PROVE  IInv' /\ depth = 0
<1>1. /\ code[pc] \in Instr /\ code[pc].op = "store" /\ pc \in 1 .. Len(code)
      /\ Values
  BY InstructionAt DEF RunStore
<1>2. Change(code[pc]) = 0 /\ code[pc].x \in Vars /\ code[pc].v \in Val
  BY <1>1, InstrFields DEF Change
<1>3. Values'
  BY <1>1, <1>2, PushTyped DEF Values, RunStore
<1>4. /\ UNCHANGED comp /\ phase = "run" /\ phase' \in {"run", "done"}
      /\ pc <= Len(code) /\ pc' = pc + 1 /\ depth' = depth
  BY DEF RunStore, At
<1>5. ASSUME NEW D, NEW L, Placed(code, open, atomic_counter, D, L), Stands(D)
      PROVE  Stands(D)' /\ depth = 0
  <2>1. depth' = depth + Change(code[pc])
    <3>1. depth \in Nat
      BY InvType DEF TypeOK
    <3> QED BY <1>2, <1>4, <3>1
  <2>2. Stands(D)'
    BY <1>4, <1>5, <2>1, StepStands
  <2>3. Marks(code, D, atomic_counter)
    BY <1>5, PlacedFacts
  <2>4. depth = 0
    BY <1>1, <1>5, <2>3 DEF Marks, Stands
  <2> QED BY <2>2, <2>4
<1>6. IInv'
  BY <1>3, <1>4, <1>5, RunKeeps
<1>7. depth = 0
  BY <1>5 DEF IInv
<1> QED BY <1>6, <1>7

LEMMA CommitKeeps ==
  ASSUME IInv, RunCommit
  PROVE  IInv' /\ depth = 0
<1>1. /\ code[pc] \in Instr /\ code[pc].op = "commit" /\ pc \in 1 .. Len(code)
      /\ Values
  BY InstructionAt DEF RunCommit
<1>2. Change(code[pc]) = 0 /\ code[pc].x \in Vars
  BY <1>1, InstrFields DEF Change
<1>3. Values'
  BY <1>1, <1>2, PushTyped DEF Values, RunCommit, src
<1>4. /\ UNCHANGED comp /\ phase = "run" /\ phase' \in {"run", "done"}
      /\ pc <= Len(code) /\ pc' = pc + 1 /\ depth' = depth
  BY DEF RunCommit, At, src
<1>5. ASSUME NEW D, NEW L, Placed(code, open, atomic_counter, D, L), Stands(D)
      PROVE  Stands(D)' /\ depth = 0
  <2>1. depth' = depth + Change(code[pc])
    <3>1. depth \in Nat
      BY InvType DEF TypeOK
    <3> QED BY <1>2, <1>4, <3>1
  <2>2. Stands(D)'
    BY <1>4, <1>5, <2>1, StepStands
  <2>3. Marks(code, D, atomic_counter)
    BY <1>5, PlacedFacts
  <2>4. depth = 0
    BY <1>1, <1>5, <2>3 DEF Marks, Stands
  <2> QED BY <2>2, <2>4
<1>6. IInv'
  BY <1>3, <1>4, <1>5, RunKeeps
<1>7. depth = 0
  BY <1>5 DEF IInv
<1> QED BY <1>6, <1>7

\* The steps that go on to the next instruction and change no variable
LEMMA QuietKeeps ==
  ASSUME IInv, RunCopy \/ RunRecopy \/ RunEnter \/ RunExit
  PROVE  IInv'
<1>1. PICK op \in {"copy", "recopy", "enter", "exit"} :
        At(op) /\ depth' = depth + Change([op |-> op])
  <2>1. depth \in Nat
    BY InvType DEF TypeOK
  <2> QED BY <2>1 DEF RunCopy, RunRecopy, RunEnter, RunExit, Change, src
<1>2. /\ code[pc] \in Instr /\ code[pc].op = op /\ pc \in 1 .. Len(code)
      /\ Values
  <2>1. At(op)
    BY <1>1
  <2> QED BY <2>1, InstructionAt
<1>3. Values'
  <2>1. CASE RunCopy
    <3>1. code[pc].op = "copy"
      BY <2>1 DEF RunCopy, At
    <3>2. code[pc].x \in Vars /\ code[pc].v \in Val
      BY <1>2, <3>1, InstrFields
    <3> QED BY <1>2, <2>1, <3>2 DEF Values, RunCopy
  <2>2. CASE RunRecopy \/ RunEnter
    BY <1>2, <2>2 DEF Values, RunRecopy, RunEnter, mach, src
  <2>3. CASE RunExit
    <3>1. hist' = hist /\ cpy' = cpy
      BY <2>3 DEF RunExit, mach
    <3>2. pend' \in [Vars -> Val \cup {None}]
      BY <1>2, <2>3 DEF RunExit, Values
    <3>3. want' \in [Vars -> [0..Depth -> Val]]
      <4>1. CASE depth = 1
        <5>1. want' = [x \in Vars |-> IF pend[x] = None THEN want[x]
                                       ELSE Push(want[x], pend[x])]
          BY <2>3, <4>1 DEF RunExit
        <5>2. ASSUME NEW x \in Vars
              PROVE  (IF pend[x] = None THEN want[x] ELSE Push(want[x], pend[x]))
                       \in [0..Depth -> Val]
          <6>1. want[x] \in [0..Depth -> Val] /\ pend[x] \in Val \cup {None}
            BY <1>2 DEF Values
          <6> QED BY <6>1, PushTyped
        <5> QED BY <5>1, <5>2
      <4>2. CASE depth # 1
        BY <1>2, <2>3, <4>2 DEF RunExit, Values
      <4> QED BY <4>1, <4>2
    <3> QED BY <1>2, <3>1, <3>2, <3>3 DEF Values
  <2> QED BY <2>1, <2>2, <2>3
<1>4. /\ UNCHANGED comp /\ phase = "run" /\ phase' \in {"run", "done"}
      /\ pc <= Len(code) /\ pc' = pc + 1
  BY DEF RunCopy, RunRecopy, RunEnter, RunExit, At
<1>5. depth' = depth + Change(code[pc])
  BY <1>1, <1>2 DEF Change
<1>6. ASSUME NEW D, NEW L, Placed(code, open, atomic_counter, D, L), Stands(D)
      PROVE  Stands(D)'
  BY <1>4, <1>5, <1>6, StepStands
<1> QED BY <1>3, <1>4, <1>6, RunKeeps

LEMMA JumpKeeps ==
  ASSUME IInv, RunIf \/ RunJump
  PROVE  IInv'
<1>1. PICK op \in {"if", "jump"} : At(op)
  BY DEF RunIf, RunJump
<1>2. /\ code[pc] \in Instr /\ code[pc].op = op /\ pc \in 1 .. Len(code)
      /\ Values /\ open = <<>>
  BY <1>1, InstructionAt
<1>3. Values'
  BY <1>2 DEF Values, RunIf, RunJump, mach, src
<1>4. /\ UNCHANGED comp /\ phase = "run" /\ phase' \in {"run", "done"}
      /\ pc <= Len(code) /\ depth' = depth /\ pc' \in {pc + 1, code[pc].to}
  BY DEF RunIf, RunJump, At, src
<1>5. code[pc].op \in {"if", "jump"} /\ Change(code[pc]) = 0
  BY <1>2 DEF Change
<1>6. depth' = depth + Change(code[pc])
  <2>1. depth \in Nat
    BY InvType DEF TypeOK
  <2> QED BY <1>4, <1>5, <2>1
<1>7. ASSUME NEW D, NEW L, Placed(code, open, atomic_counter, D, L), Stands(D)
      PROVE  Stands(D)'
  <2>1. CASE pc' = pc + 1
    BY <1>4, <1>6, <1>7, <2>1, StepStands
  <2>2. CASE pc' = code[pc].to
    BY <1>2, <1>4, <1>5, <1>7, <2>2, JumpStands
  <2> QED BY <1>4, <2>1, <2>2
<1> QED BY <1>3, <1>4, <1>7, RunKeeps

LEMMA EndKeeps ==
  ASSUME IInv, RunEnd
  PROVE  IInv'
<1>1. UNCHANGED <<comp, pc, mach, src>> /\ phase = "run" /\ phase' \in {"run", "done"}
  BY DEF RunEnd
<1>2. Values'
  BY <1>1 DEF IInv, Values, mach, src
<1>3. ASSUME NEW D, Stands(D) PROVE Stands(D)'
  BY <1>1, <1>3 DEF Stands, comp, src
<1> QED BY <1>1, <1>2, <1>3, RunKeeps

LEMMA NextKeeps == IInv /\ [Next]_vars => IInv'
<1> SUFFICES ASSUME IInv, [Next]_vars PROVE IInv'
  OBVIOUS
<1>1. ASSUME NEW x \in Vars, NEW v \in Val, ParseBecomes(x, v) PROVE IInv'
  BY <1>1, BecomesKeeps
<1>2. CASE ParseAtomic
  BY <1>2, AtomicKeeps
<1>3. CASE ParseAtomicEnd
  BY <1>3, AtomicEndKeeps
<1>4. CASE ParseIf \/ ParseWhile
  BY <1>4, TestKeeps
<1>5. CASE ParseIfEnd \/ ParseWhileEnd
  BY <1>5, TestEndKeeps
<1>6. CASE ParseFuncEnd
  BY <1>6, FuncEndKeeps
<1>7. CASE RunStore
  BY <1>7, StoreKeeps
<1>8. CASE RunCommit
  BY <1>8, CommitKeeps
<1>9. CASE RunCopy \/ RunRecopy \/ RunEnter \/ RunExit
  BY <1>9, QuietKeeps
<1>10. CASE RunIf \/ RunJump
  BY <1>10, JumpKeeps
<1>11. CASE RunEnd
  BY <1>11, EndKeeps
<1>12. CASE UNCHANGED vars
  BY <1>12 DEF IInv, Values, Lists, Stands, vars, comp, mach, src
<1> QED BY <1>1, <1>2, <1>3, <1>4, <1>5, <1>6, <1>7, <1>8, <1>9, <1>10, <1>11, <1>12
        DEF Next

LEMMA Invariant == Spec => []IInv
BY InitInv, NextKeeps, PTL DEF Spec

\* The state is well typed: above all, the counter of open blocks is never
\* negative, nor is the number of blocks a run is inside of, and every jump
\* that a run takes stays inside of the code.
THEOREM TypesKept == Spec => []TypeOK
BY Invariant, InvType, PTL

\* Between the braces of an atomic block nothing that runs changes what a
\* variable shows, for every body of any length: a variable itself is stored to
\* only by code outside of all blocks, whatever path leads to it.
THEOREM BlocksIsolate == Spec => Isolation
<1>1. IInv /\ [Next]_vars => (depth > 0 => hist' = hist) \/ UNCHANGED vars
  <2> SUFFICES ASSUME IInv, Next, depth > 0 PROVE hist' = hist
    OBVIOUS
  <2>1. depth # 0
    OBVIOUS
  <2>2. ~RunStore /\ ~RunCommit
    BY <2>1, StoreKeeps, CommitKeeps
  <2>3. ASSUME NEW x \in Vars, NEW v \in Val, ParseBecomes(x, v) PROVE hist' = hist
    BY <2>3 DEF ParseBecomes, mach
  <2>4. CASE \/ ParseAtomic \/ ParseAtomicEnd \/ ParseIf \/ ParseIfEnd
             \/ ParseWhile \/ ParseWhileEnd \/ ParseFuncEnd
    BY <2>4 DEF ParseAtomic, ParseAtomicEnd, ParseIf, ParseIfEnd, ParseWhile,
                ParseWhileEnd, ParseFuncEnd, mach
  <2>5. CASE RunCopy \/ RunRecopy \/ RunIf \/ RunJump \/ RunEnter \/ RunExit \/ RunEnd
    BY <2>5 DEF RunCopy, RunRecopy, RunIf, RunJump, RunEnter, RunExit, RunEnd, mach
  <2> QED BY <2>2, <2>3, <2>4, <2>5 DEF Next
<1>2. IInv /\ [Next]_vars => [depth > 0 => hist' = hist]_vars
  BY <1>1
<1> QED BY <1>2, Invariant, PTL DEF Spec, Isolation

----------------------------------------------------------------------------
(* What a block leaves to its end *)

Brace(i) == i.op \in {"enter", "exit"}

\* The blocks around position i, by the braces before it
Before(c, i, op) == {j \in 1 .. i - 1 : c[j].op = op}
Level(c, i) == Cardinality(Before(c, i, "enter")) - Cardinality(Before(c, i, "exit"))

\* The variables copied between the last brace and position i
CopiedAt(c, i) == {j \in 1 .. i - 1 : c[j].op = "copy" /\ \A l \in j .. i - 1 : ~Brace(c[l])}
Since(c, i) == {c[j].x : j \in CopiedAt(c, i)}

\* The commits that come next at position i
Due(c, i) == {j \in i .. Len(c) : \A l \in i .. j : c[l].op = "commit"}
DueVars(c, i) == {c[j].x : j \in Due(c, i)}

\* d begins as c does, as far as braces, copies and commits go.
Alike(c, d, n) ==
  \A j \in 1 .. n : /\ d[j].op = c[j].op
                    /\ c[j].op \in {"copy", "commit"} => d[j].x = c[j].x

\* An instruction counts at the positions behind it.
LEMMA BeforeStep ==
  ASSUME NEW c, NEW i \in Nat \ {0}, NEW op
  PROVE  /\ IsFiniteSet(Before(c, i, op)) /\ Cardinality(Before(c, i, op)) \in Nat
         /\ Cardinality(Before(c, i + 1, op))
              = Cardinality(Before(c, i, op)) + (IF c[i].op = op THEN 1 ELSE 0)
<1> DEFINE B == Before(c, i, op)
<1>1. IsFiniteSet(1 .. i - 1)
  BY FS_Interval
<1>2. IsFiniteSet(B)
  <2>1. B \subseteq 1 .. i - 1
    BY DEF Before
  <2> QED BY <1>1, <2>1, FS_Subset
<1>3. Cardinality(B) \in Nat
  BY <1>2, FS_CardinalityType
<1>4. i \notin B
  BY DEF Before
<1>5. Before(c, i + 1, op) = IF c[i].op = op THEN B \cup {i} ELSE B
  <2>1. 1 .. (i + 1) - 1 = (1 .. i - 1) \cup {i}
    OBVIOUS
  <2> QED BY <2>1 DEF Before
<1> HIDE DEF B
<1>6. Cardinality(B \cup {i}) = Cardinality(B) + 1
  BY <1>2, <1>4, FS_AddElement
<1>7. Cardinality(Before(c, i + 1, op)) = Cardinality(B) + (IF c[i].op = op THEN 1 ELSE 0)
  BY <1>3, <1>5, <1>6
<1> QED BY <1>2, <1>3, <1>7 DEF B

\* Braces change the level by one.
LEMMA LevelStep ==
  ASSUME NEW c, NEW i \in Nat \ {0}
  PROVE  Level(c, i) \in Int /\ Level(c, i + 1) = Level(c, i) + Change(c[i])
<1>1. /\ Cardinality(Before(c, i, "enter")) \in Nat
      /\ Cardinality(Before(c, i + 1, "enter"))
           = Cardinality(Before(c, i, "enter")) + (IF c[i].op = "enter" THEN 1 ELSE 0)
  BY BeforeStep
<1>2. /\ Cardinality(Before(c, i, "exit")) \in Nat
      /\ Cardinality(Before(c, i + 1, "exit"))
           = Cardinality(Before(c, i, "exit")) + (IF c[i].op = "exit" THEN 1 ELSE 0)
  BY BeforeStep
<1> QED BY <1>1, <1>2 DEF Level, Change

\* The code starts outside of all blocks.
LEMMA LevelFirst == ASSUME NEW c PROVE Level(c, 1) = 0
<1>1. ASSUME NEW op PROVE Before(c, 1, op) = {}
  BY DEF Before
<1> QED BY <1>1, FS_EmptySet DEF Level

\* The levels of a placement are those of the braces.
LEMMA MarksLevel ==
  ASSUME NEW c, NEW D, NEW n, Marks(c, D, n)
  PROVE  /\ \A i \in 1 .. Len(c) + 1 : D[i] = Level(c, i)
         /\ Level(c, Len(c) + 1) = n
<1>1. Len(c) \in Nat /\ D \in [Nat -> Nat] /\ D[1] = 0 /\ D[Len(c) + 1] = n
  BY LenProperties DEF Marks
<1> DEFINE T == {k \in 0 .. Len(c) : D[k + 1] = Level(c, k + 1)}
<1>2. 0 \in T
  BY <1>1, LevelFirst
<1>3. ASSUME NEW k \in 1 .. Len(c), k - 1 \in T PROVE k \in T
  <2>1. D[k] = Level(c, k)
    BY <1>3
  <2>2. D[k + 1] = D[k] + Change(c[k])
    BY DEF Marks
  <2>3. Level(c, k + 1) = Level(c, k) + Change(c[k])
    BY LevelStep
  <2> QED BY <2>1, <2>2, <2>3
<1>4. 0 .. Len(c) \subseteq T
  <2> HIDE DEF T
  <2> QED BY <1>1, <1>2, <1>3, Upward
<1>5. ASSUME NEW i \in 1 .. Len(c) + 1 PROVE D[i] = Level(c, i)
  <2>1. i - 1 \in 0 .. Len(c) /\ (i - 1) + 1 = i
    BY <1>1
  <2> QED BY <1>4, <2>1
<1> QED BY <1>1, <1>5

\* No brace, no change of the level
LEMMA LevelRun ==
  ASSUME NEW c, NEW a \in Nat, NEW b \in Nat, a <= b,
         \A l \in a .. b - 1 : ~Brace(c[l])
  PROVE  Level(c, a) = Level(c, b)
<1>1. ASSUME NEW op \in {"enter", "exit"} PROVE Before(c, a, op) = Before(c, b, op)
  BY DEF Before, Brace
<1> QED BY <1>1 DEF Level

\* The level depends on the braces only ...
LEMMA AlikeLevel ==
  ASSUME NEW c, NEW d, NEW n \in Nat, Alike(c, d, n), NEW i \in 1 .. n + 1
  PROVE  Level(d, i) = Level(c, i)
<1>1. ASSUME NEW op PROVE Before(c, i, op) = Before(d, i, op)
  BY DEF Before, Alike
<1> QED BY <1>1 DEF Level

\* ... and what was copied on the braces and the copies.
LEMMA AlikeSince ==
  ASSUME NEW c, NEW d, NEW n \in Nat, Alike(c, d, n), NEW i \in 1 .. n + 1
  PROVE  Since(d, i) = Since(c, i)
<1>1. CopiedAt(d, i) = CopiedAt(c, i)
  <2>1. \A j \in 1 .. i - 1 : d[j].op = c[j].op
    BY DEF Alike
  <2> QED BY <2>1 DEF CopiedAt, Brace
<1>2. \A j \in CopiedAt(c, i) : d[j].x = c[j].x
  BY DEF CopiedAt, Alike
<1> QED BY <1>1, <1>2 DEF Since

\* A copy adds its variable, a brace forgets all.
LEMMA SinceStep ==
  ASSUME NEW c, NEW i \in Nat \ {0}
  PROVE  Since(c, i + 1) = IF Brace(c[i]) THEN {}
                           ELSE IF c[i].op = "copy" THEN Since(c, i) \cup {c[i].x}
                           ELSE Since(c, i)
<1>1. CASE Brace(c[i])
  <2>1. CopiedAt(c, i + 1) = {}
    BY <1>1 DEF CopiedAt
  <2> QED BY <1>1, <2>1 DEF Since
<1>2. CASE ~Brace(c[i])
  <2>1. \A j \in 1 .. i - 1 : (\A l \in j .. i : ~Brace(c[l])) <=> \A l \in j .. i - 1 : ~Brace(c[l])
    <3>1. \A j \in 1 .. i - 1 : j .. i = (j .. i - 1) \cup {i}
      OBVIOUS
    <3> QED BY <1>2, <3>1
  <2>2. 1 .. (i + 1) - 1 = (1 .. i - 1) \cup {i} /\ (i + 1) - 1 = i /\ i .. i = {i}
    OBVIOUS
  <2>3. CopiedAt(c, i + 1) = IF c[i].op = "copy" THEN CopiedAt(c, i) \cup {i} ELSE CopiedAt(c, i)
    BY <1>2, <2>1, <2>2 DEF CopiedAt
  <2> QED BY <1>2, <2>3 DEF Since
<1> QED BY <1>1, <1>2

\* No brace and no copy, no change
LEMMA SinceRun ==
  ASSUME NEW c, NEW a \in Nat \ {0}, NEW b \in Nat, a <= b,
         \A l \in a .. b - 1 : ~Brace(c[l]) /\ c[l].op # "copy"
  PROVE  Since(c, a) = Since(c, b)
<1>1. ASSUME NEW j PROVE j \in CopiedAt(c, a) <=> j \in CopiedAt(c, b)
  <2>1. ASSUME j \in CopiedAt(c, a) PROVE j \in CopiedAt(c, b)
    <3>1. j \in 1 .. a - 1 /\ c[j].op = "copy" /\ \A l \in j .. a - 1 : ~Brace(c[l])
      BY <2>1 DEF CopiedAt
    <3>2. j \in 1 .. b - 1 /\ \A l \in j .. b - 1 : l \in j .. a - 1 \/ l \in a .. b - 1
      BY <3>1
    <3>3. \A l \in j .. b - 1 : ~Brace(c[l])
      BY <3>1, <3>2
    <3> QED BY <3>1, <3>2, <3>3 DEF CopiedAt
  <2>2. ASSUME j \in CopiedAt(c, b) PROVE j \in CopiedAt(c, a)
    <3>1. j \in 1 .. b - 1 /\ c[j].op = "copy" /\ \A l \in j .. b - 1 : ~Brace(c[l])
      BY <2>2 DEF CopiedAt
    <3>2. j \notin a .. b - 1
      BY <3>1
    <3>3. j \in 1 .. a - 1 /\ \A l \in j .. a - 1 : l \in j .. b - 1
      BY <3>1, <3>2
    <3> QED BY <3>1, <3>3 DEF CopiedAt
  <2> QED BY <2>1, <2>2
<1>2. CopiedAt(c, a) = CopiedAt(c, b)
  BY <1>1 DEF CopiedAt
<1> QED BY <1>2 DEF Since

----------------------------------------------------------------------------
(* Plain code: no block in a block, and no copy that a test in a block skips *)

Flat(c) == \A i \in 1 .. Len(c) : Level(c, i + 1) <= 1

Straight(c) ==
  \A i, j \in 1 .. Len(c) :
    i < j /\ c[i].op = "if" /\ j < c[i].to /\ c[j].op = "copy" => Level(c, i + 1) <= 0

Plain(c) == Flat(c) /\ Straight(c)

\* The bodies that BlocksCommitOnce is about are those with plain code.
LEMMA PlainMeans ==
  ASSUME code \in Seq(Instr)
  PROVE  ~Nested /\ ~Conditional <=> Plain(code)
<1>1. DOMAIN code = 1 .. Len(code) /\ Len(code) \in Nat
  BY LenProperties
<1>2. ASSUME NEW i \in 1 .. Len(code), NEW n \in Int
      PROVE  InBlock(i, n) <=> Level(code, i + 1) >= n
  <2>1. (i + 1) - 1 = i
    OBVIOUS
  <2> QED BY <2>1 DEF InBlock, Braces, Level, Before
<1>3. \A i \in 1 .. Len(code) : Level(code, i + 1) \in Int
  <2> TAKE i \in 1 .. Len(code)
  <2>1. i + 1 \in Nat \ {0}
    OBVIOUS
  <2> QED BY <2>1, LevelStep
<1>4. Nested <=> ~Flat(code)
  BY <1>1, <1>2, <1>3 DEF Nested, Flat
<1>5. Conditional <=> ~Straight(code)
  BY <1>1, <1>2, <1>3, SMTT(30) DEF Conditional, Straight
<1> QED BY <1>4, <1>5 DEF Plain

\* What was emitted before stays as it is.
LEMMA ConcatAlike ==
  ASSUME NEW c \in Seq(Instr), NEW s \in Seq(Instr)
  PROVE  /\ Alike(c, c \o s, Len(c)) /\ Len(c) \in Nat /\ Len(s) \in Nat
         /\ c \o s \in Seq(Instr) /\ Len(c \o s) = Len(c) + Len(s)
         /\ \A i \in 1 .. Len(c) : (c \o s)[i] = c[i]
         /\ \A i \in 1 .. Len(s) : (c \o s)[Len(c) + i] = s[i]
<1>1. /\ c \o s \in Seq(Instr) /\ Len(c \o s) = Len(c) + Len(s)
      /\ Len(c) \in Nat /\ Len(s) \in Nat
      /\ \A i \in 1 .. Len(c) + Len(s) :
           (c \o s)[i] = IF i <= Len(c) THEN c[i] ELSE s[i - Len(c)]
  BY ConcatProperties, LenProperties
<1>2. \A i \in 1 .. Len(c) : (c \o s)[i] = c[i]
  BY <1>1
<1>3. \A i \in 1 .. Len(s) : (c \o s)[Len(c) + i] = s[i]
  BY <1>1
<1>4. Alike(c, c \o s, Len(c))
  BY <1>2 DEF Alike
<1> QED BY <1>1, <1>2, <1>3, <1>4

\* Code that is plain was so before the last instructions were emitted ...
LEMMA PlainGrown ==
  ASSUME NEW c \in Seq(Instr), NEW s \in Seq(Instr), Plain(c \o s)
  PROVE  Plain(c)
<1> DEFINE d == c \o s
<1>1. /\ Alike(c, d, Len(c)) /\ Len(c) \in Nat /\ Len(s) \in Nat
      /\ Len(d) = Len(c) + Len(s) /\ \A i \in 1 .. Len(c) : d[i] = c[i]
  BY ConcatAlike
<1> HIDE DEF d
<1>2. ASSUME NEW i \in 1 .. Len(c) PROVE Level(d, i + 1) = Level(c, i + 1) /\ i \in 1 .. Len(d)
  <2>1. i + 1 \in 1 .. Len(c) + 1
    BY <1>1
  <2> QED BY <1>1, <2>1, AlikeLevel
<1>3. Plain(d)
  BY DEF d
<1>4. Flat(c)
  BY <1>2, <1>3 DEF Plain, Flat
<1>5. Straight(c)
  BY <1>1, <1>2, <1>3 DEF Plain, Straight
<1> QED BY <1>4, <1>5 DEF Plain

\* ... and before a test was patched to jump to its end.
LEMMA PatchedAlike ==
  ASSUME NEW c \in Seq(Instr), NEW a \in 1 .. Len(c), c[a].op = "if", NEW t \in Nat
  PROVE  /\ Alike(c, Patched(c, a, t), Len(c)) /\ Len(c) \in Nat
         /\ Patched(c, a, t) \in Seq(Instr) /\ Len(Patched(c, a, t)) = Len(c)
         /\ \A i \in 1 .. Len(c) : i # a => Patched(c, a, t)[i] = c[i]
         /\ Patched(c, a, t)[a].op = "if" /\ Patched(c, a, t)[a].to = t
<1> DEFINE p == Patched(c, a, t)
<1>1. /\ p \in Seq(Instr) /\ Len(p) = Len(c) /\ Len(c) \in Nat
      /\ p[a] = [op |-> "if", to |-> t]
      /\ \A i \in 1 .. Len(c) : i # a => p[i] = c[i]
  BY PatchedCode
<1> HIDE DEF p
<1>2. p[a].op = "if" /\ p[a].to = t
  BY <1>1
<1>3. Alike(c, p, Len(c))
  BY <1>1, <1>2 DEF Alike
<1> QED BY <1>1, <1>2, <1>3 DEF p

LEMMA PlainPatched ==
  ASSUME NEW c \in Seq(Instr), NEW a \in 1 .. Len(c), c[a].op = "if",
         NEW t \in Nat, t > Len(c), Plain(Patched(c, a, t))
  PROVE  Plain(c)
<1> DEFINE d == Patched(c, a, t)
<1>1. /\ Alike(c, d, Len(c)) /\ Len(c) \in Nat /\ Len(d) = Len(c)
      /\ \A i \in 1 .. Len(c) : i # a => d[i] = c[i]
      /\ d[a].op = "if" /\ d[a].to = t
  BY PatchedAlike
<1>2. Plain(d)
  OBVIOUS
<1> HIDE DEF d
<1>3. ASSUME NEW i \in 1 .. Len(c) PROVE Level(d, i + 1) = Level(c, i + 1)
  <2>1. i + 1 \in 1 .. Len(c) + 1
    BY <1>1
  <2> QED BY <1>1, <2>1, AlikeLevel
<1>4. Flat(c)
  BY <1>1, <1>2, <1>3 DEF Plain, Flat
<1>5. ASSUME NEW i \in 1 .. Len(c), NEW j \in 1 .. Len(c),
             i < j, c[i].op = "if", j < c[i].to, c[j].op = "copy"
      PROVE  Level(c, i + 1) <= 0
  <2>1. d[j].op = "copy"
    BY <1>1, <1>5 DEF Alike
  <2>2. d[i].op = "if" /\ j < d[i].to
    BY <1>1, <1>5
  <2> QED BY <1>1, <1>2, <1>3, <1>5, <2>1, <2>2 DEF Plain, Straight
<1> QED BY <1>4, <1>5 DEF Plain, Straight

----------------------------------------------------------------------------
(* What holds of the code while it grows *)

\* Commits stand behind the exit of their block; they are of the variables that
\* were copied in it, each once; copies are made in blocks only.
Text(c) ==
  /\ \A i \in 1 .. Len(c) : c[i].op = "commit" => i > 1 /\ c[i - 1].op \in {"exit", "commit"}
  /\ \A i \in 1 .. Len(c) : c[i].op = "exit" => DueVars(c, i + 1) = Since(c, i)
  /\ \A i \in 1 .. Len(c) : \A j \in Due(c, i) : j # i => c[j].x # c[i].x
  /\ \A i \in 1 .. Len(c) : c[i].op = "copy" => Level(c, i) > 0

\* A jump goes to where the same variables were copied, and past no commit.
Same(c, i, t) ==
  /\ t \in 1 .. Len(c) + 1 /\ Since(c, t) = Since(c, i)
  /\ t <= Len(c) => c[t].op # "commit"

SameJumps(c, o) ==
  \A i \in 1 .. Len(c) : c[i].op \in {"if", "jump"} => Same(c, i, c[i].to) \/ Waits(o, i)

\* Nothing behind the test of an open if or while is outside of the block that
\* the test is in.
Inside(c, k) ==
  k.kind # "atomic" => \A i \in k.at .. Len(c) + 1 : Level(c, i) >= Level(c, k.at)

Within(c, o) == \A k \in 1 .. Len(o) : Inside(c, o[k])

\* What is emitted at once, seen from the blocks
Piece(c, s) ==
  /\ s \in Seq(Instr) /\ s # <<>> /\ s[1].op # "commit"
  /\ s[1].op = "copy" => Level(c, Len(c) + 1) > 0
  /\ \A i \in 2 .. Len(s) : s[i].op = "commit" /\ s[1].op = "exit"
  /\ s[1].op = "exit" => {s[i].x : i \in 2 .. Len(s)} = Since(c, Len(c) + 1)
  /\ \A i, j \in 2 .. Len(s) : i # j => s[i].x # s[j].x

\* What is emitted does not start with a commit: nothing becomes due before it.
LEMMA DueGrown ==
  ASSUME NEW c \in Seq(Instr), NEW s, Piece(c, s), NEW i \in 1 .. Len(c) + 1
  PROVE  Due(c \o s, i) = Due(c, i) /\ DueVars(c \o s, i) = DueVars(c, i)
<1> DEFINE d == c \o s
<1>1. /\ Len(c) \in Nat /\ Len(s) \in Nat /\ Len(s) # 0
      /\ Len(d) = Len(c) + Len(s)
      /\ \A j \in 1 .. Len(c) : d[j] = c[j]
      /\ \A j \in 1 .. Len(s) : d[Len(c) + j] = s[j]
  BY ConcatAlike, EmptySeq DEF Piece
<1> HIDE DEF d
<1>2. d[Len(c) + 1].op # "commit"
  BY <1>1 DEF Piece
<1>3. ASSUME NEW j \in i .. Len(d), \A l \in i .. j : d[l].op = "commit"
      PROVE  j <= Len(c)
  BY <1>1, <1>2, <1>3
<1>4. ASSUME NEW j PROVE j \in Due(d, i) <=> j \in Due(c, i)
  <2>0. i \in Nat \ {0}
    BY <1>1
  <2>1. ASSUME j \in Due(d, i) PROVE j \in Due(c, i)
    <3>1. j \in i .. Len(d) /\ \A l \in i .. j : d[l].op = "commit"
      BY <2>1 DEF Due
    <3>2. j <= Len(c)
      BY <1>3, <3>1
    <3>3. j \in i .. Len(c) /\ \A l \in i .. j : l \in 1 .. Len(c)
      BY <1>1, <2>0, <3>1, <3>2
    <3>4. \A l \in i .. j : c[l].op = "commit"
      BY <1>1, <3>1, <3>3
    <3> QED BY <3>3, <3>4 DEF Due
  <2>2. ASSUME j \in Due(c, i) PROVE j \in Due(d, i)
    <3>1. j \in i .. Len(c) /\ \A l \in i .. j : c[l].op = "commit"
      BY <2>2 DEF Due
    <3>2. j \in i .. Len(d) /\ \A l \in i .. j : l \in 1 .. Len(c)
      BY <1>1, <2>0, <3>1
    <3>3. \A l \in i .. j : d[l].op = "commit"
      BY <1>1, <3>1, <3>2
    <3> QED BY <3>2, <3>3 DEF Due
  <2> QED BY <2>1, <2>2
<1>5. Due(d, i) = Due(c, i)
  BY <1>4
<1>6. \A j \in Due(c, i) : d[j] = c[j]
  BY <1>1 DEF Due
<1> QED BY <1>5, <1>6 DEF DueVars, d

\* What comes next behind an exit, or a commit
LEMMA DuePiece ==
  ASSUME NEW c \in Seq(Instr), NEW s, Piece(c, s), NEW i \in 2 .. Len(s) + 1
  PROVE  Due(c \o s, Len(c) + i) = Len(c) + i .. Len(c) + Len(s)
<1> DEFINE d == c \o s
<1>1. /\ Len(c) \in Nat /\ Len(s) \in Nat /\ Len(s) # 0
      /\ Len(d) = Len(c) + Len(s)
      /\ \A j \in 1 .. Len(s) : d[Len(c) + j] = s[j]
  BY ConcatAlike, EmptySeq DEF Piece
<1> HIDE DEF d
<1>2. ASSUME NEW l \in Len(c) + 2 .. Len(d) PROVE d[l].op = "commit"
  <2>1. l - Len(c) \in 2 .. Len(s) /\ l = Len(c) + (l - Len(c)) /\ l - Len(c) \in 1 .. Len(s)
    BY <1>1
  <2>2. d[l] = s[l - Len(c)]
    BY <1>1, <2>1
  <2> QED BY <2>1, <2>2 DEF Piece
<1> QED BY <1>1, <1>2 DEF Due, d

\* Emitting keeps commits behind their exits.
LEMMA TextGrown ==
  ASSUME NEW c \in Seq(Instr), NEW s, Piece(c, s), Text(c)
  PROVE  Text(c \o s)
<1> DEFINE d == c \o s
           n == Len(c)
<1>1. /\ n \in Nat /\ Len(s) \in Nat /\ Len(s) # 0
      /\ Len(d) = n + Len(s) /\ Alike(c, d, n)
      /\ \A j \in 1 .. n : d[j] = c[j]
      /\ \A j \in 1 .. Len(s) : d[n + j] = s[j]
  BY ConcatAlike, EmptySeq DEF Piece
<1>0. /\ \A i \in 1 .. n + 1 : Due(d, i) = Due(c, i) /\ DueVars(d, i) = DueVars(c, i)
      /\ \A i \in 2 .. Len(s) + 1 : Due(d, n + i) = n + i .. n + Len(s)
  BY DueGrown, DuePiece
<1>00. \A i \in 1 .. n + 1 : Since(d, i) = Since(c, i) /\ Level(d, i) = Level(c, i)
  <2> HIDE DEF d, n
  <2> QED BY <1>1, AlikeSince, AlikeLevel
<1> HIDE DEF d
<1>2. ASSUME NEW i \in 1 .. Len(d)
      PROVE  \/ i \in 1 .. n /\ d[i] = c[i]
             \/ i = n + 1 /\ d[i] = s[1]
             \/ i - n \in 2 .. Len(s) /\ i = n + (i - n) /\ d[i] = s[i - n] /\ s[i - n].op = "commit"
                /\ s[1].op = "exit"
  <2>1. CASE i <= n
    BY <1>1, <2>1
  <2>2. CASE i = n + 1
    BY <1>1, <2>2
  <2>3. CASE i > n + 1
    <3>1. i - n \in 2 .. Len(s) /\ i = n + (i - n) /\ i - n \in 1 .. Len(s)
      BY <1>1, <2>3
    <3>2. d[i] = s[i - n]
      BY <1>1, <3>1
    <3> QED BY <3>1, <3>2 DEF Piece
  <2> QED BY <1>1, <2>1, <2>2, <2>3
<1>3. ASSUME NEW i \in 1 .. Len(d), d[i].op = "commit"
      PROVE  i > 1 /\ d[i - 1].op \in {"exit", "commit"}
  <2>1. CASE i \in 1 .. n /\ d[i] = c[i]
    <3>1. i > 1 /\ c[i - 1].op \in {"exit", "commit"}
      BY <1>3, <2>1 DEF Text
    <3>2. i - 1 \in 1 .. n
      BY <1>1, <2>1, <3>1
    <3> QED BY <1>1, <3>1, <3>2
  <2>2. CASE i = n + 1 /\ d[i] = s[1]
    BY <1>3, <2>2 DEF Piece
  <2>3. CASE i - n \in 2 .. Len(s) /\ i = n + (i - n) /\ s[1].op = "exit"
    <3>1. i - 1 \in 1 .. Len(d) /\ i > 1 /\ i - 1 > n
      BY <1>1, <2>3
    <3>2. \/ d[i - 1] = s[1]
          \/ d[i - 1].op = "commit"
      BY <1>1, <1>2, <3>1
    <3> QED BY <2>3, <3>1, <3>2
  <2> QED BY <1>2, <2>1, <2>2, <2>3
<1>4. ASSUME NEW i \in 1 .. Len(d), d[i].op = "exit"
      PROVE  DueVars(d, i + 1) = Since(d, i)
  <2>1. CASE i \in 1 .. n /\ d[i] = c[i]
    <3>1. DueVars(c, i + 1) = Since(c, i)
      BY <1>4, <2>1 DEF Text
    <3>2. i \in 1 .. n + 1 /\ i + 1 \in 1 .. n + 1
      BY <1>1, <2>1
    <3> QED BY <1>0, <1>00, <3>1, <3>2
  <2>2. CASE i = n + 1 /\ d[i] = s[1]
    <3>1. {s[j].x : j \in 2 .. Len(s)} = Since(c, n + 1)
      BY <1>4, <2>2 DEF Piece
    <3>2. Due(d, i + 1) = n + 2 .. n + Len(s)
      <4>1. 2 \in 2 .. Len(s) + 1 /\ i + 1 = n + 2
        BY <1>1, <2>2
      <4> QED BY <1>0, <4>1
    <3>3. DueVars(d, i + 1) = {s[j].x : j \in 2 .. Len(s)}
      <4>1. ASSUME NEW j \in n + 2 .. n + Len(s)
            PROVE  j - n \in 2 .. Len(s) /\ d[j].x = s[j - n].x
        <5>1. j - n \in 2 .. Len(s) /\ j - n \in 1 .. Len(s) /\ n + (j - n) = j
          BY <1>1
        <5> QED BY <1>1, <5>1
      <4>2. ASSUME NEW j \in 2 .. Len(s)
            PROVE  n + j \in n + 2 .. n + Len(s) /\ d[n + j].x = s[j].x
        <5>1. j \in 1 .. Len(s) /\ n + j \in n + 2 .. n + Len(s)
          BY <1>1
        <5> QED BY <1>1, <5>1
      <4> DEFINE A == n + 2 .. n + Len(s)
                 B == 2 .. Len(s)
      <4>3. DueVars(d, i + 1) = {d[j].x : j \in A}
        BY <3>2 DEF DueVars
      <4> HIDE DEF A, B
      <4>4. (\A j \in A : j - n \in B /\ d[j].x = s[j - n].x)
            /\ (\A j \in B : n + j \in A /\ d[n + j].x = s[j].x)
        BY <4>1, <4>2 DEF A, B
      <4>5. {d[j].x : j \in A} = {s[j].x : j \in B}
        BY <4>4
      <4> QED BY <4>3, <4>5 DEF B
    <3>4. Since(d, i) = Since(c, n + 1)
      <4>1. n + 1 \in 1 .. n + 1
        BY <1>1
      <4> QED BY <1>00, <2>2, <4>1
    <3> QED BY <3>1, <3>3, <3>4
  <2>3. CASE i - n \in 2 .. Len(s) /\ d[i].op = "commit"
    BY <1>4, <2>3
  <2> QED BY <1>2, <2>1, <2>2, <2>3
<1>5. ASSUME NEW i \in 1 .. Len(d), NEW j \in Due(d, i), j # i
      PROVE  d[j].x # d[i].x
  <2>1. CASE i \in 1 .. n + 1
    <3>1. j \in Due(c, i)
      BY <1>0, <2>1
    <3>2. i \in 1 .. n /\ j \in 1 .. n
      BY <1>1, <2>1, <3>1 DEF Due
    <3>3. c[j].x # c[i].x
      BY <1>5, <3>1, <3>2 DEF Text
    <3> QED BY <1>1, <3>2, <3>3
  <2>2. CASE i \notin 1 .. n + 1
    <3>1. i - n \in 2 .. Len(s) /\ i = n + (i - n) /\ d[i] = s[i - n]
      BY <1>1, <1>2, <2>2
    <3>2. Due(d, i) = i .. n + Len(s)
      <4>1. i - n \in 2 .. Len(s) + 1
        BY <1>1, <3>1
      <4> QED BY <1>0, <3>1, <4>1
    <3>3. j - n \in 2 .. Len(s) /\ j - n # i - n /\ j - n \in 1 .. Len(s) /\ n + (j - n) = j
      BY <1>1, <1>5, <3>1, <3>2
    <3>4. d[j] = s[j - n]
      BY <1>1, <3>3
    <3> QED BY <3>1, <3>3, <3>4 DEF Piece
  <2> QED BY <2>1, <2>2
<1>6. ASSUME NEW i \in 1 .. Len(d), d[i].op = "copy" PROVE Level(d, i) > 0
  <2>1. CASE i \in 1 .. n /\ d[i] = c[i]
    <3>1. Level(c, i) > 0
      BY <1>6, <2>1 DEF Text
    <3>2. i \in 1 .. n + 1
      BY <1>1, <2>1
    <3> QED BY <1>00, <3>1, <3>2
  <2>2. CASE i = n + 1 /\ d[i] = s[1]
    <3>1. Level(c, n + 1) > 0
      BY <1>6, <2>2 DEF Piece
    <3>2. i \in 1 .. n + 1
      BY <1>1, <2>2
    <3> QED BY <1>00, <2>2, <3>1, <3>2
  <2>3. CASE d[i].op = "commit"
    BY <1>6, <2>3
  <2> QED BY <1>2, <2>1, <2>2, <2>3
<1>7. Text(d)
  BY <1>3, <1>4, <1>5, <1>6 DEF Text
<1> QED BY <1>7 DEF d

\* Before anything is copied, and behind a block, no variable waits.
LEMMA SinceOutside ==
  ASSUME NEW c, NEW n \in Nat, n = Len(c), Text(c), NEW i \in 1 .. n + 1, Level(c, i) = 0
  PROVE  Since(c, i) = {}
<1> SUFFICES ASSUME NEW j \in CopiedAt(c, i) PROVE FALSE
  BY DEF Since
<1>1. j \in 1 .. i - 1 /\ c[j].op = "copy" /\ \A l \in j .. i - 1 : ~Brace(c[l])
  BY DEF CopiedAt
<1>2. j \in Nat /\ i \in Nat /\ j <= i /\ j \in 1 .. n
  BY <1>1
<1>3. Level(c, j) = Level(c, i)
  BY <1>1, <1>2, LevelRun
<1>4. Level(c, j) > 0
  BY <1>1, <1>2 DEF Text
<1> QED BY <1>3, <1>4

\* The test of an if or while that ends jumps to where the same variables were
\* copied: inside of a block there are no copies between, outside of it none at all.
LEMMA EndSame ==
  ASSUME NEW c, NEW n \in Nat, n = Len(c), Plain(c), Text(c),
         \A i \in 1 .. n + 1 : Level(c, i) \in Nat,
         NEW k, k.kind # "atomic", Inside(c, k), k.at \in 1 .. n,
         c[k.at].op = "if", c[k.at].to = n + 1, Level(c, k.at) = Level(c, n + 1)
  PROVE  Since(c, k.at) = Since(c, n + 1) /\ Same(c, k.at, n + 1)
<1> DEFINE a == k.at
<1>1. a \in 1 .. n /\ c[a].op = "if" /\ c[a].to = n + 1 /\ Level(c, a) = Level(c, n + 1)
      /\ \A i \in a .. n + 1 : Level(c, i) >= Level(c, a)
  BY DEF Inside
<1> HIDE DEF a
<1>2. n + 1 \in 1 .. n + 1 /\ a \in 1 .. n + 1 /\ a \in Nat \ {0} /\ a <= n + 1
  BY <1>1
<1>3. CASE Level(c, a) = 0
  <2>1. Since(c, a) = {} /\ Since(c, n + 1) = {}
    BY <1>1, <1>2, <1>3, SinceOutside
  <2> QED BY <1>2, <2>1 DEF Same, a
<1>4. CASE Level(c, a) # 0
  <2>1. ASSUME NEW i \in a .. n PROVE Level(c, i + 1) = 1
    <3>1. i \in 1 .. n /\ i + 1 \in a .. n + 1 /\ i + 1 \in 1 .. n + 1
      BY <1>1
    <3>2. Level(c, i + 1) <= 1 /\ Level(c, i + 1) >= Level(c, a)
      BY <1>1, <3>1 DEF Plain, Flat
    <3> QED BY <1>2, <1>4, <3>1, <3>2
  <2>2. Level(c, a) = 1
    <3>1. a \in a .. n /\ Level(c, a + 1) >= Level(c, a)
      BY <1>1
    <3>2. Level(c, a + 1) = 1
      BY <2>1, <3>1
    <3> QED BY <1>2, <1>4, <3>1, <3>2
  <2>3. ASSUME NEW i \in a .. n PROVE Level(c, i) = 1
    <3>1. CASE i = a
      BY <2>2, <3>1
    <3>2. CASE i # a
      <4>1. i - 1 \in a .. n /\ (i - 1) + 1 = i
        BY <1>1, <3>2
      <4> QED BY <2>1, <4>1
    <3> QED BY <3>1, <3>2
  <2>4. ASSUME NEW i \in a .. n PROVE ~Brace(c[i]) /\ c[i].op # "copy"
    <3>1. i \in Nat \ {0} /\ i \in 1 .. n
      BY <1>1
    <3>2. Level(c, i + 1) = Level(c, i) + Change(c[i])
      BY <3>1, LevelStep
    <3>3. ~Brace(c[i])
      BY <2>1, <2>3, <3>2 DEF Brace, Change
    <3>4. CASE i = a
      BY <1>1, <3>3, <3>4
    <3>5. CASE i # a
      <4>1. a < i /\ i < c[a].to /\ a \in a .. n
        BY <1>1, <3>5
      <4>2. Level(c, a + 1) = 1
        BY <2>1, <4>1
      <4> QED BY <1>1, <3>1, <3>3, <4>1, <4>2 DEF Plain, Straight
    <3> QED BY <3>4, <3>5
  <2>5. Since(c, a) = Since(c, n + 1)
    <3>1. n + 1 \in Nat /\ (n + 1) - 1 = n
      OBVIOUS
    <3> QED BY <1>2, <2>4, <3>1, SinceRun
  <2> QED BY <1>2, <2>5 DEF Same, a
<1> QED BY <1>3, <1>4

\* Emitting leaves every jump where it goes to.
LEMMA JumpsGrown ==
  ASSUME NEW c \in Seq(Instr), NEW s, Piece(c, s), NEW o, NEW p, SameJumps(c, o),
         \A i \in 1 .. Len(c) : Waits(o, i) => Waits(p, i),
         s[1].op \in {"if", "jump"} =>
            \/ Same(c \o s, Len(c) + 1, s[1].to)
            \/ Waits(p, Len(c) + 1)
  PROVE  SameJumps(c \o s, p)
<1> DEFINE d == c \o s
           n == Len(c)
<1>1. /\ n \in Nat /\ Len(s) \in Nat /\ Len(s) # 0
      /\ Len(d) = n + Len(s) /\ Alike(c, d, n)
      /\ \A j \in 1 .. n : d[j] = c[j]
      /\ \A j \in 1 .. Len(s) : d[n + j] = s[j]
  BY ConcatAlike, EmptySeq DEF Piece
<1>2. \A i \in 1 .. n + 1 : Since(d, i) = Since(c, i)
  <2> HIDE DEF d, n
  <2> QED BY <1>1, AlikeSince
<1>3. s[1].op \in {"if", "jump"} => Same(d, n + 1, s[1].to) \/ Waits(p, n + 1)
  OBVIOUS
<1> HIDE DEF d
<1>4. d[n + 1].op # "commit"
  BY <1>1 DEF Piece
<1>5. ASSUME NEW i \in 1 .. Len(d), d[i].op \in {"if", "jump"}
      PROVE  Same(d, i, d[i].to) \/ Waits(p, i)
  <2>1. CASE i <= n
    <3>1. i \in 1 .. n /\ d[i] = c[i] /\ i \in 1 .. n + 1
      BY <1>1, <2>1
    <3>2. CASE Waits(o, i)
      BY <3>1, <3>2
    <3>3. CASE Same(c, i, c[i].to)
      <4>1. /\ d[i].to \in 1 .. n + 1 /\ Since(c, d[i].to) = Since(c, i)
            /\ d[i].to <= n => c[d[i].to].op # "commit"
        BY <3>1, <3>3 DEF Same
      <4>2. Since(d, d[i].to) = Since(d, i)
        BY <1>2, <3>1, <4>1
      <4>3. d[d[i].to].op # "commit"
        <5>1. CASE d[i].to <= n
          <6>1. d[i].to \in 1 .. n
            BY <4>1, <5>1
          <6> QED BY <1>1, <4>1, <5>1, <6>1
        <5>2. CASE ~(d[i].to <= n)
          <6>1. d[i].to = n + 1
            BY <1>1, <4>1, <5>2
          <6> QED BY <1>4, <6>1
        <5> QED BY <5>1, <5>2
      <4>4. d[i].to \in 1 .. Len(d) + 1
        BY <1>1, <4>1
      <4> QED BY <4>2, <4>3, <4>4 DEF Same
    <3> QED BY <1>5, <3>1, <3>2, <3>3 DEF SameJumps
  <2>2. CASE i = n + 1
    <3>1. d[i] = s[1]
      BY <1>1, <2>2
    <3> QED BY <1>3, <1>5, <2>2, <3>1
  <2>3. CASE i > n + 1
    <3>1. i - n \in 2 .. Len(s) /\ i - n \in 1 .. Len(s) /\ n + (i - n) = i
      BY <1>1, <2>3
    <3>2. d[i] = s[i - n]
      BY <1>1, <3>1
    <3> QED BY <1>5, <3>1, <3>2 DEF Piece
  <2> QED BY <1>1, <2>1, <2>2, <2>3
<1>6. SameJumps(d, p)
  BY <1>5 DEF SameJumps
<1> QED BY <1>6 DEF d

----------------------------------------------------------------------------
(* The levels of what is open *)

\* The test of an open if or while is inside of no more blocks than the end of the
\* code is.
LEMMA LevelsBelow ==
  ASSUME NEW c, NEW o, NEW n, NEW D, NEW L, Placed(c, o, n, D, L),
         NEW k \in 1 .. Len(o), o[k].kind # "atomic"
  PROVE  /\ o[k].at \in 1 .. Len(c) /\ c[o[k].at].op = "if"
         /\ Level(c, o[k].at) <= n /\ (k = 1 => Level(c, o[k].at) = n)
<1> DEFINE a == o[k].at
<1>1. Marks(c, D, n) /\ Levels(c, o, D, L, n) /\ n \in Nat
  BY PlacedFacts
<1>2. a \in 1 .. Len(c) /\ c[a].op = "if" /\ D[a] = L[k]
  BY <1>1 DEF Levels, OpenAt
<1>3. Len(c) \in Nat /\ Len(o) \in Nat
  BY PlacedFacts, LenProperties
<1> HIDE DEF a
<1>4. D[a] = Level(c, a)
  <2>1. a \in 1 .. Len(c) + 1
    BY <1>2, <1>3
  <2> QED BY <1>1, <2>1, MarksLevel
<1>5. L \in [Nat -> Nat] /\ L[1] = n
  BY <1>1 DEF Levels
<1> DEFINE T == {i \in 0 .. Len(o) : L[i + 1] <= n}
<1>6. 0 \in T
  BY <1>1, <1>3, <1>5
<1>7. ASSUME NEW i \in 1 .. Len(o), i - 1 \in T PROVE i \in T
  <2>1. L[i] <= n
    BY <1>7
  <2>2. L[i] = L[i + 1] + Width(o[i])
    BY <1>1 DEF Levels
  <2>3. Width(o[i]) \in {0, 1}
    BY DEF Width
  <2>4. L[i] \in Nat /\ L[i + 1] \in Nat
    <3>1. i \in Nat /\ i + 1 \in Nat
      BY <1>3
    <3>2. \A j \in Nat : L[j] \in Nat
      BY <1>5
    <3> QED BY <3>1, <3>2
  <2> QED BY <1>1, <2>1, <2>2, <2>3, <2>4
<1>8. 0 .. Len(o) \subseteq T
  <2> HIDE DEF T
  <2> QED BY <1>3, <1>6, <1>7, Upward
<1>9. L[k] <= n
  <2>1. k - 1 \in 0 .. Len(o) /\ (k - 1) + 1 = k
    BY <1>3
  <2> QED BY <1>8, <2>1
<1> QED BY <1>2, <1>4, <1>5, <1>9 DEF a

\* The levels of a placement, once more, as numbers
LEMMA LevelsPlaced ==
  ASSUME NEW c, NEW o, NEW n, NEW D, NEW L, Placed(c, o, n, D, L)
  PROVE  /\ \A i \in 1 .. Len(c) + 1 : D[i] = Level(c, i) /\ Level(c, i) \in Nat
         /\ Level(c, Len(c) + 1) = n
<1>1. Marks(c, D, n)
  BY PlacedFacts
<1>2. D \in [Nat -> Nat] /\ Len(c) \in Nat
  BY PlacedFacts
<1>3. /\ \A i \in 1 .. Len(c) + 1 : D[i] = Level(c, i)
      /\ Level(c, Len(c) + 1) = n
  BY <1>1, MarksLevel
<1>4. \A i \in 1 .. Len(c) + 1 : D[i] \in Nat
  BY <1>2
<1> QED BY <1>3, <1>4

\* Plain code is never inside of two blocks.
LEMMA PlainLevel ==
  ASSUME NEW c, NEW n \in Nat, n = Len(c), Plain(c), NEW i \in 1 .. n + 1
  PROVE  Level(c, i) <= 1
<1>1. CASE i = 1
  BY <1>1, LevelFirst
<1>2. CASE i # 1
  <2>1. i - 1 \in 1 .. n /\ (i - 1) + 1 = i
    BY <1>2
  <2> QED BY <2>1 DEF Plain, Flat
<1> QED BY <1>1, <1>2

\* What is emitted stays inside of what is open.
LEMMA InsideGrown ==
  ASSUME NEW c \in Seq(Instr), NEW s, Piece(c, s), NEW k,
         Inside(c, k) \/ k.at = Len(c) + 1, k.at \in Nat \ {0},
         Level(c \o s, k.at) <= Level(c \o s, Len(c \o s) + 1)
  PROVE  Inside(c \o s, k)
<1> DEFINE d == c \o s
           n == Len(c)
           a == k.at
<1>1. /\ n \in Nat /\ Len(s) \in Nat /\ Len(s) # 0
      /\ Len(d) = n + Len(s) /\ Alike(c, d, n)
      /\ \A j \in 1 .. Len(s) : d[n + j] = s[j]
  BY ConcatAlike, EmptySeq DEF Piece
<1>2. \A i \in 1 .. n + 1 : Level(d, i) = Level(c, i)
  <2> HIDE DEF d, n
  <2> QED BY <1>1, AlikeLevel
<1>3. Level(d, a) <= Level(d, Len(d) + 1)
  OBVIOUS
<1> HIDE DEF d
<1>4. ASSUME NEW i \in n + 2 .. Len(d) + 1 PROVE Level(d, i) = Level(d, Len(d) + 1)
  <2>1. ASSUME NEW l \in i .. (Len(d) + 1) - 1 PROVE ~Brace(d[l])
    <3>1. l - n \in 2 .. Len(s) /\ l - n \in 1 .. Len(s) /\ n + (l - n) = l
      BY <1>1
    <3>2. d[l] = s[l - n]
      BY <1>1, <3>1
    <3> QED BY <3>1, <3>2 DEF Piece, Brace
  <2>2. i \in Nat /\ Len(d) + 1 \in Nat /\ i <= Len(d) + 1
    BY <1>1
  <2> QED BY <2>1, <2>2, LevelRun
<1>5. ASSUME k.kind # "atomic", NEW i \in a .. Len(d) + 1
      PROVE  Level(d, i) >= Level(d, a)
  <2>0. a \in Nat \ {0} /\ i \in Nat \ {0}
    BY <1>1
  <2>00. Level(d, i) \in Int /\ Level(d, a) \in Int
    BY <1>1, <2>0, LevelStep
  <2>1. CASE i >= n + 2
    <3>1. i \in n + 2 .. Len(d) + 1
      BY <1>1, <2>1
    <3>2. Level(d, i) = Level(d, Len(d) + 1)
      BY <1>4, <3>1
    <3> QED BY <1>3, <2>00, <3>2
  <2>2. CASE i < n + 2 /\ Inside(c, k)
    <3>1. i \in a .. n + 1 /\ i \in 1 .. n + 1 /\ a \in 1 .. n + 1
      BY <1>1, <2>0, <2>2
    <3>2. Level(c, i) >= Level(c, a)
      BY <1>5, <2>2, <3>1 DEF Inside
    <3> QED BY <1>2, <3>1, <3>2
  <2>3. CASE i < n + 2 /\ a = n + 1
    <3>1. i = a
      BY <1>1, <2>0, <2>3
    <3> QED BY <2>00, <3>1
  <2> QED BY <1>1, <2>1, <2>2, <2>3
<1>6. Inside(d, k)
  BY <1>5 DEF Inside
<1> QED BY <1>6 DEF d

\* The constructs of p are those of o, and one that starts at a.
From(o, p, a) ==
  \A k \in 1 .. Len(p) :
    p[k].kind # "atomic" => p[k].at = a \/ \E j \in 1 .. Len(o) : p[k] = o[j]

\* What is emitted stays inside of the constructs that are open then.
LEMMA WithinGrown ==
  ASSUME NEW c \in Seq(Instr), NEW s, Piece(c, s), NEW o, Within(c, o),
         NEW p, From(o, p, Len(c) + 1),
         NEW m, NEW E, NEW M, Placed(c \o s, p, m, E, M)
  PROVE  Within(c \o s, p)
<1> DEFINE d == c \o s
<1> SUFFICES ASSUME NEW k \in 1 .. Len(p) PROVE Inside(d, p[k])
  BY DEF Within
<1>1. CASE p[k].kind = "atomic"
  BY <1>1 DEF Inside
<1>2. CASE p[k].kind # "atomic"
  <2>1. Len(d) \in Nat /\ Level(d, Len(d) + 1) = m
    BY PlacedFacts, LevelsPlaced
  <2>2. p[k].at \in 1 .. Len(d) /\ Level(d, p[k].at) <= m
    BY <1>2, LevelsBelow
  <2>3. p[k].at \in Nat \ {0}
    BY <2>1, <2>2
  <2>4. p[k].at = Len(c) + 1 \/ Inside(c, p[k])
    BY <1>2 DEF From, Within
  <2> QED BY <2>1, <2>2, <2>3, <2>4, InsideGrown
<1> QED BY <1>1, <1>2

----------------------------------------------------------------------------
(* A test is patched *)

\* Neither the commits ...
LEMMA TextPatched ==
  ASSUME NEW c \in Seq(Instr), NEW a \in 1 .. Len(c), c[a].op = "if", NEW t \in Nat, Text(c)
  PROVE  Text(Patched(c, a, t))
<1> DEFINE d == Patched(c, a, t)
           n == Len(c)
<1>1. /\ Alike(c, d, n) /\ n \in Nat /\ Len(d) = n
  BY PatchedAlike
<1> HIDE DEF d
<1>2. \A i \in 1 .. n : /\ d[i].op = c[i].op
                        /\ c[i].op \in {"copy", "commit"} => d[i].x = c[i].x
  BY <1>1 DEF Alike
<1>3. \A i \in 1 .. n + 1 : Since(d, i) = Since(c, i) /\ Level(d, i) = Level(c, i)
  <2> HIDE DEF n
  <2> QED BY <1>1, AlikeSince, AlikeLevel
<1>4. ASSUME NEW i \in 1 .. n + 1 PROVE Due(d, i) = Due(c, i) /\ DueVars(d, i) = DueVars(c, i)
  <2>1. Due(d, i) = Due(c, i)
    <3>1. ASSUME NEW j \in i .. n
          PROVE  (\A l \in i .. j : d[l].op = "commit") <=> \A l \in i .. j : c[l].op = "commit"
      BY <1>1, <1>2
    <3> QED BY <1>1, <3>1 DEF Due
  <2>2. \A j \in Due(c, i) : d[j].x = c[j].x
    <3> TAKE j \in Due(c, i)
    <3>1. j \in 1 .. n /\ c[j].op = "commit"
      BY <1>1 DEF Due
    <3> QED BY <1>2, <3>1
  <2> QED BY <2>1, <2>2 DEF DueVars
<1>5. ASSUME NEW i \in 1 .. n, d[i].op = "commit" PROVE i > 1 /\ d[i - 1].op \in {"exit", "commit"}
  <2>1. i > 1 /\ c[i - 1].op \in {"exit", "commit"}
    BY <1>2, <1>5 DEF Text
  <2>2. i - 1 \in 1 .. n
    BY <1>1, <2>1
  <2> QED BY <1>2, <2>1, <2>2
<1>6. ASSUME NEW i \in 1 .. n, d[i].op = "exit" PROVE DueVars(d, i + 1) = Since(d, i)
  <2>1. DueVars(c, i + 1) = Since(c, i)
    BY <1>2, <1>6 DEF Text
  <2>2. i \in 1 .. n + 1 /\ i + 1 \in 1 .. n + 1
    BY <1>1
  <2> QED BY <1>3, <1>4, <2>1, <2>2
<1>7. ASSUME NEW i \in 1 .. n, NEW j \in Due(d, i), j # i PROVE d[j].x # d[i].x
  <2>1. i \in 1 .. n + 1
    BY <1>1
  <2>2. j \in Due(c, i)
    BY <1>4, <2>1
  <2>3. j \in 1 .. n /\ c[j].op = "commit" /\ c[i].op = "commit"
    BY <1>1, <2>2 DEF Due
  <2>4. c[j].x # c[i].x
    BY <1>7, <2>2 DEF Text
  <2> QED BY <1>2, <2>3, <2>4
<1>8. ASSUME NEW i \in 1 .. n, d[i].op = "copy" PROVE Level(d, i) > 0
  <2>1. Level(c, i) > 0
    BY <1>2, <1>8 DEF Text
  <2>2. i \in 1 .. n + 1
    BY <1>1
  <2> QED BY <1>3, <2>1, <2>2
<1>9. Text(d)
  BY <1>1, <1>5, <1>6, <1>7, <1>8 DEF Text
<1> QED BY <1>9 DEF d

\* ... nor the other jumps ...
LEMMA JumpsPatched ==
  ASSUME NEW c \in Seq(Instr), NEW a \in 1 .. Len(c), c[a].op = "if", NEW t \in Nat,
         NEW o, SameJumps(c, o), Waits(o, a)
  PROVE  SameJumps(Patched(c, a, t), o)
<1> DEFINE d == Patched(c, a, t)
           n == Len(c)
<1>1. /\ Alike(c, d, n) /\ n \in Nat /\ Len(d) = n
      /\ \A i \in 1 .. n : i # a => d[i] = c[i]
  BY PatchedAlike
<1> HIDE DEF d
<1>2. \A i \in 1 .. n + 1 : Since(d, i) = Since(c, i)
  <2> HIDE DEF n
  <2> QED BY <1>1, AlikeSince
<1>3. ASSUME NEW i \in 1 .. n, d[i].op \in {"if", "jump"}
      PROVE  Same(d, i, d[i].to) \/ Waits(o, i)
  <2>1. CASE i = a
    BY <2>1
  <2>2. CASE i # a
    <3>1. d[i] = c[i]
      BY <1>1, <2>2
    <3>2. CASE Same(c, i, c[i].to)
      <4>1. /\ c[i].to \in 1 .. n + 1 /\ Since(c, c[i].to) = Since(c, i)
            /\ c[i].to <= n => c[c[i].to].op # "commit"
        BY <3>2 DEF Same
      <4>2. i \in 1 .. n + 1
        BY <1>1
      <4>3. Since(d, c[i].to) = Since(d, i)
        BY <1>2, <4>1, <4>2
      <4>4. c[i].to <= n => d[c[i].to].op # "commit"
        <5>1. c[i].to <= n => c[i].to \in 1 .. n
          BY <1>1, <4>1
        <5> QED BY <1>1, <4>1, <5>1 DEF Alike
      <4> QED BY <1>1, <3>1, <4>1, <4>3, <4>4 DEF Same
    <3> QED BY <1>3, <3>1, <3>2 DEF SameJumps
  <2> QED BY <2>1, <2>2
<1>4. SameJumps(d, o)
  BY <1>1, <1>3 DEF SameJumps
<1> QED BY <1>4 DEF d

\* ... nor what is open notices.
LEMMA WithinPatched ==
  ASSUME NEW c \in Seq(Instr), NEW a \in 1 .. Len(c), c[a].op = "if", NEW t \in Nat,
         NEW o, Within(c, o), \A k \in 1 .. Len(o) : o[k].kind # "atomic" => o[k].at \in 1 .. Len(c)
  PROVE  Within(Patched(c, a, t), o)
<1> DEFINE d == Patched(c, a, t)
           n == Len(c)
<1>1. Alike(c, d, n) /\ n \in Nat /\ Len(d) = n
  BY PatchedAlike
<1> HIDE DEF d
<1>2. \A i \in 1 .. n + 1 : Level(d, i) = Level(c, i)
  <2> HIDE DEF n
  <2> QED BY <1>1, AlikeLevel
<1>3. ASSUME NEW k \in 1 .. Len(o), o[k].kind # "atomic", NEW i \in o[k].at .. n + 1
      PROVE  Level(d, i) >= Level(d, o[k].at)
  <2>1. Level(c, i) >= Level(c, o[k].at)
    BY <1>3 DEF Within, Inside
  <2>2. i \in 1 .. n + 1 /\ o[k].at \in 1 .. n + 1
    BY <1>1, <1>3
  <2> QED BY <1>2, <2>1, <2>2
<1>4. Within(d, o)
  BY <1>1, <1>3 DEF Within, Inside
<1> QED BY <1>4 DEF d

\* The construct of a patched test is closed.
LEMMA PopSameJumps ==
  ASSUME NEW c \in Seq(Instr), NEW o \in Seq(Construct), SameJumps(c, o),
         o # <<>>, o[1].kind # "atomic" => Same(c, o[1].at, c[o[1].at].to)
  PROVE  SameJumps(c, Tail(o))
<1> SUFFICES ASSUME NEW i \in 1 .. Len(c), c[i].op \in {"if", "jump"}
             PROVE  Same(c, i, c[i].to) \/ Waits(Tail(o), i)
  BY DEF SameJumps
<1>1. i \in Nat
  BY LenProperties
<1>2. CASE o[1].kind # "atomic" /\ o[1].at = i
  BY <1>2
<1>3. CASE ~(o[1].kind # "atomic" /\ o[1].at = i)
  <2>1. Waits(o, i) => Waits(Tail(o), i)
    BY <1>1, <1>3, PopConstruct
  <2> QED BY <2>1 DEF SameJumps
<1> QED BY <1>2, <1>3

\* A construct is closed, or opened: the others were open before.
LEMMA PopFrom ==
  ASSUME NEW o \in Seq(Construct), o # <<>>, NEW a
  PROVE  From(o, Tail(o), a)
<1>1. /\ Len(Tail(o)) = Len(o) - 1 /\ Len(o) \in Nat \ {0}
      /\ \A i \in 1 .. Len(o) - 1 : Tail(o)[i] = o[i + 1]
  BY PopConstruct
<1>2. ASSUME NEW k \in 1 .. Len(Tail(o)) PROVE \E j \in 1 .. Len(o) : Tail(o)[k] = o[j]
  <2>1. k + 1 \in 1 .. Len(o) /\ Tail(o)[k] = o[k + 1]
    BY <1>1
  <2> QED BY <2>1
<1> QED BY <1>2 DEF From

LEMMA PushFrom ==
  ASSUME NEW o \in Seq(Construct), NEW k \in Construct, NEW a, k.kind # "atomic" => k.at = a
  PROVE  From(o, <<k>> \o o, a)
<1> DEFINE p == <<k>> \o o
<1>1. /\ Len(p) = Len(o) + 1 /\ p[1] = k
      /\ \A i \in 2 .. Len(o) + 1 : p[i] = o[i - 1]
  BY PushConstruct
<1>2. Len(o) \in Nat
  BY LenProperties
<1> HIDE DEF p
<1>3. ASSUME NEW j \in 1 .. Len(p), p[j].kind # "atomic"
      PROVE  p[j].at = a \/ \E l \in 1 .. Len(o) : p[j] = o[l]
  <2>1. CASE j = 1
    BY <1>1, <1>3, <2>1
  <2>2. CASE j # 1
    <3>1. j - 1 \in 1 .. Len(o) /\ p[j] = o[j - 1]
      BY <1>1, <1>2, <2>2
    <3> QED BY <3>1
  <2> QED BY <2>1, <2>2
<1>4. From(o, p, a)
  BY <1>3 DEF From
<1> QED BY <1>4 DEF p

\* A construct that is closed leaves the others as they are.
LEMMA WithinPop ==
  ASSUME NEW c, NEW o \in Seq(Construct), o # <<>>, Within(c, o)
  PROVE  Within(c, Tail(o))
<1>1. /\ Len(Tail(o)) = Len(o) - 1 /\ Len(o) \in Nat \ {0}
      /\ \A i \in 1 .. Len(o) - 1 : Tail(o)[i] = o[i + 1]
  BY PopConstruct
<1>2. ASSUME NEW k \in 1 .. Len(Tail(o)) PROVE Inside(c, Tail(o)[k])
  <2>1. k + 1 \in 1 .. Len(o) /\ Tail(o)[k] = o[k + 1]
    BY <1>1
  <2> QED BY <2>1 DEF Within
<1> QED BY <1>2 DEF Within

----------------------------------------------------------------------------
(* Every step of the parser keeps that *)

Sound(c, o) == Text(c) /\ SameJumps(c, o) /\ Within(c, o)

\* The list of the parser is that of the variables copied in the block.
Once(l) == \A i, j \in 1 .. Len(l) : l[i] = l[j] => i = j

Covers(c, l, n) ==
  n > 0 => {l[i] : i \in 1 .. Len(l)} = Since(c, Len(c) + 1) /\ Once(l)

\* One instruction is emitted that is not the end of a block.
LEMMA PieceOne ==
  ASSUME NEW c, NEW i \in Instr, i.op \notin {"commit", "exit"},
         i.op = "copy" => Level(c, Len(c) + 1) > 0
  PROVE  Piece(c, <<i>>) /\ <<i>> \in Seq(Instr) /\ Len(<<i>>) = 1 /\ <<i>>[1] = i
<1> DEFINE s == <<i>>
<1>1. s \in Seq(Instr) /\ Len(s) = 1 /\ s[1] = i /\ s # <<>>
  OBVIOUS
<1> HIDE DEF s
<1>2. Piece(c, s)
  BY <1>1 DEF Piece
<1> QED BY <1>1, <1>2 DEF s

\* The last brace and what is listed at it
LEMMA PieceExit ==
  ASSUME NEW c, NEW l \in Seq(Vars), Covers(c, l, 1)
  PROVE  /\ Piece(c, ExitCode(l, 0)) /\ ExitCode(l, 0)[1].op = "exit"
         /\ ExitCode(l, 0) \in Seq(Instr)
<1> DEFINE e == <<[op |-> "exit"]>>
           t == [i \in 1 .. Len(l) |-> [op |-> "commit", x |-> l[i]]]
           s == e \o t
<1>1. e \in Seq(Instr) /\ Len(e) = 1 /\ e[1].op = "exit"
  BY Instrs
<1>2. Len(l) \in Nat /\ \A i \in 1 .. Len(l) : l[i] \in Vars
  BY LenProperties, ElementOfSeq
<1>3. t \in Seq(Instr) /\ Len(t) = Len(l) /\ \A i \in 1 .. Len(l) : t[i].op = "commit" /\ t[i].x = l[i]
  <2>1. \A i \in 1 .. Len(l) : [op |-> "commit", x |-> l[i]] \in Instr
    BY <1>2, Instrs
  <2> QED BY <1>2, <2>1
<1>4. ExitCode(l, 0) = s
  BY DEF ExitCode
<1> HIDE DEF e, t
<1>5. /\ s \in Seq(Instr) /\ Len(s) = 1 + Len(l)
      /\ \A i \in 1 .. 1 : s[i] = e[i] /\ \A j \in 1 .. Len(l) : s[1 + j] = t[j]
  <2>1. /\ s \in Seq(Instr) /\ Len(s) = Len(e) + Len(t)
        /\ \A i \in 1 .. Len(e) : s[i] = e[i]
        /\ \A i \in 1 .. Len(t) : s[Len(e) + i] = t[i]
    BY <1>1, <1>3, ConcatAlike
  <2> QED BY <1>1, <1>3, <2>1
<1>6. s[1].op = "exit" /\ s # <<>>
  BY <1>1, <1>2, <1>5, EmptySeq
<1> HIDE DEF s
<1>7. ASSUME NEW i \in 2 .. Len(s)
      PROVE  i - 1 \in 1 .. Len(l) /\ s[i].op = "commit" /\ s[i].x = l[i - 1]
  <2>1. i - 1 \in 1 .. Len(l) /\ 1 + (i - 1) = i
    BY <1>2, <1>5
  <2>2. s[1 + (i - 1)] = t[i - 1]
    BY <1>5, <2>1
  <2> QED BY <1>3, <2>1, <2>2
<1>8. ASSUME NEW j \in 1 .. Len(l) PROVE j + 1 \in 2 .. Len(s) /\ s[j + 1].x = l[j]
  <2>1. j + 1 \in 2 .. Len(s) /\ (j + 1) - 1 = j
    BY <1>2, <1>5
  <2> QED BY <1>7, <2>1
<1>9. {s[i].x : i \in 2 .. Len(s)} = Since(c, Len(c) + 1)
  <2> DEFINE A == 2 .. Len(s)
             B == 1 .. Len(l)
  <2>1. /\ \A i \in A : i - 1 \in B /\ s[i].x = l[i - 1]
        /\ \A j \in B : j + 1 \in A /\ s[j + 1].x = l[j]
    BY <1>7, <1>8
  <2>2. {l[j] : j \in B} = Since(c, Len(c) + 1)
    BY DEF Covers
  <2> HIDE DEF A, B
  <2>3. {s[i].x : i \in A} = {l[j] : j \in B}
    BY <2>1
  <2> QED BY <2>2, <2>3 DEF A
<1>10. ASSUME NEW i \in 2 .. Len(s), NEW j \in 2 .. Len(s), i # j PROVE s[i].x # s[j].x
  <2>1. /\ i - 1 \in 1 .. Len(l) /\ s[i].x = l[i - 1]
        /\ j - 1 \in 1 .. Len(l) /\ s[j].x = l[j - 1]
    BY <1>7
  <2>2. i - 1 # j - 1
    BY <1>2, <1>5, <1>10
  <2> QED BY <2>1, <2>2 DEF Covers, Once
<1>11. Piece(c, s)
  BY <1>5, <1>6, <1>7, <1>9, <1>10 DEF Piece
<1> QED BY <1>4, <1>5, <1>6, <1>11

\* What one step of the parser emits keeps the code sound.
LEMMA SoundEmitted ==
  ASSUME NEW c, NEW o, NEW n, NEW D, NEW L, Placed(c, o, n, D, L), Sound(c, o),
         NEW s, Piece(c, s),
         NEW p, NEW m, NEW E, NEW M, Placed(c \o s, p, m, E, M), From(o, p, Len(c) + 1),
         \A i \in 1 .. Len(c) : Waits(o, i) => Waits(p, i),
         s[1].op \in {"if", "jump"} => Waits(p, Len(c) + 1)
  PROVE  Sound(c \o s, p)
<1>1. c \in Seq(Instr)
  BY PlacedFacts
<1>2. Text(c \o s)
  BY <1>1, TextGrown DEF Sound
<1>3. SameJumps(c \o s, p)
  BY <1>1, JumpsGrown DEF Sound
<1>4. Within(c \o s, p)
  BY <1>1, WithinGrown DEF Sound
<1> QED BY <1>2, <1>3, <1>4 DEF Sound

\* One instruction more
LEMMA SinceOne ==
  ASSUME NEW c \in Seq(Instr), NEW i \in Instr
  PROVE  Since(c \o <<i>>, Len(c \o <<i>>) + 1)
           = IF Brace(i) THEN {} ELSE IF i.op = "copy" THEN Since(c, Len(c) + 1) \cup {i.x}
             ELSE Since(c, Len(c) + 1)
<1> DEFINE s == <<i>>
           d == c \o s
<1>1. s \in Seq(Instr) /\ Len(s) = 1 /\ s[1] = i
  OBVIOUS
<1> HIDE DEF s
<1>2. /\ Alike(c, d, Len(c)) /\ Len(c) \in Nat /\ Len(d) = Len(c) + Len(s)
      /\ \A j \in 1 .. Len(s) : d[Len(c) + j] = s[j]
  BY <1>1, ConcatAlike
<1> HIDE DEF d
<1>3. d[Len(c) + 1] = i /\ Len(d) = Len(c) + 1
  BY <1>1, <1>2
<1>4. Since(d, Len(c) + 1) = Since(c, Len(c) + 1)
  <2>1. Len(c) + 1 \in 1 .. Len(c) + 1
    BY <1>2
  <2> QED BY <1>2, <2>1, AlikeSince
<1>5. Len(c) + 1 \in Nat \ {0}
  BY <1>2
<1> QED BY <1>3, <1>4, <1>5, SinceStep DEF d, s

Listing(l, x) == IF Contains(l, x) THEN l ELSE Append(l, x)

\* The list holds every variable once.
LEMMA ListingOnce ==
  ASSUME NEW l \in Seq(Vars), NEW x \in Vars, Once(l)
  PROVE  /\ Once(Listing(l, x))
         /\ {Listing(l, x)[i] : i \in 1 .. Len(Listing(l, x))}
              = {l[i] : i \in 1 .. Len(l)} \cup {x}
<1>1. CASE Contains(l, x)
  <2>1. PICK i \in 1 .. Len(l) : l[i] = x
    BY <1>1 DEF Contains
  <2>2. Listing(l, x) = l
    BY <1>1 DEF Listing
  <2>3. {l[j] : j \in 1 .. Len(l)} = {l[j] : j \in 1 .. Len(l)} \cup {x}
    BY <2>1
  <2> QED BY <2>2, <2>3
<1>2. CASE ~Contains(l, x)
  <2> DEFINE k == Append(l, x)
  <2>1. /\ Len(k) = Len(l) + 1 /\ Len(l) \in Nat
        /\ \A i \in 1 .. Len(l) : k[i] = l[i]
        /\ k[Len(l) + 1] = x
    BY AppendProperties, LenProperties
  <2>2. \A i \in 1 .. Len(l) : l[i] # x
    BY <1>2 DEF Contains
  <2> HIDE DEF k
  <2>3. Once(k)
    BY <2>1, <2>2 DEF Once
  <2>4. {k[i] : i \in 1 .. Len(k)} = {l[i] : i \in 1 .. Len(l)} \cup {x}
    <3>1. 1 .. Len(k) = (1 .. Len(l)) \cup {Len(l) + 1}
      BY <2>1
    <3> QED BY <2>1, <3>1
  <2>5. Listing(l, x) = k
    BY <1>2 DEF Listing, k
  <2> QED BY <2>3, <2>4, <2>5
<1> QED BY <1>1, <1>2

\* An assignment: in a block its variable joins the copied ones and the list.
LEMMA BecomesSound ==
  ASSUME NEW c, NEW o, NEW n, NEW D, NEW L, Placed(c, o, n, D, L), Sound(c, o),
         NEW l \in Seq(Vars), Covers(c, l, n), NEW i \in Instr,
         i.op = IF n > 0 THEN "copy" ELSE "store",
         NEW E, NEW M, Placed(c \o <<i>>, o, n, E, M)
  PROVE  /\ Sound(c \o <<i>>, o)
         /\ Covers(c \o <<i>>, IF n = 0 THEN l ELSE Listing(l, i.x), n)
<1>1. c \in Seq(Instr) /\ n \in Nat /\ Level(c, Len(c) + 1) = n
  BY PlacedFacts, LevelsPlaced
<1>2. Piece(c, <<i>>) /\ <<i>>[1] = i
  BY <1>1, PieceOne
<1>3. From(o, o, Len(c) + 1)
  BY DEF From
<1>4. Sound(c \o <<i>>, o)
  <2>1. <<i>>[1].op \notin {"if", "jump"}
    BY <1>2
  <2> QED BY <1>2, <1>3, <2>1, SoundEmitted
<1>5. ASSUME n > 0 PROVE Covers(c \o <<i>>, Listing(l, i.x), n)
  <2>1. i.op = "copy" /\ i.x \in Vars /\ ~Brace(i)
    BY <1>5, InstrFields DEF Brace
  <2>2. Since(c \o <<i>>, Len(c \o <<i>>) + 1) = Since(c, Len(c) + 1) \cup {i.x}
    BY <1>1, <2>1, SinceOne
  <2>3. {l[j] : j \in 1 .. Len(l)} = Since(c, Len(c) + 1) /\ Once(l)
    BY <1>5 DEF Covers
  <2>4. /\ Once(Listing(l, i.x))
        /\ {Listing(l, i.x)[j] : j \in 1 .. Len(Listing(l, i.x))}
             = {l[j] : j \in 1 .. Len(l)} \cup {i.x}
    BY <2>1, <2>3, ListingOnce
  <2> QED BY <2>2, <2>3, <2>4 DEF Covers
<1>6. n = 0 => Covers(c \o <<i>>, l, n)
  BY DEF Covers
<1> QED BY <1>1, <1>4, <1>5, <1>6

\* A construct that opens
LEMMA OpenSound ==
  ASSUME NEW c, NEW o, NEW n, NEW D, NEW L, Placed(c, o, n, D, L), Sound(c, o),
         NEW i \in Instr, NEW k \in Construct,
         \/ i.op = "enter" /\ k.kind = "atomic"
         \/ i.op = "if" /\ k.kind # "atomic" /\ k.at = Len(c) + 1,
         NEW m, NEW E, NEW M, Placed(c \o <<i>>, <<k>> \o o, m, E, M)
  PROVE  Sound(c \o <<i>>, <<k>> \o o)
<1>1. c \in Seq(Instr) /\ o \in Seq(Construct) /\ Len(c) \in Nat
  BY PlacedFacts
<1>2. Piece(c, <<i>>) /\ <<i>>[1] = i
  BY PieceOne
<1>3. From(o, <<k>> \o o, Len(c) + 1)
  BY <1>1, PushFrom
<1>4. \A j \in 1 .. Len(c) : Waits(o, j) => Waits(<<k>> \o o, j)
  <2>1. \A j \in Nat : Waits(o, j) => Waits(<<k>> \o o, j)
    BY <1>1, PushConstruct
  <2> QED BY <1>1, <2>1
<1>5. i.op = "if" => Waits(<<k>> \o o, Len(c) + 1)
  <2>1. k.kind # "atomic" => Waits(<<k>> \o o, k.at)
    BY <1>1, PushConstruct
  <2> QED BY <2>1
<1>6. <<i>>[1].op \in {"if", "jump"} => Waits(<<k>> \o o, Len(c) + 1)
  BY <1>2, <1>5
<1> QED BY <1>2, <1>3, <1>4, <1>6, SoundEmitted

OneLess(m, n) == m = n - 1

\* The end of a block
LEMMA ExitSound ==
  ASSUME NEW c, NEW o, NEW n, NEW D, NEW L, Placed(c, o, n, D, L), Sound(c, o), Plain(c),
         NEW l \in Seq(Vars), Covers(c, l, n), Inner(o, "atomic"),
         NEW m, OneLess(m, n), NEW E, NEW M, Placed(c \o ExitCode(l, m), Tail(o), m, E, M)
  PROVE  Sound(c \o ExitCode(l, m), Tail(o)) /\ m = 0
<1>1. /\ c \in Seq(Instr) /\ o \in Seq(Construct) /\ Len(c) \in Nat /\ n \in Nat /\ m \in Nat
      /\ m = n - 1
  BY PlacedFacts DEF OneLess
<1>2. m = 0 /\ n = 1
  <2>1. Level(c, Len(c) + 1) = n
    BY LevelsPlaced
  <2>2. Len(c) + 1 \in 1 .. Len(c) + 1
    BY <1>1
  <2>3. n <= 1
    BY <1>1, <2>1, <2>2, PlainLevel
  <2> QED BY <1>1, <2>3
<1>3. Piece(c, ExitCode(l, m)) /\ ExitCode(l, m)[1].op = "exit"
  <2>1. Covers(c, l, 1)
    BY <1>2
  <2>2. Piece(c, ExitCode(l, 0)) /\ ExitCode(l, 0)[1].op = "exit"
    BY <2>1, PieceExit
  <2> QED BY <1>2, <2>2
<1>4. o # <<>> /\ o[1].kind = "atomic"
  BY DEF Inner
<1>5. From(o, Tail(o), Len(c) + 1)
  BY <1>1, <1>4, PopFrom
<1>6. \A j \in 1 .. Len(c) : Waits(o, j) => Waits(Tail(o), j)
  <2>1. \A j \in Nat : Waits(o, j) => Waits(Tail(o), j)
    BY <1>1, <1>4, PopConstruct
  <2> QED BY <1>1, <2>1
<1>7. Sound(c \o ExitCode(l, m), Tail(o))
  <2>1. ExitCode(l, m)[1].op \notin {"if", "jump"}
    BY <1>3
  <2> HIDE DEF ExitCode
  <2> QED BY <1>3, <1>5, <1>6, <2>1, SoundEmitted
<1> QED BY <1>2, <1>7

\* The test of the construct that ends is patched to jump to t.
PatchedTo(c, o, t, d) == d = Patched(c, o[1].at, t)

LEMMA PatchSound ==
  ASSUME NEW c, NEW o, NEW n, NEW D, NEW L, Placed(c, o, n, D, L), Sound(c, o),
         TestInner(o), NEW t \in Nat, NEW d, PatchedTo(c, o, t, d)
  PROVE  /\ Sound(d, o) /\ Placed(d, o, n, D, L) /\ Len(d) = Len(c)
         /\ o[1].at \in 1 .. Len(c) /\ d[o[1].at].op = "if" /\ d[o[1].at].to = t
         /\ Level(d, o[1].at) = n /\ Alike(c, d, Len(c))
<1> DEFINE a == o[1].at
           p == Patched(c, a, t)
<1>1. c \in Seq(Instr) /\ o \in Seq(Construct) /\ Len(c) \in Nat
  BY PlacedFacts
<1>2. o # <<>> /\ o[1].kind # "atomic" /\ 1 \in 1 .. Len(o)
  BY <1>1, EmptySeq, LenProperties DEF TestInner
<1>3. a \in 1 .. Len(c) /\ c[a].op = "if"
  BY <1>2, LevelsBelow
<1>4. Placed(p, o, n, D, L) /\ Len(p) = Len(c)
  BY PatchKeeps
<1>5. Waits(o, a)
  BY <1>2 DEF Waits
<1>6. \A k \in 1 .. Len(o) : o[k].kind # "atomic" => o[k].at \in 1 .. Len(c)
  BY LevelsBelow
<1>0. d = p
  BY DEF PatchedTo
<1> HIDE DEF a
<1>7. Alike(c, p, Len(c)) /\ p[a].op = "if" /\ p[a].to = t
  BY <1>1, <1>3, PatchedAlike
<1>8. Text(p)
  BY <1>1, <1>3, TextPatched DEF Sound
<1>9. SameJumps(p, o)
  BY <1>1, <1>3, <1>5, JumpsPatched DEF Sound
<1>10. Within(p, o)
  BY <1>1, <1>3, <1>6, WithinPatched DEF Sound
<1> HIDE DEF p
<1>11. Level(p, o[1].at) = n
  BY <1>2, <1>4, LevelsBelow
<1>12. Sound(p, o)
  BY <1>8, <1>9, <1>10 DEF Sound
<1> QED BY <1>0, <1>3, <1>4, <1>7, <1>11, <1>12 DEF a

\* The test that ends jumps to behind its block.
LEMMA EndSound ==
  ASSUME NEW c, NEW o, NEW n, NEW D, NEW L, Placed(c, o, n, D, L), TestInner(o),
         Sound(c, o), Plain(c), c[o[1].at].to = Len(c) + 1
  PROVE  Sound(c, Tail(o)) /\ Same(c, o[1].at, Len(c) + 1)
<1>1. c \in Seq(Instr) /\ o \in Seq(Construct) /\ Len(c) \in Nat
  BY PlacedFacts
<1>2. o # <<>> /\ o[1].kind # "atomic" /\ 1 \in 1 .. Len(o)
  BY <1>1, EmptySeq, LenProperties DEF TestInner
<1>3. o[1].at \in 1 .. Len(c) /\ c[o[1].at].op = "if" /\ Level(c, o[1].at) = n
  BY <1>2, LevelsBelow
<1>4. /\ \A i \in 1 .. Len(c) + 1 : Level(c, i) \in Nat
      /\ Level(c, Len(c) + 1) = n
  BY LevelsPlaced
<1>5. Inside(c, o[1])
  BY <1>2 DEF Sound, Within
<1>6. Text(c) /\ SameJumps(c, o) /\ Within(c, o)
  BY DEF Sound
<1>7. Same(c, o[1].at, Len(c) + 1)
  BY <1>1, <1>2, <1>3, <1>4, <1>5, <1>6, EndSame
<1>8. SameJumps(c, Tail(o))
  BY <1>1, <1>2, <1>6, <1>7, PopSameJumps
<1>9. Within(c, Tail(o))
  BY <1>1, <1>2, <1>6, WithinPop
<1> QED BY <1>6, <1>7, <1>8, <1>9 DEF Sound

\* The end of an if
LEMMA IfEndSound ==
  ASSUME NEW c, NEW o, NEW n, NEW D, NEW L, Placed(c, o, n, D, L), Sound(c, o),
         Inner(o, "if"), NEW l, Covers(c, l, n),
         NEW d, PatchedTo(c, o, Len(c) + 1, d), Plain(d)
  PROVE  Sound(d, Tail(o)) /\ Covers(d, l, n)
<1>1. TestInner(o) /\ Len(c) \in Nat /\ Len(c) + 1 \in Nat
  BY PlacedFacts DEF Inner, TestInner
<1>2. /\ Sound(d, o) /\ Placed(d, o, n, D, L) /\ Len(d) = Len(c)
      /\ d[o[1].at].to = Len(c) + 1 /\ Alike(c, d, Len(c))
  BY <1>1, PatchSound
<1>3. Sound(d, Tail(o))
  BY <1>1, <1>2, EndSound
<1>4. Since(d, Len(d) + 1) = Since(c, Len(c) + 1)
  <2>1. Len(c) + 1 \in 1 .. Len(c) + 1
    BY <1>1
  <2> QED BY <1>1, <1>2, <2>1, AlikeSince
<1> QED BY <1>3, <1>4 DEF Covers

LoopsBack(d, i, e) == e = d \o <<i>>

\* The loop: its test jumps to behind the jump back, which stands at the end of
\* the same block.
LEMMA WhileEndSound ==
  ASSUME NEW c, NEW o, NEW n, NEW D, NEW L, Placed(c, o, n, D, L), Sound(c, o),
         Inner(o, "while"), NEW l, Covers(c, l, n),
         NEW d, PatchedTo(c, o, Len(c) + 2, d),
         NEW i \in Instr, i.op = "jump", i.to = o[1].at,
         NEW e, LoopsBack(d, i, e), Plain(e),
         NEW E, NEW M, Placed(e, Tail(o), n, E, M)
  PROVE  Sound(e, Tail(o)) /\ Covers(e, l, n)
<1> DEFINE a == o[1].at
<1>1. TestInner(o) /\ Len(c) \in Nat /\ Len(c) + 2 \in Nat
  BY PlacedFacts DEF Inner, TestInner
<1>2. /\ Sound(d, o) /\ Placed(d, o, n, D, L) /\ Len(d) = Len(c)
      /\ a \in 1 .. Len(c) /\ d[a].op = "if"
      /\ d[a].to = Len(c) + 2 /\ Level(d, a) = n /\ Alike(c, d, Len(c))
  BY <1>1, PatchSound
<1>3. d \in Seq(Instr) /\ o \in Seq(Construct) /\ o # <<>> /\ o[1].kind # "atomic"
      /\ 1 \in 1 .. Len(o)
  BY <1>1, <1>2, PlacedFacts, EmptySeq, LenProperties DEF TestInner
<1>4. Piece(d, <<i>>) /\ <<i>> \in Seq(Instr) /\ Len(<<i>>) = 1 /\ <<i>>[1] = i
  BY PieceOne
<1>5. /\ Alike(d, e, Len(d)) /\ Len(e) = Len(d) + 1 /\ e \in Seq(Instr)
      /\ \A j \in 1 .. Len(d) : e[j] = d[j]
      /\ e[Len(d) + 1] = i
  <2> DEFINE s == <<i>>
  <2>1. s \in Seq(Instr) /\ Len(s) = 1 /\ s[1] = i
    BY <1>4
  <2> HIDE DEF s
  <2>2. /\ Alike(d, d \o s, Len(d)) /\ d \o s \in Seq(Instr) /\ Len(d \o s) = Len(d) + Len(s)
        /\ \A j \in 1 .. Len(d) : (d \o s)[j] = d[j]
        /\ \A j \in 1 .. Len(s) : (d \o s)[Len(d) + j] = s[j]
    BY <1>3, <2>1, ConcatAlike
  <2>3. e = d \o s
    BY DEF s, LoopsBack
  <2> HIDE DEF s
  <2> QED BY <2>1, <2>2, <2>3
<1>6. e[a] = d[a] /\ e[a].op = "if" /\ e[a].to = Len(e) + 1 /\ Len(e) \in Nat
      /\ a \in 1 .. Len(e) + 1 /\ a \in 1 .. Len(e) /\ a \in Nat \ {0}
  BY <1>1, <1>2, <1>5
<1>7. /\ \A j \in 1 .. Len(e) + 1 : Level(e, j) \in Nat
      /\ Level(e, Len(e) + 1) = n
  BY LevelsPlaced
<1>8. Level(e, a) = n
  <2>1. a \in 1 .. Len(d) + 1 /\ Len(d) \in Nat
    BY <1>1, <1>2
  <2> QED BY <1>2, <1>5, <2>1, AlikeLevel
<1>9. Text(e)
  BY <1>2, <1>3, <1>4, TextGrown DEF Sound, LoopsBack
<1>10. Inside(e, o[1])
  <2>1. Inside(d, o[1])
    BY <1>2, <1>3 DEF Sound, Within
  <2>2. Level(e, o[1].at) <= Level(e, Len(e) + 1)
    <3>1. Level(e, a) = Level(e, Len(e) + 1) /\ Level(e, a) \in Nat
      BY <1>6, <1>7, <1>8
    <3> QED BY <3>1
  <2> QED BY <1>3, <1>4, <1>6, <2>1, <2>2, InsideGrown DEF LoopsBack
<1>11. Since(e, a) = Since(e, Len(e) + 1) /\ Same(e, a, Len(e) + 1)
  BY <1>3, <1>6, <1>7, <1>8, <1>9, <1>10, EndSame
<1>12. Since(e, Len(d) + 1) = Since(e, Len(e) + 1)
  <2>1. Len(d) + 1 \in Nat \ {0} /\ Len(e) + 1 = (Len(d) + 1) + 1
    BY <1>1, <1>2, <1>5
  <2>2. ~Brace(e[Len(d) + 1]) /\ e[Len(d) + 1].op # "copy"
    BY <1>5 DEF Brace
  <2> QED BY <2>1, <2>2, SinceStep
<1>13. Same(e, Len(d) + 1, i.to)
  BY <1>6, <1>11, <1>12 DEF Same
<1>14. SameJumps(e, o)
  <2>1. SameJumps(d, o) /\ \A j \in 1 .. Len(d) : Waits(o, j) => Waits(o, j)
    BY <1>2 DEF Sound
  <2>2. Same(d \o <<i>>, Len(d) + 1, <<i>>[1].to)
    BY <1>4, <1>13 DEF LoopsBack
  <2> QED BY <1>3, <1>4, <2>1, <2>2, JumpsGrown DEF LoopsBack
<1>15. SameJumps(e, Tail(o))
  BY <1>3, <1>5, <1>6, <1>11, <1>14, PopSameJumps
<1>16. Within(e, Tail(o))
  <2>1. From(o, Tail(o), Len(d) + 1)
    BY <1>3, PopFrom
  <2> QED BY <1>2, <1>3, <1>4, <2>1, WithinGrown DEF Sound, LoopsBack
<1>17. Since(e, Len(e) + 1) = Since(c, Len(c) + 1)
  <2>1. Len(c) + 1 \in 1 .. Len(c) + 1 /\ Len(d) + 1 = Len(c) + 1 /\ Len(d) \in Nat
    BY <1>1, <1>2
  <2>2. Since(d, Len(c) + 1) = Since(c, Len(c) + 1)
    BY <1>1, <1>2, <2>1, AlikeSince
  <2>3. Since(e, Len(c) + 1) = Since(d, Len(c) + 1)
    BY <1>5, <2>1, AlikeSince
  <2> QED BY <1>12, <2>1, <2>2, <2>3
<1>18. Covers(e, l, n)
  BY <1>17 DEF Covers
<1> QED BY <1>9, <1>15, <1>16, <1>18 DEF Sound

----------------------------------------------------------------------------
(* The code of a plain body, while it is parsed *)

CInv ==
  Plain(code) => /\ Sound(code, open)
                 /\ phase = "parse" => Covers(code, atomic_modified, atomic_counter)

\* What the state is made of
LEMMA PlacedState ==
  ASSUME IInv
  PROVE  /\ \E D, L \in [Nat -> Nat] : Placed(code, open, atomic_counter, D, L)
         /\ code \in Seq(Instr) /\ open \in Seq(Construct) /\ atomic_counter \in Nat
         /\ Len(code) \in Nat /\ atomic_modified \in Seq(Vars)
<1>1. PICK D \in [Nat -> Nat], L \in [Nat -> Nat] : Placed(code, open, atomic_counter, D, L)
  BY DEF IInv
<1>2. atomic_modified \in Seq(Vars)
  BY DEF IInv, Lists
<1> QED BY <1>1, <1>2, PlacedFacts

\* An assignment is parsed.
LEMMA BecomesCode ==
  ASSUME IInv, IInv', CInv, NEW x \in Vars, NEW v \in Val, ParseBecomes(x, v)
  PROVE  CInv'
<1> SUFFICES ASSUME Plain(code')
             PROVE  Sound(code', open') /\ Covers(code', atomic_modified', atomic_counter')
  BY DEF CInv
<1>1. PICK D \in [Nat -> Nat], L \in [Nat -> Nat] : Placed(code, open, atomic_counter, D, L)
  BY PlacedState
<1>2. /\ code \in Seq(Instr) /\ atomic_counter \in Nat /\ atomic_modified \in Seq(Vars)
  BY PlacedState
<1> DEFINE i == [op |-> IF atomic_counter > 0 THEN "copy" ELSE "store", x |-> x, v |-> v]
<1>3. i \in Instr /\ i.op = (IF atomic_counter > 0 THEN "copy" ELSE "store") /\ i.x = x
  <2>1. i = IF atomic_counter > 0 THEN [op |-> "copy", x |-> x, v |-> v]
                                  ELSE [op |-> "store", x |-> x, v |-> v]
    OBVIOUS
  <2> QED BY <2>1, Instrs
<1>4. code' = code \o <<i>> /\ open' = open /\ atomic_counter' = atomic_counter
      /\ phase = "parse"
  BY DEF ParseBecomes, history_store, Emit, Parsing
<1>5. atomic_modified' = IF atomic_counter = 0 THEN atomic_modified
                         ELSE Listing(atomic_modified, x)
  BY <1>2 DEF ParseBecomes, history_store, mark_atomic_modified, Listing
<1> HIDE DEF i
<1>6. PICK E \in [Nat -> Nat], M \in [Nat -> Nat] :
        Placed(code \o <<i>>, open, atomic_counter, E, M)
  BY <1>4 DEF IInv
<1>7. Plain(code)
  <2>1. <<i>> \in Seq(Instr) /\ Plain(code \o <<i>>)
    BY <1>3, <1>4
  <2> QED BY <1>2, <2>1, PlainGrown
<1>8. Sound(code, open) /\ Covers(code, atomic_modified, atomic_counter)
  BY <1>4, <1>7 DEF CInv
<1>9. /\ Sound(code \o <<i>>, open)
      /\ Covers(code \o <<i>>, IF atomic_counter = 0 THEN atomic_modified
                               ELSE Listing(atomic_modified, i.x), atomic_counter)
  BY <1>1, <1>2, <1>3, <1>6, <1>8, BecomesSound
<1> QED BY <1>3, <1>4, <1>5, <1>9

\* A block, an if or a while starts.
LEMMA OpenCode ==
  ASSUME IInv, IInv', CInv, ParseAtomic \/ ParseIf \/ ParseWhile
  PROVE  CInv'
<1> SUFFICES ASSUME Plain(code')
             PROVE  Sound(code', open') /\ Covers(code', atomic_modified', atomic_counter')
  BY DEF CInv
<1>1. PICK D \in [Nat -> Nat], L \in [Nat -> Nat] : Placed(code, open, atomic_counter, D, L)
  BY PlacedState
<1>2. /\ code \in Seq(Instr) /\ atomic_counter \in Nat /\ atomic_modified \in Seq(Vars)
      /\ Len(code) \in Nat
  BY PlacedState
<1>3. PICK i \in Instr, k \in Construct :
        /\ code' = code \o <<i>> /\ open' = <<k>> \o open /\ phase = "parse"
        /\ \/ /\ i.op = "enter" /\ k.kind = "atomic" /\ atomic_modified' = <<>>
           \/ /\ i.op = "if" /\ k.kind # "atomic" /\ k.at = Len(code) + 1
              /\ atomic_modified' = atomic_modified /\ atomic_counter' = atomic_counter
  <2>1. CASE ParseAtomic
    <3> DEFINE i == [op |-> "enter"]
               k == [kind |-> "atomic"]
    <3>1. i \in Instr /\ k \in Construct /\ i.op = "enter" /\ k.kind = "atomic"
      BY Instrs DEF Construct
    <3>2. /\ code' = code \o <<i>> /\ open' = <<k>> \o open /\ phase = "parse"
          /\ atomic_modified' = <<>>
      BY <2>1 DEF ParseAtomic, history_enter_atomic, Emit, Parsing
    <3> HIDE DEF i, k
    <3> QED BY <3>1, <3>2
  <2>2. ASSUME NEW kd \in {"if", "while"},
               /\ code' = code \o <<[op |-> "if", to |-> 0]>>
               /\ open' = <<[kind |-> kd, at |-> Len(code) + 1]>> \o open
               /\ phase = "parse"
               /\ atomic_modified' = atomic_modified /\ atomic_counter' = atomic_counter
        PROVE  \E i \in Instr, k \in Construct :
                 /\ code' = code \o <<i>> /\ open' = <<k>> \o open /\ phase = "parse"
                 /\ i.op = "if" /\ k.kind # "atomic" /\ k.at = Len(code) + 1
                 /\ atomic_modified' = atomic_modified /\ atomic_counter' = atomic_counter
    <3> DEFINE i == [op |-> "if", to |-> 0]
               k == [kind |-> kd, at |-> Len(code) + 1]
    <3>1. i \in Instr /\ i.op = "if"
      BY Instrs
    <3>2. k \in Construct /\ k.kind # "atomic" /\ k.at = Len(code) + 1
      <4>1. Len(code) \in Nat
        BY <1>2
      <4>2. Len(code) + 1 \in Nat
        BY <4>1
      <4> QED BY <4>2 DEF Construct
    <3>3. code' = code \o <<i>> /\ open' = <<k>> \o open
      BY <2>2
    <3> HIDE DEF i, k
    <3> QED BY <2>2, <3>1, <3>2, <3>3
  <2>3. CASE ParseIf
    <3>1. "if" \in {"if", "while"}
          /\ code' = code \o <<[op |-> "if", to |-> 0]>>
          /\ open' = <<[kind |-> "if", at |-> Len(code) + 1]>> \o open
          /\ phase = "parse"
          /\ atomic_modified' = atomic_modified /\ atomic_counter' = atomic_counter
      BY <2>3 DEF ParseIf, Emit, Parsing
    <3> QED BY <2>2, <3>1
  <2>4. CASE ParseWhile
    <3>1. "while" \in {"if", "while"}
          /\ code' = code \o <<[op |-> "if", to |-> 0]>>
          /\ open' = <<[kind |-> "while", at |-> Len(code) + 1]>> \o open
          /\ phase = "parse"
          /\ atomic_modified' = atomic_modified /\ atomic_counter' = atomic_counter
      BY <2>4 DEF ParseWhile, Emit, Parsing
    <3> QED BY <2>2, <3>1
  <2> QED BY <2>1, <2>3, <2>4
<1>4. PICK E \in [Nat -> Nat], M \in [Nat -> Nat] :
        Placed(code \o <<i>>, <<k>> \o open, atomic_counter', E, M)
  BY <1>3 DEF IInv
<1>5. Plain(code)
  <2>1. <<i>> \in Seq(Instr) /\ Plain(code \o <<i>>)
    BY <1>3
  <2> QED BY <1>2, <2>1, PlainGrown
<1>6. Sound(code, open) /\ Covers(code, atomic_modified, atomic_counter)
  BY <1>3, <1>5 DEF CInv
<1>7. Sound(code \o <<i>>, <<k>> \o open)
  BY <1>1, <1>3, <1>4, <1>6, OpenSound
<1>8. Covers(code', atomic_modified', atomic_counter')
  <2>1. CASE i.op = "enter" /\ atomic_modified' = <<>>
    <3>1. Since(code', Len(code') + 1) = {}
      BY <1>2, <1>3, <2>1, SinceOne DEF Brace
    <3>2. \A j \in 1 .. Len(<<>>) : FALSE
      OBVIOUS
    <3>3. {<<>>[j] : j \in 1 .. Len(<<>>)} = {} /\ Once(<<>>)
      BY <3>2 DEF Once
    <3> QED BY <2>1, <3>1, <3>3 DEF Covers
  <2>2. CASE i.op = "if" /\ atomic_modified' = atomic_modified /\ atomic_counter' = atomic_counter
    <3>1. Since(code', Len(code') + 1) = Since(code, Len(code) + 1)
      BY <1>2, <1>3, <2>2, SinceOne DEF Brace
    <3> QED BY <1>6, <2>2, <3>1 DEF Covers
  <2> QED BY <1>3, <2>1, <2>2
<1> QED BY <1>3, <1>7, <1>8

\* A block ends.
LEMMA AtomicEndCode ==
  ASSUME IInv, IInv', CInv, ParseAtomicEnd
  PROVE  CInv'
<1> SUFFICES ASSUME Plain(code')
             PROVE  Sound(code', open') /\ Covers(code', atomic_modified', atomic_counter')
  BY DEF CInv
<1>1. PICK D \in [Nat -> Nat], L \in [Nat -> Nat] : Placed(code, open, atomic_counter, D, L)
  BY PlacedState
<1>2. /\ code \in Seq(Instr) /\ atomic_counter \in Nat /\ atomic_modified \in Seq(Vars)
      /\ atomic_counter' \in Nat /\ open \in Seq(Construct)
  BY PlacedState DEF IInv, Placed, Marks
<1>3. /\ code' = code \o ExitCode(atomic_modified, atomic_counter')
      /\ open' = Tail(open) /\ atomic_counter' = atomic_counter - 1 /\ phase = "parse"
  <2>1. atomic_counter' = atomic_counter - 1
    BY DEF ParseAtomicEnd, history_exit_atomic
  <2> QED BY <2>1 DEF ParseAtomicEnd, history_exit_atomic, Emit, ExitCode, Parsing
<1>4. Inner(open, "atomic")
  <2>1. open # <<>> /\ Head(open).kind = "atomic"
    BY DEF ParseAtomicEnd
  <2>2. Head(open) = open[1]
    BY <1>2, <2>1, PopConstruct
  <2> QED BY <2>1, <2>2 DEF Inner
<1>5. PICK E \in [Nat -> Nat], M \in [Nat -> Nat] :
        Placed(code \o ExitCode(atomic_modified, atomic_counter'), Tail(open), atomic_counter', E, M)
  BY <1>3 DEF IInv
<1>6. Plain(code)
  <2>1. ExitCode(atomic_modified, atomic_counter') \in Seq(Instr)
    BY <1>2, ExitEmitted DEF Emitted
  <2>2. Plain(code \o ExitCode(atomic_modified, atomic_counter'))
    BY <1>3
  <2> QED BY <1>2, <2>1, <2>2, PlainGrown
<1>7. Sound(code, open) /\ Covers(code, atomic_modified, atomic_counter)
  BY <1>3, <1>6 DEF CInv
<1>8. Sound(code \o ExitCode(atomic_modified, atomic_counter'), Tail(open)) /\ atomic_counter' = 0
  <2>1. OneLess(atomic_counter', atomic_counter)
    BY <1>3 DEF OneLess
  <2>2. atomic_modified \in Seq(Vars)
    BY <1>2
  <2> QED BY <1>1, <1>4, <1>5, <1>6, <1>7, <2>1, <2>2, ExitSound
<1>9. Covers(code', atomic_modified', atomic_counter')
  BY <1>8 DEF Covers
<1> QED BY <1>3, <1>8, <1>9

\* Positions within the code
LEMMA Between ==
  ASSUME NEW n \in Nat, NEW i \in 1 .. n
  PROVE  i \in 1 .. n + 1 /\ i + 1 \in 1 .. n + 1 /\ i \in Nat \ {0}
OBVIOUS

\* Positions behind the end
LEMMA Beyond ==
  ASSUME NEW n \in Nat
  PROVE  n + 1 \in Nat /\ n + 1 > n /\ n + 2 \in Nat /\ n + 2 > n
OBVIOUS

\* An if or a while ends.
LEMMA TestEndCode ==
  ASSUME IInv, IInv', CInv, ParseIfEnd \/ ParseWhileEnd
  PROVE  CInv'
<1> SUFFICES ASSUME Plain(code')
             PROVE  Sound(code', open') /\ Covers(code', atomic_modified', atomic_counter')
  BY DEF CInv
<1>1. PICK D \in [Nat -> Nat], L \in [Nat -> Nat] : Placed(code, open, atomic_counter, D, L)
  BY PlacedState
<1>2. /\ code \in Seq(Instr) /\ atomic_counter \in Nat
      /\ open \in Seq(Construct) /\ Len(code) \in Nat
  BY PlacedState
<1>3. /\ open # <<>> /\ open' = Tail(open) /\ atomic_counter' = atomic_counter
      /\ atomic_modified' = atomic_modified /\ phase = "parse"
  BY DEF ParseIfEnd, ParseWhileEnd, Parsing
<1>4. Head(open) = open[1]
  BY <1>2, <1>3, PopConstruct
<1> DEFINE a == open[1].at
<1>5. TestInner(open)
  BY <1>3, <1>4 DEF ParseIfEnd, ParseWhileEnd, TestInner
<1>6. a \in 1 .. Len(code) /\ code[a].op = "if"
  <2>1. 1 \in 1 .. Len(open) /\ open[1].kind # "atomic"
    BY <1>2, <1>3, <1>5, EmptySeq, LenProperties DEF TestInner
  <2>2. /\ open[1].at \in 1 .. Len(code) /\ code[open[1].at].op = "if"
    BY <1>1, <2>1, LevelsBelow, ZenonT(30)
  <2> QED BY <2>2
<1> HIDE DEF a
<1>7. ASSUME NEW t \in Nat, t > Len(code), Plain(Patched(code, a, t))
      PROVE  Sound(code, open) /\ Covers(code, atomic_modified, atomic_counter)
  <2>1. Plain(code)
    BY <1>2, <1>6, <1>7, PlainPatched
  <2> QED BY <1>3, <2>1 DEF CInv
<1>8. CASE ParseIfEnd
  <2> DEFINE t == Len(code) + 1
  <2>1. t \in Nat /\ t > Len(code)
    <3>1. Len(code) \in Nat
      BY <1>2
    <3>2. Len(code) + 1 \in Nat /\ Len(code) + 1 > Len(code)
      BY <3>1, Beyond, Zenon
    <3> QED BY <3>2
  <2>2. code' = Patched(code, a, t)
    BY <1>4, <1>8 DEF ParseIfEnd, Patched, a
  <2>3. Inner(open, "if")
    BY <1>3, <1>4, <1>8 DEF ParseIfEnd, Inner
  <2>4. PatchedTo(code, open, t, code')
    BY <2>2 DEF PatchedTo, a
  <2> HIDE DEF t
  <2>5. Sound(code, open) /\ Covers(code, atomic_modified, atomic_counter)
    BY <1>7, <2>1, <2>2
  <2>6. Sound(code', Tail(open)) /\ Covers(code', atomic_modified, atomic_counter)
    BY <1>1, <2>3, <2>4, <2>5, IfEndSound DEF t
  <2> QED BY <1>3, <2>6
<1>9. CASE ParseWhileEnd
  <2> DEFINE t == Len(code) + 2
             d == Patched(code, a, t)
             i == [op |-> "jump", to |-> a]
  <2>1. t \in Nat /\ t > Len(code) /\ a \in Nat
    <3>1. Len(code) \in Nat
      BY <1>2
    <3>2. a \in 1 .. Len(code)
      BY <1>6
    <3>3. Len(code) + 2 \in Nat /\ Len(code) + 2 > Len(code)
      BY <3>1, Beyond, Zenon
    <3>4. a \in Nat
      BY <3>1, <3>2
    <3> QED BY <3>3, <3>4
  <2>2. code' = Append(d, i)
    BY <1>4, <1>9 DEF ParseWhileEnd, Patched, a
  <2>3. Inner(open, "while")
    BY <1>3, <1>4, <1>9 DEF ParseWhileEnd, Inner
  <2>4. i \in Instr /\ i.op = "jump" /\ i.to = open[1].at
    BY <2>1, Instrs DEF a
  <2>5. PatchedTo(code, open, t, d)
    BY DEF PatchedTo, a
  <2> HIDE DEF t, i
  <2>6. d \in Seq(Instr)
    BY <1>2, <1>6, <2>1, PatchedCode
  <2>0. Plain(d) => Sound(code, open) /\ Covers(code, atomic_modified, atomic_counter)
    BY <1>7, <2>1
  <2> HIDE DEF d
  <2>7. code' = d \o <<i>> /\ LoopsBack(d, i, code') /\ <<i>> \in Seq(Instr)
    <3>1. <<i>> \in Seq(Instr)
      BY <2>4
    <3>2. Append(d, i) = d \o <<i>>
      BY <2>4, <2>6, AppendIsConcat
    <3>3. code' = d \o <<i>>
      BY <2>2, <3>2
    <3> QED BY <3>1, <3>3 DEF LoopsBack
  <2>8. Plain(d)
    BY <2>6, <2>7, PlainGrown
  <2>9. PICK E \in [Nat -> Nat], M \in [Nat -> Nat] :
          Placed(code', Tail(open), atomic_counter, E, M)
    BY <1>3 DEF IInv
  <2>10. Sound(code', Tail(open)) /\ Covers(code', atomic_modified, atomic_counter)
    BY <1>1, <2>0, <2>3, <2>4, <2>5, <2>7, <2>8, <2>9, WhileEndSound DEF t
  <2> QED BY <1>3, <2>10
<1> QED BY <1>8, <1>9

----------------------------------------------------------------------------
(* The run of a plain body *)

\* A commit that comes next brings a variable up to date with the source; while
\* a block is open the copies are what the source has assigned so far.
Follows(i, y) ==
  /\ IF y \in DueVars(code, i) THEN want[y] = Push(hist[y], cpy[y]) ELSE hist[y] = want[y]
  /\ IF y \in Since(code, i) THEN pend[y] = cpy[y] ELSE pend[y] = None

RInv ==
  /\ phase = "parse" => pc = 1 /\ hist = want /\ pend = [y \in Vars |-> None]
  /\ Plain(code) /\ phase # "parse" => \A y \in Vars : Follows(pc, y)
  /\ phase = "done" => pc = Len(code) + 1

\* Where no commit comes next
LEMMA NoDue ==
  ASSUME NEW c, NEW i \in Nat, i <= Len(c) => c[i].op # "commit"
  PROVE  Due(c, i) = {} /\ DueVars(c, i) = {}
<1>1. ASSUME NEW j \in Due(c, i) PROVE FALSE
  <2>1. j \in i .. Len(c) /\ \A l \in i .. j : c[l].op = "commit"
    BY DEF Due
  <2>2. i \in i .. j /\ i <= Len(c)
    BY <2>1
  <2> QED BY <2>1, <2>2
<1>2. Due(c, i) = {}
  BY <1>1
<1> QED BY <1>2 DEF DueVars

\* Commits stand behind an exit or a commit.
LEMMA NoDueBehind ==
  ASSUME NEW c, Text(c), NEW n \in Nat, n = Len(c), NEW i \in 1 .. n, c[i].op \notin {"exit", "commit"}
  PROVE  DueVars(c, i + 1) = {}
<1>1. i + 1 \in Nat /\ (i + 1) - 1 = i /\ i + 1 > 1
  OBVIOUS
<1>2. i + 1 <= Len(c) => c[i + 1].op # "commit"
  <2>1. i + 1 <= Len(c) => i + 1 \in 1 .. Len(c)
    OBVIOUS
  <2> QED BY <1>1, <2>1 DEF Text
<1> QED BY <1>1, <1>2, NoDue

\* A commit is of one variable; the ones behind it are of others.
LEMMA DueStep ==
  ASSUME NEW c, Text(c), NEW n \in Nat, n = Len(c), NEW i \in 1 .. n, c[i].op = "commit"
  PROVE  /\ DueVars(c, i) = DueVars(c, i + 1) \cup {c[i].x}
         /\ c[i].x \notin DueVars(c, i + 1)
<1>1. ASSUME NEW j PROVE j \in Due(c, i) <=> j = i \/ j \in Due(c, i + 1)
  <2>1. ASSUME j \in Due(c, i), j # i PROVE j \in Due(c, i + 1)
    BY <2>1 DEF Due
  <2>2. ASSUME j \in Due(c, i + 1) PROVE j \in Due(c, i)
    <3>1. j \in i + 1 .. Len(c) /\ \A l \in i + 1 .. j : c[l].op = "commit"
      BY <2>2 DEF Due
    <3>2. \A l \in i .. j : l = i \/ l \in i + 1 .. j
      BY <3>1
    <3>3. j \in i .. Len(c)
      BY <3>1
    <3> QED BY <3>1, <3>2, <3>3 DEF Due
  <2>3. i \in Due(c, i)
    BY DEF Due
  <2> QED BY <2>1, <2>2, <2>3
<1>2. Due(c, i) = Due(c, i + 1) \cup {i}
  BY <1>1
<1>3. i \notin Due(c, i + 1)
  BY DEF Due
<1>4. \A j \in Due(c, i) : j # i => c[j].x # c[i].x
  BY DEF Text
<1> QED BY <1>2, <1>3, <1>4 DEF DueVars

\* What holds of the code when it runs
LEMMA RunFacts ==
  ASSUME IInv, CInv, RInv, Plain(code), NEW op, At(op)
  PROVE  /\ Text(code) /\ Plain(code) /\ Len(code) \in Nat /\ pc \in 1 .. Len(code)
         /\ pc \in Nat \ {0} /\ code[pc] \in Instr /\ code[pc].op = op /\ Values
         /\ \A y \in Vars : Follows(pc, y)
         /\ phase = "run"
<1>1. code[pc] \in Instr /\ code[pc].op = op /\ pc \in 1 .. Len(code) /\ Values
  BY InstructionAt
<1>2. Text(code)
  BY DEF CInv, Sound
<1>3. phase = "run" /\ \A y \in Vars : Follows(pc, y)
  BY DEF At, RInv
<1>4. Len(code) \in Nat
  BY PlacedState
<1>5. pc \in Nat \ {0}
  BY <1>1, <1>4
<1> QED BY <1>1, <1>2, <1>3, <1>4, <1>5

\* A step that changes no variable, to where the same variables were copied
LEMMA QuietRun ==
  ASSUME \A y \in Vars : Follows(pc, y), UNCHANGED <<code, hist, cpy, pend, want>>,
         DueVars(code, pc) = {}, DueVars(code, pc') = {}, Since(code, pc') = Since(code, pc)
  PROVE  \A y \in Vars : Follows(pc, y)'
<1> TAKE y \in Vars
<1>1. Follows(pc, y)
  OBVIOUS
<1>2. hist[y] = want[y] /\ IF y \in Since(code, pc) THEN pend[y] = cpy[y] ELSE pend[y] = None
  BY <1>1 DEF Follows
<1> QED BY <1>2 DEF Follows

\* Outside of blocks a variable and the source change together.
LEMMA StoreRun ==
  ASSUME IInv, CInv, RInv, Plain(code), RunStore
  PROVE  \A y \in Vars : Follows(pc, y)'
<1>1. /\ Text(code) /\ Len(code) \in Nat /\ pc \in 1 .. Len(code) /\ pc \in Nat \ {0}
      /\ code[pc] \in Instr /\ code[pc].op = "store" /\ Values /\ \A y \in Vars : Follows(pc, y)
  BY RunFacts DEF RunStore
<1>2. DueVars(code, pc) = {} /\ DueVars(code, pc + 1) = {}
  BY <1>1, NoDue, NoDueBehind
<1>3. Since(code, pc + 1) = Since(code, pc)
  BY <1>1, SinceStep DEF Brace
<1>4. code' = code /\ pc' = pc + 1 /\ cpy' = cpy /\ pend' = pend
      /\ hist' = [hist EXCEPT ![code[pc].x] = Push(@, code[pc].v)]
      /\ want' = [want EXCEPT ![code[pc].x] = Push(@, code[pc].v)]
  BY DEF RunStore, comp
<1>5. ASSUME NEW y \in Vars PROVE hist[y] = want[y] => hist'[y] = want'[y]
  <2>1. hist \in [Vars -> [0..Depth -> Val]] /\ want \in [Vars -> [0..Depth -> Val]]
    BY <1>1 DEF Values
  <2> QED BY <1>4, <2>1
<1> TAKE y \in Vars
<1>6. hist[y] = want[y] /\ IF y \in Since(code, pc) THEN pend[y] = cpy[y] ELSE pend[y] = None
  BY <1>1, <1>2 DEF Follows
<1> QED BY <1>2, <1>3, <1>4, <1>5, <1>6 DEF Follows

\* In a block the copy and what is pending do.
LEMMA CopyRun ==
  ASSUME IInv, CInv, RInv, Plain(code), RunCopy
  PROVE  \A y \in Vars : Follows(pc, y)'
<1>1. /\ Text(code) /\ Len(code) \in Nat /\ pc \in 1 .. Len(code) /\ pc \in Nat \ {0}
      /\ code[pc] \in Instr /\ code[pc].op = "copy" /\ Values /\ \A y \in Vars : Follows(pc, y)
  BY RunFacts DEF RunCopy
<1>2. DueVars(code, pc) = {} /\ DueVars(code, pc + 1) = {}
  BY <1>1, NoDue, NoDueBehind
<1>3. Since(code, pc + 1) = Since(code, pc) \cup {code[pc].x}
  BY <1>1, SinceStep DEF Brace
<1>4. code' = code /\ pc' = pc + 1 /\ hist' = hist /\ want' = want
      /\ cpy' = [cpy EXCEPT ![code[pc].x] = code[pc].v]
      /\ pend' = [pend EXCEPT ![code[pc].x] = code[pc].v]
  BY DEF RunCopy, comp
<1> TAKE y \in Vars
<1>5. cpy'[y] = (IF y = code[pc].x THEN code[pc].v ELSE cpy[y])
      /\ pend'[y] = (IF y = code[pc].x THEN code[pc].v ELSE pend[y])
  <2>1. cpy \in [Vars -> Val] /\ pend \in [Vars -> Val \cup {None}]
    BY <1>1 DEF Values
  <2> QED BY <1>4, <2>1
<1>6. hist[y] = want[y] /\ IF y \in Since(code, pc) THEN pend[y] = cpy[y] ELSE pend[y] = None
  BY <1>1, <1>2 DEF Follows
<1> QED BY <1>2, <1>3, <1>4, <1>5, <1>6 DEF Follows

\* A commit brings its variable up to date.
LEMMA CommitRun ==
  ASSUME IInv, CInv, RInv, Plain(code), RunCommit
  PROVE  \A y \in Vars : Follows(pc, y)'
<1> DEFINE x == code[pc].x
<1>1. /\ Text(code) /\ Len(code) \in Nat /\ pc \in 1 .. Len(code) /\ pc \in Nat \ {0}
      /\ code[pc] \in Instr /\ code[pc].op = "commit" /\ Values /\ \A y \in Vars : Follows(pc, y)
  BY RunFacts DEF RunCommit
<1>2. DueVars(code, pc) = DueVars(code, pc + 1) \cup {x} /\ x \notin DueVars(code, pc + 1)
  BY <1>1, DueStep
<1>3. Since(code, pc + 1) = Since(code, pc)
  BY <1>1, SinceStep DEF Brace
<1>4. code' = code /\ pc' = pc + 1 /\ cpy' = cpy /\ pend' = pend /\ want' = want
      /\ hist' = [hist EXCEPT ![x] = Push(@, cpy[x])]
  BY DEF RunCommit, comp, src
<1> TAKE y \in Vars
<1>5. hist'[y] = IF y = x THEN Push(hist[x], cpy[x]) ELSE hist[y]
  <2>1. hist \in [Vars -> [0..Depth -> Val]]
    BY <1>1 DEF Values
  <2> QED BY <1>4, <2>1
<1>6. Follows(pc, y)
  BY <1>1
<1> HIDE DEF x
<1>7. CASE y = x
  BY <1>2, <1>3, <1>4, <1>5, <1>6, <1>7 DEF Follows
<1>8. CASE y # x
  BY <1>2, <1>3, <1>4, <1>5, <1>6, <1>8 DEF Follows
<1> QED BY <1>7, <1>8

\* Jumps go to where the same variables were copied.
LEMMA JumpRun ==
  ASSUME IInv, CInv, RInv, Plain(code), RunRecopy \/ RunIf \/ RunJump
  PROVE  \A y \in Vars : Follows(pc, y)'
<1>1. PICK op \in {"recopy", "if", "jump"} : At(op)
  BY DEF RunRecopy, RunIf, RunJump
<1>2. /\ Text(code) /\ Len(code) \in Nat /\ pc \in 1 .. Len(code) /\ pc \in Nat \ {0}
      /\ code[pc] \in Instr /\ code[pc].op = op /\ \A y \in Vars : Follows(pc, y)
  BY <1>1, RunFacts
<1>3. UNCHANGED <<code, hist, cpy, pend, want>>
  BY DEF RunRecopy, RunIf, RunJump, comp, mach, src
<1>4. DueVars(code, pc) = {}
  BY <1>2, NoDue
<1>5. CASE pc' = pc + 1
  <2>1. DueVars(code, pc + 1) = {}
    BY <1>2, NoDueBehind
  <2>2. Since(code, pc + 1) = Since(code, pc)
    BY <1>2, SinceStep DEF Brace
  <2> QED BY <1>2, <1>3, <1>4, <1>5, <2>1, <2>2, QuietRun
<1>6. CASE pc' # pc + 1
  <2>1. code[pc].op \in {"if", "jump"} /\ pc' = code[pc].to
    BY <1>6 DEF RunRecopy, RunIf, RunJump, At
  <2>2. SameJumps(code, open) /\ open = <<>>
    BY <1>1, InstructionAt DEF CInv, Sound
  <2>3. Same(code, pc, pc')
    <3>1. ~Waits(open, pc)
      BY <2>2 DEF Waits
    <3> QED BY <1>2, <2>1, <2>2, <3>1 DEF SameJumps
  <2>4. pc' \in Nat /\ Since(code, pc') = Since(code, pc)
        /\ (pc' <= Len(code) => code[pc'].op # "commit")
    BY <1>2, <2>3 DEF Same
  <2>5. DueVars(code, pc') = {}
    BY <2>4, NoDue
  <2> QED BY <1>2, <1>3, <1>4, <2>4, <2>5, QuietRun
<1> QED BY <1>5, <1>6

\* The braces of a block in plain code
LEMMA BraceLevel ==
  ASSUME IInv, Plain(code), NEW op, At(op)
  PROVE  /\ op = "enter" => Level(code, pc) = 0
         /\ op = "exit" => depth = 1
<1>1. PICK D \in [Nat -> Nat], L \in [Nat -> Nat] :
        Placed(code, open, atomic_counter, D, L) /\ Stands(D)
  BY DEF IInv
<1>2. Len(code) \in Nat
  BY PlacedState
<1>3. \A i \in 1 .. Len(code) + 1 : D[i] = Level(code, i) /\ Level(code, i) \in Nat
  BY <1>1, LevelsPlaced
<1>4. pc \in 1 .. Len(code) + 1 /\ pc + 1 \in 1 .. Len(code) + 1 /\ pc \in Nat \ {0}
  <2>1. pc \in 1 .. Len(code)
    BY InstructionAt
  <2> QED BY <1>2, <2>1, Between, Zenon
<1>5. Level(code, pc) <= 1 /\ Level(code, pc + 1) <= 1
  BY <1>2, <1>4, PlainLevel
<1>6. Level(code, pc + 1) = Level(code, pc) + Change(code[pc])
  BY <1>4, LevelStep
<1>7. depth = Level(code, pc) /\ Level(code, pc) \in Nat /\ Level(code, pc + 1) \in Nat
  BY <1>1, <1>3, <1>4 DEF Stands
<1>8. Change(code[pc]) = IF op = "enter" THEN 1 ELSE IF op = "exit" THEN -1 ELSE 0
  <2>1. code[pc].op = op
    BY InstructionAt
  <2> QED BY <2>1 DEF Change
<1>9. ASSUME op = "enter" PROVE Level(code, pc) = 0
  <2>1. Change(code[pc]) = 1
    BY <1>8, <1>9
  <2> QED BY <1>5, <1>6, <1>7, <2>1
<1>10. ASSUME op = "exit" PROVE depth = 1
  <2>1. Change(code[pc]) = -1
    BY <1>8, <1>10
  <2> QED BY <1>5, <1>6, <1>7, <2>1
<1> QED BY <1>9, <1>10

\* Nothing waits where a block starts.
LEMMA EnterRun ==
  ASSUME IInv, CInv, RInv, Plain(code), RunEnter
  PROVE  \A y \in Vars : Follows(pc, y)'
<1>1. /\ Text(code) /\ Len(code) \in Nat /\ pc \in 1 .. Len(code) /\ pc \in Nat \ {0}
      /\ code[pc] \in Instr /\ code[pc].op = "enter" /\ \A y \in Vars : Follows(pc, y)
  BY RunFacts DEF RunEnter
<1>2. DueVars(code, pc) = {} /\ DueVars(code, pc + 1) = {}
  BY <1>1, NoDue, NoDueBehind
<1>3. Since(code, pc) = {}
  <2>1. Level(code, pc) = 0 /\ pc \in 1 .. Len(code) + 1
    BY <1>1, BraceLevel DEF RunEnter
  <2> QED BY <1>1, <2>1, SinceOutside
<1>4. Since(code, pc + 1) = {}
  BY <1>1, SinceStep DEF Brace
<1>5. UNCHANGED <<code, hist, cpy, pend, want>> /\ pc' = pc + 1
  BY DEF RunEnter, comp, mach
<1> QED BY <1>1, <1>2, <1>3, <1>4, <1>5, QuietRun

\* Where the source commits, the variables of the block become due.
LEMMA ExitRun ==
  ASSUME IInv, CInv, RInv, Plain(code), RunExit
  PROVE  \A y \in Vars : Follows(pc, y)'
<1>1. /\ Text(code) /\ Len(code) \in Nat /\ pc \in 1 .. Len(code) /\ pc \in Nat \ {0}
      /\ code[pc] \in Instr /\ code[pc].op = "exit" /\ Values /\ \A y \in Vars : Follows(pc, y)
  BY RunFacts DEF RunExit
<1>2. DueVars(code, pc) = {}
  BY <1>1, NoDue
<1>3. DueVars(code, pc + 1) = Since(code, pc)
  BY <1>1 DEF Text
<1>4. Since(code, pc + 1) = {}
  BY <1>1, SinceStep DEF Brace
<1>5. depth = 1
  BY BraceLevel DEF RunExit
<1>6. /\ code' = code /\ pc' = pc + 1 /\ hist' = hist /\ cpy' = cpy
      /\ want' = [y \in Vars |-> IF pend[y] = None THEN want[y] ELSE Push(want[y], pend[y])]
      /\ pend' = [y \in Vars |-> None]
  BY <1>5 DEF RunExit, comp, mach
<1> TAKE y \in Vars
<1>7. hist[y] = want[y] /\ IF y \in Since(code, pc) THEN pend[y] = cpy[y] ELSE pend[y] = None
  BY <1>1, <1>2 DEF Follows
<1>8. cpy[y] # None
  <2>1. cpy \in [Vars -> Val]
    BY <1>1 DEF Values
  <2>2. cpy[y] \in Val
    BY <2>1
  <2> QED BY <2>2, NoneAssumption
<1>9. pend'[y] = None /\ want'[y] = IF pend[y] = None THEN want[y] ELSE Push(want[y], pend[y])
  BY <1>6
<1>10. CASE y \in Since(code, pc)
  BY <1>3, <1>4, <1>6, <1>7, <1>8, <1>9, <1>10 DEF Follows
<1>11. CASE y \notin Since(code, pc)
  BY <1>3, <1>4, <1>6, <1>7, <1>9, <1>11 DEF Follows
<1> QED BY <1>10, <1>11

\* The run starts with nothing copied and nothing due.
LEMMA FuncEndRun ==
  ASSUME IInv, CInv, RInv, Plain(code), ParseFuncEnd
  PROVE  \A y \in Vars : Follows(pc, y)'
<1>1. phase = "parse" /\ code' = code /\ pc' = pc /\ UNCHANGED <<hist, cpy, pend, want>>
  BY DEF ParseFuncEnd, Parsing, comp, mach, src
<1>2. pc = 1 /\ hist = want /\ pend = [y \in Vars |-> None] /\ Text(code) /\ Len(code) \in Nat
  BY <1>1, PlacedState DEF RInv, CInv, Sound
<1>3. Since(code, 1) = {}
  BY DEF Since, CopiedAt
<1>4. DueVars(code, 1) = {}
  <2>1. 1 <= Len(code) => code[1].op # "commit"
    BY <1>2 DEF Text
  <2> QED BY <2>1, NoDue
<1> QED BY <1>1, <1>2, <1>3, <1>4 DEF Follows

\* Nothing is emitted, nothing has run.
LEMMA InitCode == Init => CInv /\ RInv
<1> SUFFICES ASSUME Init PROVE CInv /\ RInv
  OBVIOUS
<1>1. code = <<>> /\ open = <<>> /\ atomic_counter = 0 /\ phase = "parse"
      /\ pc = 1 /\ hist = want /\ pend = [y \in Vars |-> None]
  BY DEF Init
<1>2. Len(code) = 0 /\ Len(open) = 0
  BY <1>1
<1>3. Sound(code, open)
  BY <1>2 DEF Sound, Text, SameJumps, Within
<1>4. Covers(code, atomic_modified, atomic_counter)
  BY <1>1 DEF Covers
<1> QED BY <1>1, <1>3, <1>4 DEF CInv, RInv

\* The steps of the parser leave the variables alone, those of the machine the code.
Parses ==
  \/ \E x \in Vars, v \in Val : ParseBecomes(x, v)
  \/ ParseAtomic \/ ParseAtomicEnd \/ ParseIf \/ ParseIfEnd \/ ParseWhile \/ ParseWhileEnd

\* A step of the parser
LEMMA ParseCode ==
  ASSUME IInv, IInv', CInv, RInv, Parses
  PROVE  CInv' /\ RInv'
<1>1. CInv'
  BY BecomesCode, OpenCode, AtomicEndCode, TestEndCode DEF Parses
<1>2. phase = "parse" /\ phase' = "parse" /\ UNCHANGED <<pc, mach, src>>
  <2>1. ASSUME NEW x \in Vars, NEW v \in Val, ParseBecomes(x, v)
        PROVE  phase = "parse" /\ phase' = "parse" /\ UNCHANGED <<pc, mach, src>>
    BY <2>1 DEF ParseBecomes, Parsing
  <2>2. CASE ParseAtomic \/ ParseAtomicEnd \/ ParseIf \/ ParseIfEnd \/ ParseWhile \/ ParseWhileEnd
    BY <2>2 DEF ParseAtomic, ParseAtomicEnd, ParseIf, ParseIfEnd, ParseWhile,
                ParseWhileEnd, Parsing
  <2> QED BY <2>1, <2>2 DEF Parses
<1>3. RInv'
  BY <1>2 DEF RInv, mach, src
<1> QED BY <1>1, <1>3

\* A step of the machine, or to it
LEMMA RunCode ==
  ASSUME IInv, CInv, RInv,
         \/ ParseFuncEnd \/ RunStore \/ RunCopy \/ RunCommit \/ RunRecopy \/ RunIf
         \/ RunJump \/ RunEnter \/ RunExit
  PROVE  CInv' /\ RInv'
<1>1. UNCHANGED comp /\ phase' = "run"
  BY DEF ParseFuncEnd, RunStore, RunCopy, RunCommit, RunRecopy, RunIf, RunJump,
         RunEnter, RunExit, At
<1>2. CInv'
  BY <1>1 DEF CInv, comp
<1>3. ASSUME Plain(code) PROVE \A y \in Vars : Follows(pc, y)'
  BY <1>3, FuncEndRun, StoreRun, CopyRun, CommitRun, JumpRun, EnterRun, ExitRun
<1>4. RInv'
  <2>1. code' = code
    BY <1>1 DEF comp
  <2> QED BY <1>1, <1>3, <2>1 DEF RInv
<1> QED BY <1>2, <1>4

\* The end of the run, and no step at all
LEMMA EndCode ==
  ASSUME IInv, CInv, RInv, RunEnd \/ UNCHANGED vars
  PROVE  CInv' /\ RInv'
<1>1. CASE RunEnd
  <2>1. UNCHANGED <<comp, pc, mach, src>> /\ phase = "run" /\ phase' = "done" /\ pc > Len(code)
    BY <1>1 DEF RunEnd
  <2>2. CInv'
    BY <2>1 DEF CInv, comp
  <2>3. pc = Len(code) + 1
    <3>1. pc \in 1 .. Len(code) + 1 /\ Len(code) \in Nat
      BY InvType, PlacedState DEF TypeOK
    <3> QED BY <2>1, <3>1
  <2>4. RInv'
    BY <2>1, <2>3 DEF RInv, Follows, comp, mach, src
  <2> QED BY <2>2, <2>4
<1>2. CASE UNCHANGED vars
  BY <1>2 DEF CInv, RInv, Follows, vars, comp, mach, src
<1> QED BY <1>1, <1>2

\* The invariant of plain bodies
LEMMA CodeInvariant == Spec => [](IInv /\ CInv /\ RInv)
<1>1. IInv /\ CInv /\ RInv /\ [Next]_vars => (IInv /\ CInv /\ RInv)'
  <2> SUFFICES ASSUME IInv, CInv, RInv, [Next]_vars PROVE (IInv /\ CInv /\ RInv)'
    OBVIOUS
  <2>1. IInv'
    BY NextKeeps
  <2>2. CInv' /\ RInv'
    BY <2>1, ParseCode, RunCode, EndCode DEF Next, Parses
  <2> QED BY <2>1, <2>2
<1> QED BY <1>1, InitInv, InitCode, PTL DEF Spec

\* At the end of the code nothing is due.
LEMMA DoneCommitted ==
  ASSUME IInv, CInv, RInv, Plain(code), phase = "done"
  PROVE  hist = want
<1>1. pc = Len(code) + 1 /\ \A y \in Vars : Follows(pc, y)
  BY DEF RInv
<1>2. Len(code) \in Nat
  BY PlacedState
<1>3. DueVars(code, pc) = {}
  <2>1. pc \in Nat /\ ~(pc <= Len(code))
    BY <1>1, <1>2, Beyond
  <2> QED BY <2>1, NoDue
<1>4. \A y \in Vars : hist[y] = want[y]
  BY <1>1, <1>3 DEF Follows
<1>5. hist \in [Vars -> [0..Depth -> Val]] /\ want \in [Vars -> [0..Depth -> Val]]
  BY DEF IInv, Values
<1> QED BY <1>4, <1>5

\* A body without nested blocks and without conditional assignments in a block
\* leaves every variable with the histories that the source asks for: each block
\* that ran added one history, holding the value assigned last, to each variable
\* it assigned, and none to the others.
THEOREM BlocksCommit == Spec => []BlocksCommitOnce
<1>1. IInv /\ CInv /\ RInv => BlocksCommitOnce
  <2> SUFFICES ASSUME IInv, CInv, RInv, ~Nested, ~Conditional, phase = "done"
               PROVE  hist = want
    BY DEF BlocksCommitOnce, Committed
  <2>1. Plain(code)
    BY PlacedState, PlainMeans
  <2> QED BY <2>1, DoneCommitted
<1> QED BY <1>1, CodeInvariant, PTL
=============================================================================
