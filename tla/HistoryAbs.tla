---------------------------- MODULE HistoryAbs ----------------------------
(***************************************************************************)
(* What the language promises of a history variable  var int x<:Depth:>:   *)
(* the present value and the Depth values it had before it.  An assignment *)
(* pushes the present value one place back and forgets the oldest one; a   *)
(* load x<:k:> delivers the value of k assignments ago.                    *)
(***************************************************************************)
EXTENDS Histories

CONSTANT Val   \* the values a variable can hold

VARIABLES
  hist,   \* hist[k] is the value of k assignments ago, hist[0] the present one
  result  \* what the last load delivered

absvars == <<hist, result>>

\* A variable starts with unspecified contents (a local one is on the stack).
Init ==
  /\ hist \in [0..Depth -> Val]
  /\ result \in Val

Assign(v) ==
  /\ hist' = Push(hist, v)
  /\ UNCHANGED result

Load(k) ==
  /\ result' = hist[k]
  /\ UNCHANGED hist

Next ==
  \/ \E v \in Val : Assign(v)
  \/ \E k \in 0..Depth : Load(k)

Spec == Init /\ [][Next]_absvars
============================================================================
