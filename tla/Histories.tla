----------------------------- MODULE Histories -----------------------------
(***************************************************************************)
(* The value of a history variable as a function: h[0] is the present      *)
(* value and h[k], k in 1..Depth, the value of k assignments ago.          *)
(***************************************************************************)
EXTENDS Integers

CONSTANT Depth   \* the declared depth

\* An assignment pushes every value back by one place and forgets the oldest.
Push(h, v) == [k \in 0..Depth |-> IF k = 0 THEN v ELSE h[k - 1]]
============================================================================
