------------------------- MODULE MCHistoryArray -------------------------
(* Small instances of HistoryArray. *)
EXTENDS HistoryArray, TLC

Symmetry == Permutations(Val)
=========================================================================
