------------------------- MODULE MCAtomicBlocks -------------------------
(* Small instances of AtomicBlocks. *)
EXTENDS AtomicBlocks

\* Variables and values are only compared for equality.
Symmetry == Permutations(Vars) \cup Permutations(Val)
=========================================================================
