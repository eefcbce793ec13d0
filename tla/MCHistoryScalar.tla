------------------------- MODULE MCHistoryScalar -------------------------
(* Small instances of HistoryScalar. *)
EXTENDS HistoryScalar

Words == 0..2

MkConfig(s, d, l) == [simple_store |-> s, simple_depth |-> d, local |-> l]

\* No option (cyclic), and the option with a greater depth (flat), for locals
\* and globals; the option with a smaller depth (cyclic again) for globals.
InitialisedConfigs ==
  {MkConfig(FALSE, 0, l) : l \in BOOLEAN}
    \cup {MkConfig(TRUE, Depth + 1, l) : l \in BOOLEAN}
    \cup {MkConfig(TRUE, Depth, FALSE)}

\* Every way to compile a variable of this depth.
AllConfigs == InitialisedConfigs \cup {MkConfig(TRUE, Depth, TRUE)}
==========================================================================
