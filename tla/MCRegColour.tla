--------------------------- MODULE MCRegColour ---------------------------
(* Small instances of RegColour. *)
EXTENDS RegColour

\* One move; a few uses; a node of four neighbours that is loaded or stored
\* forty times or more is not considered for spilling; and a node that does
\* not occur.
SomeCosts == {0, 10, 400}
===========================================================================
