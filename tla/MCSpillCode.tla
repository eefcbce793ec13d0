---------------------------- MODULE MCSpillCode ----------------------------
(* Small instances of SpillCode. *)
EXTENDS SpillCode

\* Register 0 is the variable, 1 and 2 are temporaries.
Plain ==
  {Ins("op", <<>>, 1, 0), Ins("op", <<0>>, 2, 0), Ins("op", <<1, 2>>, 1, 0),
   Ins("call", <<0, 1, 0>>, None, 0), Ins("reg_store", <<1>>, 0, 0)}

\* An argument can only be received at the start of a function.
First == Plain \cup {Ins("receive", <<>>, 0, 0)}

Test(x, to) == Ins("if", <<x>>, None, to)
Back == Ins("jump", <<>>, None, 3)

\* Straight code, a branch, a loop tested at its start and one at its end; the
\* instructions are numbered 2, 3 and so on.
Both == Ins("op", <<1, 2>>, 1, 0)

SomeBodies ==
  {<<a, b, Both>> : a \in First, b \in Plain}
    \cup {<<a, Test(1, 5), b, Both>> : a \in First, b \in Plain}
    \cup {<<a, Test(0, 6), b, Back>> : a \in First, b \in Plain}
    \cup {<<a, b, Test(1, 6), Back>> : a \in First, b \in Plain}

\* At most two registers are spilled in the first pass, one in the second.
TwoThenOne == <<2, 1>>
=============================================================================
