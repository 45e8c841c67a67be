------------------------------ MODULE MCBinding ------------------------------
(* Instances of NumberBinding for TLC.                                     *)
EXTENDS NumberBinding, TLC

CONSTANTS n, k,     \* access numbers; n is bound at first
          x, y      \* 400 numbers

Bind(a, b) == [nbr |-> a, number |-> b]

FirstBindings == {Bind(n, x)}
FirstNbrs     == <<n>>

\* bind.txt: nothing; rebinds n; binds k, then n anew; a line that is
\* not a binding after one that is.
BindFiles ==
  {<< >>, <<Bind(n, y)>>, <<Bind(k, x), Bind(n, y)>>, <<Bind(k, x), BadLine>>}

\* Two commands about the same numbers.
SameNumbers ==
  {<<Bind(k, x)>>, <<Bind(k, y), BadLine>>, <<Bind(n, y)>>}

Alike == Permutations(Lookups) \cup Permutations(Commands)
=============================================================================
