------------------------------- MODULE MCMark -------------------------------
(* Model-checking instances of Mark.                                        *)
EXTENDS Mark, TLC

Locked == AllOps \ {"blkenv", "local"}
Shaded == AllOps \ {"blkenv", "push"}
Barred == AllOps \ {"aadd"}
Unshaded == {"pop", "new", "ref", "push", "assign"}

Symmetry == Permutations(Mutator) \cup Permutations(Obj \ {First})
=============================================================================
