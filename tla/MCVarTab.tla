------------------------------ MODULE MCVarTab ------------------------------
(* Model-checking instances of VarTab.                                      *)
EXTENDS VarTab, TLC

Symmetry == Permutations(Mutator)
=============================================================================
