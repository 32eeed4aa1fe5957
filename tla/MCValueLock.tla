---------------------------- MODULE MCValueLock ----------------------------
(* Model-checking instances of ValueLock.                                   *)
EXTENDS ValueLock, TLC

CONSTANTS m1, m2, v1, c1, c2, e1, e2, o1

(* Two mutexes: the addresses of a variable and its value may share one.    *)
TwoStripes ==
  [l \in Hashed |-> IF l \in {m1, m2, c1, e1, o1} THEN 1 ELSE 2]

OneArray == [e \in Elem |-> o1]

Program == AllOps \ {"push", "assign2", "asort"}

Symmetry == Permutations(Mutator)
=============================================================================
