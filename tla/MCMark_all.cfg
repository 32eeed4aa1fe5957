SPECIFICATION Spec
CONSTANTS
  Mutator = {m1}
  Obj = {o1, o2}
  Leaf = {s1}
  Ref = {r1}
  NIL = NIL
  First = o1
  DEPTH = 2
  Marksync = TRUE
  Ops <- Barred
SYMMETRY Symmetry
INVARIANTS
  NoGrayLeft
