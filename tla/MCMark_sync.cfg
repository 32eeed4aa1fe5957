SPECIFICATION Spec
CONSTANTS
  Mutator = {m1, m2}
  Obj = {o1, o2}
  Leaf = {}
  Ref = {r1}
  NIL = NIL
  First = o1
  DEPTH = 2
  Marksync = TRUE
  Ops <- Shaded
SYMMETRY Symmetry
INVARIANTS
  LiveKept
  TriColor
