SPECIFICATION Spec
CONSTANTS
  m1 = m1
  m2 = m2
  v1 = v1
  c1 = c1
  c2 = c2
  e1 = e1
  e2 = e2
  o1 = o1
  Mutator = {m1, m2}
  Collector = Collector
  NoOne = NoOne
  Var = {v1}
  Elem = {e1, e2}
  Cell = {c1}
  Arr = {o1}
  ArrOf <- OneArray
  Scalar = {"t"}
  Datum = {"p"}
  PRIME = 2
  Stripe <- TwoStripes
  Marksync = TRUE
  Ops <- Program
SYMMETRY Symmetry
INVARIANTS
  ZeroHeld
  NoDeadlock
  RefsWhole
PROPERTIES
  ScanFrozen
