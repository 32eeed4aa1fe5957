SPECIFICATION Spec
CONSTANTS
  Mutator = {m1, m2}
  NoOne = NoOne
  Collector = Collector
  Kind = "oref"
  SIZE = 3
  LEVEL = 1
  WORD = 8
SYMMETRY Symmetry
INVARIANTS
  TypeOK
  LiveNotFree
  NewIsFresh
  FreeListWhole
  OverflowJustified
