SPECIFICATION FairSpec
CONSTANTS
  Mutator = {m1, m2}
  NoOne = NoOne
  Collector = Collector
  Kind = "vref"
  SIZE = 2
  LEVEL = 1
  WORD = 8
INVARIANTS
  Accounting
PROPERTIES
  StarvingEnds
