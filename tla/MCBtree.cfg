SPECIFICATION Spec
CONSTANTS
  Ord = {"recno", "name"}
  Key = {1, 2, 3, 4, 5, 6}
  Cap = 3
  Half = 2
  Uses <- MCUses
  MaxPage = 8
INVARIANTS
  Ordered
  LevelsChained
  PagesAccounted
PROPERTIES
  ImplementsKeySet
  CallsImplement
