SPECIFICATION Spec
CONSTANTS
  Key = {1, 2}
  Uses <- MCUses
  MaxRec = 2
  MaxDepth = 2
INVARIANTS
  IndexMatches
  CommitFindsKeys
  ReadsOwnUpdates
PROPERTIES
  RollbackRestores
  CommitKeepsView
  LocksExact
CHECK_DEADLOCK FALSE
