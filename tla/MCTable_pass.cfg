SPECIFICATION Spec
CONSTANTS
  p1 = p1
  p2 = p2
  None = None
  Process = {p1, p2}
  Reusers = {p1, p2}
  Key = {1, 2}
  Recovers = FALSE
  Uses <- MCUses
  MaxRec = 3
INVARIANTS
  IndexMatches
  LockedIsFresh
  CommitFindsKeys
PROPERTIES
  WrittenUnderLock
CHECK_DEADLOCK FALSE
