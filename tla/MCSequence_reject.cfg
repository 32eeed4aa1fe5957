SPECIFICATION Spec
CONSTANTS
  Exception <- MCException
  Text <- MCText
  Bases <- MCBases
  Uses <- MCReject
VIEW View
INVARIANTS
  RejectionsHold
