SPECIFICATION Spec
CONSTANTS
  Exception <- MCException
  Text <- MCText
  Bases <- MCBases
  Uses <- MCUses
VIEW View
INVARIANTS
  SlotsExact
  StackExact
PROPERTIES
  ImplementsExceptions
