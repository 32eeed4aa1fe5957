SPECIFICATION FairSpec
CONSTANTS
  c1 = c1
  c2 = c2
  s1 = s1
  s2 = s2
  ma = ma
  mb = mb
  None = None
  Client = {c1, c2}
  Server = {s1, s2}
  Old = {c2}
  Keepalive = {c1, s1, s2}
  Uses <- MCUses
  MaxLink = 5
INVARIANTS
  CallInOnePlace
  AnswersMatch
  BusyServersWork
PROPERTIES
  CallsEnd
CHECK_DEADLOCK FALSE
