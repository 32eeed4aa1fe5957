SPECIFICATION FairSpec
CONSTANTS
  w1 = w1
  w2 = w2
  c1 = c1
  NoOne = NoOne
  Worker = {w1, w2}
  Initial = {w1}
  Client = {c1}
  Ops <- AllOps
  Lwm = {0, 1}
  MaxJobs = 2
  MaxNil = 2
INVARIANTS
  WaitMeansDone
  JobsAccounted
PROPERTIES
  JobsDone
  WaitReturns
