\* A worker, through which jobs are cleared and removed too, and a producer in
\* another process; two jobs of two attempts each, and one crash or failing
\* file access.
SPECIFICATION FairSpec
CONSTANTS
  Instances = {w, p}
  Worker = w
  Producers = {p}
  Admins = {w}
  Overtakes = FALSE
  Stalls = FALSE
  MaxMishaps = 1
  Jobs = {j1, j2}
  Scopes = {{j1}}
  MaxAttempts = 2
INVARIANTS
  TypeOK
  MutualExclusion
  AttemptsBounded
  CountersAddUp
PROPERTIES
  KeepsQueuePromise
  JobsLeave
