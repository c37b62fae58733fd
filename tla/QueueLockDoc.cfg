\* Three instances; one crashes with the lock, and the other two find it stale.
SPECIFICATION LockSpec
CONSTANTS
  Instances = {a, b, c}
  Overtakes = TRUE
  Stalls = FALSE
  MaxMishaps = 1
INVARIANTS
  MutualExclusion
