\* Three tasks and every dependency graph over them, one attempt each, while
\* the stage gate opens and closes.
SPECIFICATION Spec
CONSTANTS
  Tasks = {t1, t2, t3}
  Baselines = {1}
  Revisions = {r1}
  Keys = {k1}
  Workers = {}
  Workflows = {}
  ManualTasks = {}
  Reports = {"passed"}
  TestSubjects = {}
  HasFlow = TRUE
  Limits = {0}
  MaxAttempts = 1
SYMMETRY TaskSymmetry
INVARIANTS
  PrerequisitesVerified
  GraphIsSound
PROPERTIES
  EntersWorkThroughGate
  DoneIsForever
  BlockReachesAll
  FreedIsFree
