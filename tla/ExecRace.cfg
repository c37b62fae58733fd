\* Two calls of the bridge with one key race for one attempt, and may break off
\* anywhere; the second may start a second workflow.  Up to two jobs are queued
\* for the attempt, each delivered again after a crash.
SPECIFICATION ExecSpec
CONSTANTS
  Tasks = {t1}
  Baselines = {1}
  Revisions = {r1}
  Keys = {k1}
  Workers = {j1, j2}
  Workflows = {f1}
  ManualTasks = {}
  Reports = {"none"}
  TestSubjects = {}
  HasFlow = FALSE
  Limits = {0}
  MaxAttempts = 1
  Callers = {c1, c2}
  BridgeKeys = {k1}
  Resumers = {}
  Users = {u1}
  Recorders = {u1}
  ScanActor = scanWorker
  ScanLimit = 1
  SignalTries = 1
  MaxInstances = 2
  MaxCrashes = 0
SYMMETRY BridgeSymmetry
CONSTRAINT OneRace
INVARIANTS
  ExecTypeOK
  StartsOnce
  QueuedWorkIsAwaited
PROPERTIES
  KeepsHandover
