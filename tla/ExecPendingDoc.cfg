\* A result that arrives before its workflow has parked stays pending for good.
SPECIFICATION FairExecSpec
CONSTANTS
  Tasks = {t1}
  Baselines = {1}
  Revisions = {r1}
  Keys = {k1}
  Workers = {}
  Workflows = {f1}
  ManualTasks = {}
  Reports = {"none"}
  TestSubjects = {}
  HasFlow = FALSE
  Limits = {0}
  MaxAttempts = 1
  Callers = {c1}
  BridgeKeys = {k1}
  Resumers = {h1}
  Users = {u1}
  Recorders = {u1}
  ScanActor = scanWorker
  ScanLimit = 1
  SignalTries = 1
  MaxInstances = 1
  MaxCrashes = 0
PROPERTIES
  NothingStaysPending
