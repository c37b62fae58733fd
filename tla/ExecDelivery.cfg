\* Two resume handlers race for one result: announcements are lost, handlers
\* die, signals break off, and the result is brought by hand, as it may be for
\* an automatic attempt.  The gate may close, a second baseline become active,
\* the result come from a caller that is no user, or the task be sent back for
\* a second attempt, of whose results a scan lists one.
SPECIFICATION FairExecSpec
CONSTANTS
  Tasks = {t1}
  Baselines = {1, 2}
  Revisions = {r1}
  Keys = {k1, k2}
  Workers = {}
  Workflows = {f1}
  ManualTasks = {}
  Reports = {"none"}
  TestSubjects = {}
  HasFlow = TRUE
  Limits = {1}
  MaxAttempts = 2
  Callers = {c1}
  BridgeKeys = {k1, k2}
  Resumers = {h1, h2}
  Users = {u1}
  Recorders = {u1, apiKey}
  ScanActor = scanWorker
  ScanLimit = 1
  SignalTries = 1
  MaxInstances = 2
  MaxCrashes = 1
CONSTRAINT OneTrouble
PROPERTIES
  KeepsHandover
  WaitingWorkflowIsTold
