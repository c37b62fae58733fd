\* One task: its attempts, cancellations, reconciliations, results,
\* correction rounds and the delivery of results, with two attempts, while the
\* stage gate opens and closes; and its review over two results on two
\* revisions, with tests, a manual check and a changing limit.
SPECIFICATION Spec
CONSTANTS
  Tasks = {t1}
  Baselines = {1}
  Revisions = {r1, r2}
  Keys = {k1, k2}
  Workers = {w1}
  Workflows = {f1}
  ManualTasks = {t1}
  Reports = {"none", "passed", "failed"}
  TestSubjects = {"none"}
  HasFlow = TRUE
  Limits = {0, 1}
  MaxAttempts = 2
SYMMETRY KeySymmetry
CONSTRAINT OneTopic
INVARIANTS
  TypeOK
  RegisterMatchesStatus
  OneResultPerRound
  ResultsMatchRegister
  NoLateResult
  DeliveryOwed
PROPERTIES
  ReturnedWorkCanRestart
  KeepsPromise
  VerifiedOnNewestResult
  EscalationIsFinal
