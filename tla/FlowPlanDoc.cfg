\* A plan is imported onto a baseline that was not made from the stages the
\* import then binds it to.
SPECIFICATION Spec
CONSTANTS
  LastStage = 3
  DependsOn <- Chain
  Contents = {x, y}
  HandTexts = {hand}
  Requirements = {q}
  Plans = {p}
  Threads = {h1}
  StageOf <- FirstStage
  Tasks = {t1}
  MaxVersions = 2
  MaxBaselines = 2
CONSTRAINT OneTopic
INVARIANTS
  PlanKeepsItsStages
