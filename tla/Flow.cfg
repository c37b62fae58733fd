\* Three stages in a chain, one of which gets a second version; one comment
\* thread; two baselines, frozen, merged from requirements or a plan, decided
\* and worked on.
SPECIFICATION Spec
CONSTANTS
  LastStage = 3
  DependsOn <- Chain
  Contents = {x, y}
  HandTexts = {hand}
  Requirements = {q}
  Plans = {p}
  Threads = {h1}
  StageOf <- FirstStage
  Tasks = {t1}
  MaxVersions = 2
  MaxBaselines = 2
CONSTRAINT OneTopic
INVARIANTS
  TypeOK
  ActiveIsApproved
  WorkStaysOnItsSubject
  BindingsTellTheTruth
PROPERTIES
  DecisionsReachDependants
  ApprovalSettlesFeedback
