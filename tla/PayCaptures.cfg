\* Three captures and refunds over two operations of an authorization of two
\* units, with every mishap; or one or two of them next to two runs of webhook
\* jobs and polls that report the payment captured (FewActors).
SPECIFICATION Spec
CONSTANTS
  Callers = {c1, c2, c3}
  OpIds = {o1, o2}
  Actions = {"capture", "refund"}
  Amounts = {0, 1}
  Authorized = 2
  Writers = {w1, w2}
  Events = {"captured"}
  Polled = {"captured"}
  Sessions = {"authorized"}
  Mishaps = {"death", "slow", "lost", "unreachable", "short", "overtaken",
             "crash", "unregistered", "unreleased"}
  MaxMishaps = 1
SYMMETRY CallSymmetry
CONSTRAINT FewActors
CHECK_DEADLOCK FALSE
INVARIANTS
  TypeOK
  OneLiveAttempt
  ClaimedIsHandled
  LedgerCoversCaptures
PROPERTIES
  SettledForGood
  KeepsCapturePromise
