\* Two captures, one of which the provider carries out without the answer
\* arriving: the ceiling that the code promises does not hold.
SPECIFICATION Spec
CONSTANTS
  Callers = {c1, c2}
  OpIds = {o1, o2}
  Actions = {"capture"}
  Amounts = {0, 1}
  Authorized = 2
  Writers = {}
  Events = {}
  Polled = {}
  Sessions = {"authorized"}
  Mishaps = {"lost"}
  MaxMishaps = 1
SYMMETRY CallSymmetry
CHECK_DEADLOCK FALSE
INVARIANTS
  CapturesWithinAuthorized
