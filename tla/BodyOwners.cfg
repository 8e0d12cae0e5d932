SPECIFICATION Spec
CONSTANTS
  None = None
  a1 = a1  t1 = t1  p1 = p1  l1 = l1  y1 = y1  k1 = k1  k2 = k2
  AgentCalls = {a1}
  ThreatCalls = {}
  Plans = {p1, l1}
  LifePlans = {l1}
  PlanCalls = {y1}
  PlanOf <- PlanCallsOf
  Claims <- Owners
  Stops = {k1, k2}
  MaxRepeats = 0
  MaxInvalidations = 1
  MaxNaps = 1
CONSTRAINT OneLoad
INVARIANTS RunningClaimHasOwner StoppedWritersStaySilent StoppingHasStop
PROPERTIES SweptBeforeCheckIsStale
CHECK_DEADLOCK FALSE
SYMMETRY SymStops
