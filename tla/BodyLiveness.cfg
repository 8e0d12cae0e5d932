SPECIFICATION FairSpec
CONSTANTS
  None = None
  a1 = a1  t1 = t1  p1 = p1  l1 = l1  y1 = y1  k1 = k1  k2 = k2
  AgentCalls = {a1}
  ThreatCalls = {t1}
  Plans = {}
  LifePlans = {}
  PlanCalls = {}
  PlanOf <- PlanCallsOf
  Claims <- CallAndThreat
  Stops = {k1}
  MaxRepeats = 1
  MaxInvalidations = 0
  MaxNaps = 0
INVARIANTS GenerationsIdentifyOwners
PROPERTIES StopsEnd CallsEnd
CHECK_DEADLOCK FALSE
