-------------------------- MODULE MCBodyOwnership --------------------------
(* The instances TLC checks: a call, a protective action, a plan, a life   *)
(* project, their stops.                                                   *)
EXTENDS BodyOwnership, TLC

CONSTANTS a1,       \* a call of the Agent
          t1,       \* a protective action
          p1, l1,   \* a plan and a life project
          y1,       \* a call of the life project
          k1, k2    \* stops

CallAndThreat == {a1, t1}
Owners == {a1, p1, l1}
PlanCallsOf == [c \in PlanCalls |-> l1]
SymStops == Permutations({k1, k2})

(* A call beside a life project under two stops, or two plans and a call   *)
(* of one under one stop: the two loads of the run on ownership.           *)
OneCall == /\ plan[p1] = "idle" /\ pc[y1] = "idle"
           /\ invalidations = 0 /\ \A p \in Plans : naps[p] = 0
TwoPlans == pc[a1] = "idle" /\ \E k \in Stops : spc[k] = "idle"
OneLoad == OneCall \/ TwoPlans
=============================================================================
