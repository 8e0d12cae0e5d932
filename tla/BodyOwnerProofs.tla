-------------------------- MODULE BodyOwnerProofs --------------------------
(***************************************************************************)
(* Who owns the Body, for every set of calls, plans and stops: a running   *)
(* claim has an owner that will give it back, a Body that is stopping has  *)
(* a stop that will give the verdict, generations tell owners apart, and   *)
(* the result of a call swept up before its check is never fresh.          *)
(***************************************************************************)
EXTENDS BodyOwnershipProofs

\* ----- results of swept calls ---------------------------------------------

(* A callback on the lane has no result before its generation is checked. *)
Pending(c) == fut[c] = "queued" \/ Unchecked(c)
ResultPending == \A c \in Calls : Pending(c) => result[c] = "none"

(* A result is written only when a generation is checked or a callback      *)
(* leaves the lane, and the check of a callback a stop found sees a         *)
(* generation the Body has left.                                            *)
LEMMA NextResult ==
    ASSUME TypeOK, StopInv, ResultPending, [Next]_vars, NEW c \in Calls
    PROVE  /\ (Pending(c) => result[c] = "none")'
           /\ \A k \in Stops :
                 <<c, cgen[c]>> \in victims[k] /\ Unchecked(c) => result'[c] # "ok"
  <1> USE DEF Pending, Unchecked, ResultPending, Executing
  <1> DEFINE Good == /\ fut'[c] \in {"queued", "entered", "issuing", "acting"} =>
                           result'[c] = "none"
                     /\ \A k \in Stops :
                           <<c, cgen[c]>> \in victims[k]
                              /\ fut[c] \in {"entered", "issuing", "acting"} =>
                              result'[c] # "ok"
  <1>0. ASSUME UNCHANGED <<fut, result>> PROVE Good
    BY <1>0
  <1>1. ASSUME NEW S, CancelFutures(S) PROVE Good
    BY <1>1 DEF CancelFutures, TypeOK
  <1>2. ASSUME NEW d \in Calls, CallStep(d) PROVE Good
    <2>1. CASE Submit(d)
      BY <2>1 DEF Submit, TypeOK
    <2>2. ASSUME NEW k \in Stops, EnterStoppingLife(d, k) \/ AbandonCall(d, k) PROVE Good
      BY <1>1, <2>2 DEF EnterStoppingLife, AbandonCall, BeginStop
    <2>3. CASE PlanCallRaises(d)
      BY <1>0, <2>3 DEF PlanCallRaises
    <2>4. CASE \/ Enter(d) \/ EnterWaitingThreat(d) \/ LifeStopReturned(d) \/ ThreatGone(d)
               \/ ThreatWaitExpired(d) \/ ReadProbe(d) \/ AfterProbe(d)
               \/ CollectDirect(d) \/ Readmit(d) \/ CollectPlanCall(d)
      BY <1>0, <2>4 DEF Enter, EnterWaitingThreat, LifeStopReturned, ThreatGone,
         ThreatWaitExpired, ReadProbe, AfterProbe, CollectDirect, Readmit, CollectPlanCall,
         laneVars
    <2> QED
      BY <1>2, <2>1, <2>2, <2>3, <2>4 DEF CallStep
  <1>3. ASSUME NEW d \in Calls, WorkerStep(d) PROVE Good
    <2>1. CASE CheckGeneration(d)
      <3>1. \A k \in Stops : <<c, cgen[c]>> \in victims[k] => cgen[c] # body.auth
        <4> SUFFICES ASSUME NEW k \in Stops, <<c, cgen[c]>> \in victims[k]
                     PROVE  cgen[c] # body.auth
          OBVIOUS
        <4>1. <<c, cgen[c]>>[2] < body.auth
          BY DEF StopInv, VictimsPast
        <4>2. cgen[c] \in Nat /\ body.auth \in Nat
          BY DEF TypeOK, BodyRecord
        <4> QED
          BY <4>1, <4>2
      <3> QED
        BY <2>1, <3>1 DEF CheckGeneration, TypeOK
    <2>2. CASE StartCallback(d)
      BY <2>2 DEF StartCallback, TypeOK
    <2>3. CASE Checkpoint(d)
      BY <2>3 DEF Checkpoint, TypeOK
    <2>4. CASE StartAction(d)
      BY <2>4 DEF StartAction, TypeOK
    <2>5. CASE ActionTimesOut(d)
      BY <2>5 DEF ActionTimesOut, TypeOK
    <2>6. CASE TransportFails(d)
      BY <2>6 DEF TransportFails, TypeOK
    <2>7. CASE ReturnResult(d)
      BY <2>7 DEF ReturnResult, TypeOK
    <2> QED
      BY <1>3, <2>1, <2>2, <2>3, <2>4, <2>5, <2>6, <2>7 DEF WorkerStep
  <1>4. ASSUME NEW p \in Plans, PlanStep(p) PROVE Good
    <2>1. CASE PlanUnwinds(p)
      BY <1>1, <2>1 DEF PlanUnwinds
    <2>2. ASSUME NEW k \in Stops, StartPlanStoppingLife(p, k) PROVE Good
      BY <1>1, <2>2 DEF StartPlanStoppingLife, BeginStop
    <2>3. CASE \/ StartPlan(p) \/ PlanClaim(p) \/ PlanReadProbe(p) \/ PlanAfterProbe(p)
               \/ PlanSleeps(p) \/ PlanWakes(p) \/ PlanFinishes(p)
      BY <1>0, <2>3 DEF StartPlan, PlanClaim, PlanReadProbe, PlanAfterProbe, PlanSleeps,
         PlanWakes, PlanFinishes, laneVars
    <2> QED
      BY <1>4, <2>1, <2>2, <2>3 DEF PlanStep
  <1>5. ASSUME NEW k \in Stops, StopStep(k) PROVE Good
    BY <1>0, <1>5 DEF StopStep, Interrupt, AwaitLane, StopReadProbe, StopProbesAgain,
       FinishStop, laneVars
  <1>6. ASSUME NEW k \in Stops, NEW inval \in BOOLEAN, NEW reflex \in BOOLEAN,
               RequestStop(k, inval, reflex)
        PROVE  Good
    BY <1>1, <1>6 DEF RequestStop, BeginStop
  <1>7. CASE ActionEnds
    BY <1>7 DEF ActionEnds, TypeOK
  <1>8. CASE InvalidateGeneration \/ UNCHANGED vars
    BY <1>0, <1>8 DEF InvalidateGeneration, vars, laneVars
  <1>9. Good
    BY <1>2, <1>3, <1>4, <1>5, <1>6, <1>7, <1>8 DEF Next
  <1> QED
    BY <1>9

(* Whatever the number of calls, plans and stops: the callback of a call   *)
(* that cancel_active_execution_with_facts swept up before execute_tool    *)
(* checked its generation may still end, but the check then sees a newer   *)
(* generation and does not report a success.                               *)
THEOREM SweptResultsNeverFresh == Spec => SweptBeforeCheckIsStale
  <1>1. Init => ResultPending
    BY DEF Init, ResultPending, Pending, Unchecked, Executing
  <1>2. TypeOK /\ StopInv /\ ResultPending /\ [Next]_vars => ResultPending'
    BY NextResult DEF ResultPending
  <1>3. TypeOK /\ StopInv /\ ResultPending /\ [Next]_vars =>
           [\A k \in Stops, c \in Calls :
              <<c, cgen[c]>> \in victims[k] /\ Unchecked(c) => result'[c] # "ok"]_vars
    BY NextResult
  <1> QED
    BY <1>1, <1>2, <1>3, TypeCorrect, StopInvHolds, PTL DEF Spec, SweptBeforeCheckIsStale

\* ----- a Body that is stopping has its stop --------------------------------

(* Only a call that is not of a life project stops one and waits for it. *)
WaitersYieldLife ==
    \A k \in Stops : waiter[k] \in PlanCalls => PlanOf[waiter[k]] \notin LifePlans

(* A stop is lost only with the plan whose call waits for it.  One of the  *)
(* stops under way is not such a stop, or its plan is not revoked, and     *)
(* would not be without the generation, and with it the Body, moving on.   *)
Attends(k) ==
    /\ UnderWay(k)
    /\ waiter[k] \in PlanCalls =>
          PlanOf[waiter[k]] \notin revoked /\ body.holder \notin {"none", "unknown"}
StopAttended == body.stop = "stopping" => \E k \in Stops : Attends(k)
AttendInv == WaitersYieldLife /\ StopAttended

(* What operations of BodyControl leave recorded. *)
LEMMA OperationsStop ==
    ASSUME NEW b \in BodyRecord
    PROVE  /\ Settled(b).stop = "settled" /\ Settled(b).holder = "none"
           /\ Settled(b).claim = None
           /\ MarkedUnknown(b).stop = "unknown" /\ MarkedUnknown(b).holder = "unknown"
           /\ MarkedUnknown(b).claim = b.claim
           /\ Stopping(b).stop = "stopping" /\ Stopping(b).holder = b.holder
           /\ Stopping(b).claim = b.claim
           /\ Invalidated(b).claim = b.claim
           /\ IF b.holder \in {"none", "unknown"}
              THEN Invalidated(b).stop = b.stop /\ Invalidated(b).holder = b.holder
              ELSE Invalidated(b).stop = "unknown" /\ Invalidated(b).holder = "unknown"
           /\ \A c, h : /\ Claimed(b, c, h).stop = "running"
                        /\ Claimed(b, c, h).holder = h
                        /\ Claimed(b, c, h).claim = c
  <1>1. Settled(b).stop = "settled" /\ Settled(b).holder = "none" /\ Settled(b).claim = None
    BY DEF Settled, BodyRecord
  <1>2. /\ MarkedUnknown(b).stop = "unknown" /\ MarkedUnknown(b).holder = "unknown"
        /\ MarkedUnknown(b).claim = b.claim
    BY DEF MarkedUnknown, BodyRecord
  <1>3. /\ Stopping(b).stop = "stopping" /\ Stopping(b).holder = b.holder
        /\ Stopping(b).claim = b.claim
    BY DEF Stopping, BodyRecord
  <1>4. /\ Invalidated(b).claim = b.claim
        /\ IF b.holder \in {"none", "unknown"}
           THEN Invalidated(b).stop = b.stop /\ Invalidated(b).holder = b.holder
           ELSE Invalidated(b).stop = "unknown" /\ Invalidated(b).holder = "unknown"
    BY DEF Invalidated, BodyRecord
  <1>5. \A c, h : /\ Claimed(b, c, h).stop = "running"
                  /\ Claimed(b, c, h).holder = h
                  /\ Claimed(b, c, h).claim = c
    BY DEF Claimed
  <1> QED
    BY <1>1, <1>2, <1>3, <1>4, <1>5

(* Giving a claim back frees the Body or leaves it alone. *)
LEMMA ReleaseFrees ==
    ASSUME NEW b \in BodyRecord, NEW p
    PROVE  PlanReleased(b, p) \in {b, Settled(b)}
  BY DEF PlanReleased, SettledBy

LEMMA CallReleaseFrees ==
    ASSUME NEW c
    PROVE  Released(c) \in {body, Settled(body)}
  BY DEF Released, SettledBy

(* Steps that begin no stop, drop none but those of a revoked plan, and    *)
(* revoke only life projects unless the generation moves on.               *)
NoStopBegun ==
    /\ waiter' = waiter
    /\ body'.stop = "stopping" => body.stop = "stopping" /\ body'.holder = body.holder
    /\ \A k \in Stops : UnderWay(k) /\ body'.stop = "stopping" =>
          \/ UnderWay(k)'
          \/ waiter[k] \in PlanCalls /\ PlanOf[waiter[k]] \in revoked
    /\ body'.stop = "stopping" =>
          body.holder \in {"none", "unknown"} \/ revoked' \subseteq revoked \cup LifePlans

LEMMA NoStopBegunAttended ==
    ASSUME AttendInv, NoStopBegun
    PROVE  AttendInv'
  <1>1. WaitersYieldLife'
    BY DEF AttendInv, WaitersYieldLife, NoStopBegun
  <1>2. ASSUME body'.stop = "stopping" PROVE \E k \in Stops : Attends(k)'
    <2>1. PICK k \in Stops : Attends(k)
      BY <1>2 DEF AttendInv, StopAttended, NoStopBegun
    <2>2. waiter[k] \in PlanCalls => PlanOf[waiter[k]] \notin LifePlans
      BY DEF AttendInv, WaitersYieldLife
    <2>3. Attends(k)'
      BY <1>2, <2>1, <2>2 DEF Attends, NoStopBegun
    <2> QED
      BY <2>3
  <1> QED
    BY <1>1, <1>2 DEF AttendInv, StopAttended

(* The beginning of a stop: it attends to itself. *)
LEMMA BeginStopAttended ==
    ASSUME TypeOK, AttendInv, NEW k \in Stops, NEW b \in BodyRecord,
           NEW inval \in BOOLEAN, NEW plans, NEW w, NEW gone,
           BeginStop(k, b, inval, plans, w, gone),
           w \in PlanCalls => /\ PlanOf[w] \notin LifePlans
                              /\ PlanOf[w] \notin revoked \cup plans
                              /\ ~ inval /\ b.holder = "life"
    PROVE  AttendInv'
  <1>1. spc'[k] = "interrupt" /\ waiter' = [waiter EXCEPT ![k] = w]
        /\ revoked' = revoked \cup plans
    BY AfterDroppingTyped DEF BeginStop
  <1>2. waiter'[k] = w /\ \A j \in Stops \ {k} : waiter'[j] = waiter[j]
    BY <1>1 DEF TypeOK
  <1>3. WaitersYieldLife'
    BY <1>2 DEF AttendInv, WaitersYieldLife
  <1>4. w \in PlanCalls => body'.holder = "life"
    BY OperationsStop DEF BeginStop
  <1>5. Attends(k)'
    BY <1>1, <1>2, <1>4 DEF Attends, UnderWay
  <1> QED
    BY <1>3, <1>5 DEF AttendInv, StopAttended

(* Admission: the Body is running afterwards, free, or as it was. *)
LEMMA AdmitBody ==
    ASSUME TypeOK, NEW c \in Calls, Admit(c)
    PROVE  body'.stop \in {"running", "settled"} \/ body' = body
  <1>1. body \in BodyRecord
    BY DEF TypeOK
  <1>2. CASE TakeClaim(c, body)
    BY <1>1, <1>2, OperationsStop DEF TakeClaim
  <1>3. CASE Refuse(c)
    BY <1>1, <1>3, OperationsStop, ReleaseFrees DEF Refuse
  <1> QED
    BY <1>2, <1>3 DEF Admit

LEMMA CallStepAttended ==
    ASSUME TypeOK, AttendInv, NEW c \in Calls, CallStep(c)
    PROVE  AttendInv'
  <1>0. body \in BodyRecord
    BY DEF TypeOK
  <1>1. YieldedBy(c) \subseteq LifePlans
    BY DEF YieldedBy
  <1>2. ASSUME NEW k \in Stops, EnterStoppingLife(c, k) PROVE AttendInv'
    <2>1. c \in PlanCalls => PlanOf[c] \notin LifePlans
      BY <1>2, PlanAssumption, ClaimIds
         DEF EnterStoppingLife, YieldsLife, HolderOf, PlanHolder
    <2>2. c \in PlanCalls => PlanOf[c] \notin revoked \cup YieldedBy(c)
      BY <1>1, <1>2, <2>1 DEF EnterStoppingLife, MayEnter, Proceeds
    <2>3. BeginStop(k, body, FALSE, YieldedBy(c), c, {}) /\ body.holder = "life"
      BY <1>2 DEF EnterStoppingLife, LifeHolds
    <2> QED
      BY <1>0, <2>1, <2>2, <2>3, BeginStopAttended
  <1>3. ASSUME NEW k \in Stops, AbandonCall(c, k) PROVE AttendInv'
    <2> DEFINE b == IF pc[c] \in {"claimed", "lane"} THEN Released(c) ELSE body
    <2>1. b \in BodyRecord
      BY <1>0, CallReleaseTyped
    <2>2. BeginStop(k, b, TRUE, ActivePlans, None, {c})
      BY <1>3 DEF AbandonCall
    <2>3. None \notin PlanCalls
      BY PlanAssumption DEF Calls
    <2> HIDE DEF b
    <2> QED
      BY <2>1, <2>2, <2>3, BeginStopAttended
  <1>4. CASE Enter(c) \/ LifeStopReturned(c) \/ ThreatGone(c)
    <2>1. Admit(c) /\ UNCHANGED stopVars /\ revoked' \subseteq revoked \cup LifePlans
      BY <1>1, <1>4 DEF Enter, LifeStopReturned, ThreatGone
    <2>2. body'.stop \in {"running", "settled"} \/ body' = body
      BY <2>1, AdmitBody
    <2>3. NoStopBegun
      BY <2>1, <2>2 DEF NoStopBegun, stopVars, UnderWay
    <2> QED
      BY <2>3, NoStopBegunAttended
  <1>5. CASE AfterProbe(c)
    <2>1. body'.stop \in {"running", "settled"} \/ body' = body
      <3>1. Settled(body) \in BodyRecord
        BY <1>0, BodyOperationsTyped
      <3>2. CASE TakeClaim(c, Settled(body))
        BY <3>1, <3>2, OperationsStop DEF TakeClaim
      <3>3. CASE Refuse(c)
        BY <1>0, <3>3, OperationsStop, ReleaseFrees DEF Refuse
      <3> QED
        BY <1>5, <3>2, <3>3 DEF AfterProbe
    <2>2. NoStopBegun
      BY <1>5, <2>1 DEF AfterProbe, NoStopBegun, stopVars, UnderWay
    <2> QED
      BY <2>2, NoStopBegunAttended
  <1>6. CASE EnterWaitingThreat(c) \/ ThreatWaitExpired(c) \/ ReadProbe(c) \/ Submit(c)
    <2>1. UNCHANGED <<body, stopVars>> /\ revoked' \subseteq revoked \cup LifePlans
      BY <1>1, <1>6 DEF EnterWaitingThreat, ThreatWaitExpired, ReadProbe, Submit, planVars
    <2>2. NoStopBegun
      BY <2>1 DEF NoStopBegun, stopVars, UnderWay
    <2> QED
      BY <2>2, NoStopBegunAttended
  <1>7. CASE CollectDirect(c)
    <2>1. Released(c) \in BodyRecord /\ Released(c) \in {body, Settled(body)}
      BY CallReleaseTyped, CallReleaseFrees
    <2>2. body' \in {MarkedUnknown(body), Invalidated(Released(c)), Released(c)}
      BY <1>7 DEF CollectDirect, Collected
    <2>3. UNCHANGED <<waiter, spc>> /\ revoked' = IF Invalidates(c) THEN revoked \cup ActivePlans ELSE revoked
      BY <1>7 DEF CollectDirect, stopVars
    <2>4. ASSUME body'.stop = "stopping"
          PROVE  /\ body.stop = "stopping" /\ body'.holder = body.holder
                 /\ Invalidates(c) => body.holder \in {"none", "unknown"}
      <3>1. body' \in {Released(c), Invalidated(Released(c))}
        BY <1>0, <2>2, <2>4, OperationsStop
      <3>2. Released(c).stop = "stopping" /\ body'.holder = Released(c).holder
        BY <2>1, <2>4, <3>1, OperationsStop
      <3>3. Released(c) = body
        BY <1>0, <2>1, <3>2, OperationsStop
      <3>4. ASSUME Invalidates(c) PROVE body.holder \in {"none", "unknown"}
        <4>1. body' = Invalidated(body)
          BY <1>7, <3>3, <3>4 DEF CollectDirect, Collected, Invalidates
        <4> QED
          BY <1>0, <2>4, <4>1, OperationsStop
      <3> QED
        BY <3>2, <3>3, <3>4
    <2>5. NoStopBegun
      BY <2>3, <2>4 DEF NoStopBegun, UnderWay
    <2> QED
      BY <2>5, NoStopBegunAttended
  <1>8. CASE Readmit(c)
    <2>1. body'.stop = "running" \/ body' = body
      BY <1>0, <1>8, OperationsStop DEF Readmit
    <2>2. NoStopBegun
      BY <1>8, <2>1 DEF Readmit, NoStopBegun, stopVars, planVars, UnderWay
    <2> QED
      BY <2>2, NoStopBegunAttended
  <1>9. CASE CollectPlanCall(c)
    <2>1. body'.stop = "unknown" \/ body' = body
      BY <1>0, <1>9, OperationsStop DEF CollectPlanCall
    <2>2. NoStopBegun
      BY <1>9, <2>1 DEF CollectPlanCall, NoStopBegun, stopVars, planVars, UnderWay
    <2> QED
      BY <2>2, NoStopBegunAttended
  <1>10. CASE PlanCallRaises(c)
    <2>1. body'.stop = "settled" \/ body' = body
      BY <1>0, <1>10, OperationsStop, ReleaseFrees DEF PlanCallRaises
    <2>2. NoStopBegun
      BY <1>10, <2>1 DEF PlanCallRaises, NoStopBegun, stopVars, UnderWay
    <2> QED
      BY <2>2, NoStopBegunAttended
  <1> QED
    BY <1>2, <1>3, <1>4, <1>5, <1>6, <1>7, <1>8, <1>9, <1>10, CallStep(c) DEF CallStep

LEMMA PlanStepAttended ==
    ASSUME TypeOK, AttendInv, NEW p \in Plans, PlanStep(p)
    PROVE  AttendInv'
  <1>0. body \in BodyRecord
    BY DEF TypeOK
  <1>1. CASE PlanUnwinds(p)
    <2>1. UNCHANGED <<body, revoked, waiter>> /\ spc' = AfterDropping(InFlight(p)) /\ p \in revoked
      BY <1>1 DEF PlanUnwinds
    <2>2. ASSUME NEW k \in Stops, UnderWay(k), ~ UnderWay(k)'
          PROVE  waiter[k] \in PlanCalls /\ PlanOf[waiter[k]] \in revoked
      <3>1. waiter[k] \in InFlight(p)
        BY <2>1, <2>2 DEF AfterDropping, UnderWay
      <3> QED
        BY <2>1, <3>1 DEF InFlight
    <2>3. NoStopBegun
      BY <2>1, <2>2 DEF NoStopBegun
    <2> QED
      BY <2>3, NoStopBegunAttended
  <1>2. ASSUME NEW k \in Stops, StartPlanStoppingLife(p, k) PROVE AttendInv'
    <2>1. BeginStop(k, body, FALSE, ActivePlans, None, {})
      BY <1>2 DEF StartPlanStoppingLife
    <2>2. None \notin PlanCalls
      BY PlanAssumption DEF Calls
    <2> QED
      BY <1>0, <2>1, <2>2, BeginStopAttended
  <1>3. CASE StartPlan(p) \/ PlanReadProbe(p) \/ PlanWakes(p)
    <2>1. UNCHANGED <<body, stopVars>> /\ revoked' \subseteq revoked \cup LifePlans
      BY <1>3 DEF StartPlan, PlanReadProbe, PlanWakes
    <2>2. NoStopBegun
      BY <2>1 DEF NoStopBegun, stopVars, UnderWay
    <2> QED
      BY <2>2, NoStopBegunAttended
  <1>4. CASE PlanClaim(p) \/ PlanAfterProbe(p) \/ PlanSleeps(p) \/ PlanFinishes(p)
    <2>1. UNCHANGED <<revoked, stopVars>>
      BY <1>4 DEF PlanClaim, PlanAfterProbe, PlanSleeps, PlanFinishes
    <2>2. Settled(body) \in BodyRecord
      BY <1>0, BodyOperationsTyped
    <2>3. body'.stop \in {"running", "settled"} \/ body' = body
      BY <1>0, <1>4, <2>2, OperationsStop, ReleaseFrees
         DEF PlanClaim, PlanAfterProbe, PlanSleeps, PlanFinishes
    <2>4. NoStopBegun
      BY <2>1, <2>3 DEF NoStopBegun, stopVars, UnderWay
    <2> QED
      BY <2>4, NoStopBegunAttended
  <1> QED
    BY <1>1, <1>2, <1>3, <1>4, PlanStep(p) DEF PlanStep

LEMMA NextAttended ==
    ASSUME TypeOK, AttendInv, [Next]_vars
    PROVE  AttendInv'
  <1>0. body \in BodyRecord
    BY DEF TypeOK
  <1>1. ASSUME NEW c \in Calls, WorkerStep(c) PROVE AttendInv'
    <2>1. UNCHANGED <<body, revoked, spc, waiter>>
      BY <1>1 DEF WorkerStep, StartCallback, Checkpoint, StartAction, ActionTimesOut,
         TransportFails, CheckGeneration, ReturnResult, planVars, stopVars
    <2>2. NoStopBegun
      BY <2>1 DEF NoStopBegun, UnderWay
    <2> QED
      BY <2>2, NoStopBegunAttended
  <1>2. ASSUME NEW k \in Stops, StopStep(k) PROVE AttendInv'
    <2>1. UNCHANGED <<revoked, waiter>>
      BY <1>2 DEF StopStep, Interrupt, AwaitLane, StopReadProbe, StopProbesAgain,
         FinishStop, planVars
    <2>2. CASE FinishStop(k)
      <3>1. body'.stop \in {"settled", "unknown"}
        BY <1>0, <2>2, OperationsStop DEF FinishStop
      <3> QED
        BY <2>1, <3>1, NoStopBegunAttended DEF NoStopBegun
    <2>3. CASE Interrupt(k) \/ AwaitLane(k) \/ StopReadProbe(k) \/ StopProbesAgain(k)
      <3>1. body' = body /\ spc'[k] \in {"lane", "probe", "probed"}
            /\ \A j \in Stops \ {k} : spc'[j] = spc[j]
        BY <2>3 DEF Interrupt, AwaitLane, StopReadProbe, StopProbesAgain, TypeOK
      <3> QED
        BY <2>1, <3>1, NoStopBegunAttended DEF NoStopBegun, UnderWay
    <2> QED
      BY <1>2, <2>2, <2>3 DEF StopStep
  <1>3. ASSUME NEW k \in Stops, NEW inval \in BOOLEAN, NEW reflex \in BOOLEAN,
               RequestStop(k, inval, reflex)
        PROVE  AttendInv'
    <2> DEFINE plans == IF reflex \/ inval THEN ActivePlans ELSE {}
    <2>1. BeginStop(k, body, inval, plans, None, {})
      BY <1>3 DEF RequestStop
    <2>2. None \notin PlanCalls
      BY PlanAssumption DEF Calls
    <2> HIDE DEF plans
    <2> QED
      BY <1>0, <2>1, <2>2, BeginStopAttended
  <1>4. CASE ActionEnds \/ UNCHANGED vars
    <2>1. UNCHANGED <<body, revoked, spc, waiter>>
      BY <1>4 DEF ActionEnds, vars, planVars, stopVars
    <2> QED
      BY <2>1, NoStopBegunAttended DEF NoStopBegun, UnderWay
  <1>5. CASE InvalidateGeneration
    <2>1. body' = Invalidated(body) /\ UNCHANGED <<spc, waiter>>
      BY <1>5 DEF InvalidateGeneration, stopVars
    <2>2. body'.stop = "stopping" => /\ body.holder \in {"none", "unknown"}
                                     /\ body.stop = "stopping" /\ body'.holder = body.holder
      BY <1>0, <2>1, OperationsStop
    <2> QED
      BY <2>1, <2>2, NoStopBegunAttended DEF NoStopBegun, UnderWay
  <1> QED
    BY <1>1, <1>2, <1>3, <1>4, <1>5, CallStepAttended, PlanStepAttended DEF Next

(* For any number of overlapping stops, some lost with the call that       *)
(* awaits them: a Body that BodyControl records as stopping has a stop     *)
(* under way, so the verdict that admits the next call is still to come.   *)
THEOREM StoppingAttended == Spec => []StoppingHasStop
  <1>1. Init => AttendInv
    BY PlanAssumption
       DEF Init, AttendInv, WaitersYieldLife, StopAttended, FreeBody, Calls
  <1>2. TypeOK /\ AttendInv /\ [Next]_vars => AttendInv'
    BY NextAttended
  <1>3. AttendInv => StoppingHasStop
    BY DEF AttendInv, StopAttended, Attends, StoppingHasStop
  <1> QED
    BY <1>1, <1>2, <1>3, TypeCorrect, PTL DEF Spec

\* ----- a running claim has its owner ---------------------------------------

(* What is recorded while a claim runs: a call under its own generation,   *)
(* or a plan as its holder that nobody has revoked.                        *)
RunningIsHeld ==
    body.stop = "running" =>
        /\ body.holder \notin {"none", "unknown"}
        /\ body.claim \in AgentCalls \cup ThreatCalls => cgen[body.claim] = body.gen
        /\ body.claim \in Plans => /\ body.holder = PlanHolder(body.claim)
                                   /\ body.claim \notin revoked

(* A plan makes one call at a time, and holds the Body while it waits.     *)
Flying(c) == pc[c] \notin {"idle", "done"}
FlightHeld ==
    \A c \in PlanCalls : Flying(c) /\ pc[c] # "detached" => plan[PlanOf[c]] = "held"
OneInFlight ==
    \A c, d \in PlanCalls : Flying(c) /\ Flying(d) /\ PlanOf[c] = PlanOf[d] => c = d
FlightInv == FlightHeld /\ OneInFlight
HoldInv == RunningClaimHasOwner /\ RunningIsHeld

(* One call moves on, starts or ends, and may end its plan with it. *)
LEMMA FlightOfCall ==
    ASSUME TypeOK, FlightInv, NEW c \in Calls, NEW x \in CallStates,
           pc' = [pc EXCEPT ![c] = x],
           \/ x = "done" /\ Flying(c)
           \/ pc[c] \notin {"idle", "done", "detached"}
           \/ MayEnter(c)
           \/ c \notin PlanCalls,
           \/ plan' = plan
           \/ /\ x = "done" /\ c \in PlanCalls
              /\ plan' = [plan EXCEPT ![PlanOf[c]] = "over"]
    PROVE  FlightInv'
  <1>1. PlanCalls \subseteq Calls /\ PlanOf \in [PlanCalls -> Plans]
    BY PlanAssumption DEF Calls
  <1>2. pc'[c] = x /\ \A d \in PlanCalls \ {c} : pc'[d] = pc[d]
    BY <1>1 DEF TypeOK
  <1>3. ASSUME NEW d \in PlanCalls, d # c, Flying(d), c \in PlanCalls, PlanOf[c] = PlanOf[d]
        PROVE  ~ Flying(c) /\ ~ MayEnter(c)
    <2>1. d \in InFlight(PlanOf[c])
      BY <1>3 DEF InFlight, Flying
    <2> QED
      BY <1>3, <2>1 DEF FlightInv, OneInFlight, MayEnter
  <1>4. OneInFlight'
    <2> SUFFICES ASSUME NEW d \in PlanCalls, NEW e \in PlanCalls, Flying(d)', Flying(e)',
                        PlanOf[d] = PlanOf[e], d # e
                 PROVE  FALSE
      BY DEF OneInFlight
    <2>1. CASE d # c /\ e # c
      BY <1>2, <2>1 DEF FlightInv, OneInFlight, Flying
    <2>2. CASE d = c
      BY <1>2, <1>3, <2>2 DEF Flying
    <2>3. CASE e = c
      BY <1>2, <1>3, <2>3 DEF Flying
    <2> QED
      BY <2>1, <2>2, <2>3
  <1>5. FlightHeld'
    <2> SUFFICES ASSUME NEW d \in PlanCalls, Flying(d)', pc'[d] # "detached"
                 PROVE  plan'[PlanOf[d]] = "held"
      BY DEF FlightHeld
    <2>1. CASE d = c
      <3>1. x # "done" /\ plan' = plan
        BY <1>2, <2>1 DEF Flying
      <3>2. plan[PlanOf[c]] = "held"
        BY <2>1, <3>1 DEF FlightInv, FlightHeld, MayEnter, Flying
      <3> QED
        BY <2>1, <3>1, <3>2
    <2>2. CASE d # c
      <3>1. Flying(d) /\ plan[PlanOf[d]] = "held"
        BY <1>2, <2>2 DEF FlightInv, FlightHeld, Flying
      <3>2. CASE plan' = plan
        BY <3>1, <3>2
      <3>3. CASE /\ x = "done" /\ c \in PlanCalls
                 /\ plan' = [plan EXCEPT ![PlanOf[c]] = "over"]
        <4>1. PlanOf[c] # PlanOf[d]
          BY <1>3, <2>2, <3>1, <3>3 DEF Flying
        <4> QED
          BY <1>1, <3>1, <3>3, <4>1 DEF TypeOK
      <3> QED
        BY <3>2, <3>3
    <2> QED
      BY <2>1, <2>2
  <1> QED
    BY <1>4, <1>5 DEF FlightInv

(* A plan that does not hold the Body for a call moves on. *)
LEMMA FlightOfPlan ==
    ASSUME TypeOK, FlightInv, NEW p \in Plans, NEW y, pc' = pc,
           plan' = [plan EXCEPT ![p] = y],
           plan[p] # "held" \/ InFlight(p) = {}
    PROVE  FlightInv'
  <1>1. OneInFlight'
    BY DEF FlightInv, OneInFlight, Flying
  <1>2. FlightHeld'
    <2> SUFFICES ASSUME NEW d \in PlanCalls, Flying(d), pc[d] # "detached"
                 PROVE  plan'[PlanOf[d]] = "held"
      BY DEF FlightHeld, Flying
    <2>1. plan[PlanOf[d]] = "held" /\ PlanOf[d] \in Plans
      BY PlanAssumption DEF FlightInv, FlightHeld
    <2>2. PlanOf[d] # p
      BY <2>1 DEF InFlight, Flying
    <2> QED
      BY <2>1, <2>2 DEF TypeOK
  <1> QED
    BY <1>1, <1>2 DEF FlightInv

(* A step that admits nobody keeps the owner, if that goes on.             *)
SameOwner ==
    body'.stop = "running" =>
        /\ body' = body
        /\ body.claim \in AgentCalls \cup ThreatCalls =>
              /\ pc[body.claim] \in {"claimed", "lane"} => pc'[body.claim] \in {"claimed", "lane"}
              /\ cgen'[body.claim] = cgen[body.claim]
        /\ body.claim \in Plans =>
              /\ plan[body.claim] = "held" /\ body.claim \notin revoked =>
                    plan'[body.claim] = "held"
              /\ body.claim \notin revoked => body.claim \notin revoked'

LEMMA SameOwnerHolds ==
    ASSUME HoldInv, SameOwner
    PROVE  HoldInv'
  BY DEF HoldInv, RunningClaimHasOwner, RunningIsHeld, SameOwner

(* An owner that gives its claim back does not leave it running: a plan ... *)
LEMMA PlanGivesBack ==
    ASSUME TypeOK, GenerationMirrored, HoldInv, NEW p, PlanReleased(body, p).stop = "running"
    PROVE  PlanReleased(body, p) = body /\ body.claim # p
  <1>1. body \in BodyRecord
    BY DEF TypeOK
  <1>2. PlanReleased(body, p) = body
    BY <1>1, ReleaseFrees, OperationsStop
  <1>3. ASSUME body.claim = p PROVE FALSE
    <2>1. OwnsClaim(body, p)
      BY <1>2, <1>3 DEF OwnsClaim, HoldInv, RunningIsHeld, GenerationMirrored
    <2>2. PlanReleased(body, p) = Settled(body)
      BY <1>3, <2>1 DEF PlanReleased, SettledBy
    <2> QED
      BY <1>1, <2>2, OperationsStop
  <1> QED
    BY <1>2, <1>3

(* ... and a direct call. *)
LEMMA CallGivesBack ==
    ASSUME TypeOK, GenerationMirrored, HoldInv, NEW c \in AgentCalls \cup ThreatCalls,
           Released(c).stop = "running"
    PROVE  Released(c) = body /\ body.claim # c
  <1>1. body \in BodyRecord
    BY DEF TypeOK
  <1>2. Released(c) = body
    BY <1>1, CallReleaseFrees, OperationsStop
  <1>3. ASSUME body.claim = c PROVE FALSE
    <2>1. Owns(body, c, cgen[c])
      BY <1>2, <1>3 DEF Owns, OwnsClaim, HoldInv, RunningIsHeld, GenerationMirrored
    <2>2. Released(c) = Settled(body)
      BY <1>3, <2>1 DEF Released, SettledBy
    <2> QED
      BY <1>1, <2>2, OperationsStop
  <1> QED
    BY <1>2, <1>3

(* The holders calls and plans claim the Body as. *)
LEMMA HoldersOwn ==
    /\ \A p \in Plans : PlanHolder(p) \in {"life", "agent_plan"}
    /\ \A c \in Calls : HolderOf(c) \notin {"none", "unknown"}
    /\ \A c \in PlanCalls : HolderOf(c) = PlanHolder(PlanOf[c]) /\ ClaimOf(c) = PlanOf[c]
                            /\ PlanOf[c] \in Plans
    /\ \A c \in AgentCalls \cup ThreatCalls :
          ClaimOf(c) = c /\ c \notin PlanCalls /\ c \notin Plans
    /\ \A p \in Plans : p \notin AgentCalls \cup ThreatCalls
  <1>1. \A p \in Plans : PlanHolder(p) \in {"life", "agent_plan"}
    BY DEF PlanHolder
  <1>2. \A c \in PlanCalls : c \notin AgentCalls /\ c \notin ThreatCalls /\ PlanOf[c] \in Plans
    BY PlanAssumption, ClaimIds
  <1>3. \A c \in PlanCalls : HolderOf(c) = PlanHolder(PlanOf[c]) /\ ClaimOf(c) = PlanOf[c]
    BY <1>2 DEF HolderOf, ClaimOf
  <1>4. \A c \in AgentCalls \cup ThreatCalls :
           ClaimOf(c) = c /\ c \notin PlanCalls /\ c \notin Plans
    BY <1>2, PlanAssumption DEF ClaimOf
  <1>5. \A c \in AgentCalls \cup ThreatCalls : HolderOf(c) \in {"agent_call", "threat"}
    BY PlanAssumption DEF HolderOf
  <1>6. \A c \in Calls : HolderOf(c) \notin {"none", "unknown"}
    BY <1>1, <1>2, <1>3, <1>5 DEF Calls
  <1> QED
    BY <1>1, <1>2, <1>3, <1>4, <1>6

(* A call that is admitted, refused or sent to probe the Body. *)
LEMMA AdmissionHeld ==
    ASSUME TypeOK, GenerationMirrored, HoldInv, FlightInv, NEW c \in Calls,
           \/ TakeClaim(c, body) \/ TakeClaim(c, Settled(body)) \/ Refuse(c)
           \/ pc' = [pc EXCEPT ![c] = "probing"] /\ UNCHANGED <<body, cgen, plan>>,
           MayEnter(c) \/ pc[c] \in {"waitLife", "waitThreat", "probed"},
           c \in PlanCalls => PlanOf[c] \notin revoked',
           body.stop = "running" /\ body.claim \in Plans => body.claim \notin revoked'
    PROVE  HoldInv' /\ FlightInv'
  <1>0. body \in BodyRecord /\ Settled(body) \in BodyRecord
    BY BodyOperationsTyped DEF TypeOK
  <1>1. pc[c] \notin {"claimed", "lane"}
    BY DEF MayEnter
  <1>2. c \in PlanCalls => plan[PlanOf[c]] = "held"
    BY DEF MayEnter, FlightInv, FlightHeld, Flying
  <1>3. FlightInv'
    <2>1. PICK x \in CallStates :
             /\ pc' = [pc EXCEPT ![c] = x]
             /\ \/ plan' = plan
                \/ /\ x = "done" /\ c \in PlanCalls
                   /\ plan' = [plan EXCEPT ![PlanOf[c]] = "over"]
      BY DEF TakeClaim, Refuse, CallStates
    <2>2. pc[c] \notin {"idle", "done", "detached"} \/ MayEnter(c)
      OBVIOUS
    <2> QED
      BY <2>1, <2>2, FlightOfCall
  <1>4. HoldInv'
    <2>1. ASSUME NEW b \in {body, Settled(body)}, TakeClaim(c, b) PROVE HoldInv'
      <3>1. b \in BodyRecord
        BY <1>0
      <3>2. /\ body'.claim = ClaimOf(c) /\ body'.holder = HolderOf(c)
            /\ cgen'[c] = body'.gen /\ pc'[c] = "claimed" /\ plan' = plan
        BY <2>1, <3>1, OperationsStop DEF TakeClaim, TypeOK
      <3>3. CASE c \in PlanCalls
        BY <1>2, <3>2, <3>3, HoldersOwn DEF HoldInv, RunningClaimHasOwner, RunningIsHeld
      <3>4. CASE c \in AgentCalls \cup ThreatCalls
        BY <3>2, <3>4, HoldersOwn DEF HoldInv, RunningClaimHasOwner, RunningIsHeld
      <3> QED
        BY <3>3, <3>4 DEF Calls
    <2>2. CASE Refuse(c)
      <3>1. cgen' = cgen /\ \A d \in Calls \ {c} : pc'[d] = pc[d]
        BY <2>2 DEF Refuse, TypeOK
      <3>2. CASE c \in PlanCalls
        <4>1. /\ plan' = [plan EXCEPT ![PlanOf[c]] = "over"]
              /\ body' = PlanReleased(body, PlanOf[c])
          BY <2>2, <3>2 DEF Refuse
        <4>2. ASSUME body'.stop = "running" PROVE body' = body /\ body.claim # PlanOf[c]
          BY <4>1, <4>2, PlanGivesBack
        <4>3. SameOwner
          BY <3>1, <3>2, <4>1, <4>2, HoldersOwn DEF SameOwner, TypeOK, Calls
        <4> QED
          BY <4>3, SameOwnerHolds
      <3>3. CASE c \notin PlanCalls
        <4>1. UNCHANGED <<body, plan>>
          BY <2>2, <3>3 DEF Refuse
        <4>2. SameOwner
          BY <1>1, <3>1, <4>1 DEF SameOwner, Calls
        <4> QED
          BY <4>2, SameOwnerHolds
      <3> QED
        BY <3>2, <3>3
    <2>3. CASE pc' = [pc EXCEPT ![c] = "probing"] /\ UNCHANGED <<body, cgen, plan>>
      <3>1. SameOwner
        BY <1>1, <2>3 DEF SameOwner, TypeOK, Calls
      <3> QED
        BY <3>1, SameOwnerHolds
    <2> QED
      BY <2>1, <2>2, <2>3
  <1> QED
    BY <1>3, <1>4

(* After the beginning of a stop nothing is recorded as running. *)
LEMMA BeginStopHeld ==
    ASSUME NEW k, NEW b \in BodyRecord, NEW inval \in BOOLEAN, NEW plans, NEW w, NEW gone,
           BeginStop(k, b, inval, plans, w, gone)
    PROVE  HoldInv'
  <1>1. Stopping(b) \in BodyRecord /\ Stopping(b).stop = "stopping"
    BY BodyOperationsTyped, OperationsStop
  <1>2. body'.stop # "running"
    BY <1>1, OperationsStop DEF BeginStop
  <1> QED
    BY <1>2 DEF HoldInv, RunningClaimHasOwner, RunningIsHeld

LEMMA CallStepHeld ==
    ASSUME TypeOK, GenerationMirrored, HoldInv, FlightInv, NEW c \in Calls, CallStep(c)
    PROVE  HoldInv' /\ FlightInv'
  <1>0. body \in BodyRecord
    BY DEF TypeOK
  <1>1. CASE Enter(c) \/ LifeStopReturned(c) \/ ThreatGone(c) \/ AfterProbe(c)
    <2>1. MayEnter(c) \/ pc[c] \in {"waitLife", "waitThreat", "probed"}
      BY <1>1 DEF Enter, LifeStopReturned, ThreatGone, AfterProbe
    <2>2. \/ TakeClaim(c, body) \/ TakeClaim(c, Settled(body)) \/ Refuse(c)
          \/ pc' = [pc EXCEPT ![c] = "probing"] /\ UNCHANGED <<body, cgen, plan>>
      BY <1>1 DEF Enter, LifeStopReturned, ThreatGone, AfterProbe, Admit
    <2>3. /\ c \in PlanCalls => PlanOf[c] \notin revoked'
          /\ body.stop = "running" /\ body.claim \in Plans => body.claim \notin revoked'
      <3>1. /\ c \in PlanCalls => PlanOf[c] \notin revoked
            /\ body.stop = "running" /\ body.claim \in Plans =>
                  body.claim \notin revoked /\ body.holder = PlanHolder(body.claim)
        BY <1>1 DEF Enter, MayEnter, LifeStopReturned, ThreatGone, AfterProbe, Proceeds,
           HoldInv, RunningIsHeld
      <3>2. CASE Enter(c) /\ YieldsLife(c)
        <4>1. revoked' \subseteq revoked \cup LifePlans /\ ~ LifeHolds
          BY <3>2 DEF Enter, YieldedBy
        <4>2. c \in PlanCalls => PlanOf[c] \notin LifePlans
          BY <3>2, HoldersOwn DEF YieldsLife, PlanHolder
        <4>3. body.stop = "running" /\ body.claim \in Plans => body.claim \notin LifePlans
          BY <3>1, <4>1 DEF LifeHolds, PlanHolder
        <4> QED
          BY <3>1, <4>1, <4>2, <4>3
      <3>3. CASE ~ (Enter(c) /\ YieldsLife(c))
        <4>1. revoked' = revoked
          BY <1>1, <3>3 DEF Enter, LifeStopReturned, ThreatGone, AfterProbe, YieldedBy
        <4> QED
          BY <3>1, <4>1
      <3> QED
        BY <3>2, <3>3
    <2> QED
      BY <2>1, <2>2, <2>3, AdmissionHeld
  <1>2. ASSUME NEW k \in Stops, EnterStoppingLife(c, k) PROVE HoldInv' /\ FlightInv'
    <2>1. BeginStop(k, body, FALSE, YieldedBy(c), c, {})
      BY <1>2 DEF EnterStoppingLife
    <2>2. /\ pc' = [pc EXCEPT ![c] = "waitLife"] /\ plan' = plan /\ MayEnter(c)
          /\ "waitLife" \in CallStates
      BY <1>2 DEF EnterStoppingLife, CallStates
    <2> QED
      BY <1>0, <2>1, <2>2, BeginStopHeld, FlightOfCall
  <1>3. ASSUME NEW k \in Stops, AbandonCall(c, k) PROVE HoldInv' /\ FlightInv'
    <2> DEFINE b == IF pc[c] \in {"claimed", "lane"} THEN Released(c) ELSE body
    <2>1. b \in BodyRecord
      BY <1>0, CallReleaseTyped
    <2>2. BeginStop(k, b, TRUE, ActivePlans, None, {c})
      BY <1>3 DEF AbandonCall
    <2>3. PICK x \in CallStates : pc' = [pc EXCEPT ![c] = x]
      BY <1>3 DEF AbandonCall, CallStates
    <2>4. c \notin PlanCalls /\ plan' = plan
      BY <1>3, HoldersOwn DEF AbandonCall
    <2> HIDE DEF b
    <2> QED
      BY <2>1, <2>2, <2>3, <2>4, BeginStopHeld, FlightOfCall
  <1>4. CASE EnterWaitingThreat(c)
    <2>1. /\ pc' = [pc EXCEPT ![c] = "waitThreat"] /\ plan' = plan /\ MayEnter(c)
          /\ UNCHANGED <<body, cgen>> /\ "waitThreat" \in CallStates
          /\ revoked' \subseteq revoked \cup LifePlans /\ body.holder = "threat"
      BY <1>4 DEF EnterWaitingThreat, CallStates, ThreatHolds, YieldedBy
    <2>2. FlightInv'
      BY <2>1, FlightOfCall
    <2>3. pc[c] = "idle"
      BY <2>1 DEF MayEnter
    <2>4. body.stop = "running" /\ body.claim \in Plans => body.claim \notin LifePlans
      BY <2>1 DEF HoldInv, RunningIsHeld, PlanHolder
    <2>5. SameOwner
      BY <2>1, <2>3, <2>4 DEF SameOwner, TypeOK, Calls
    <2> QED
      BY <2>2, <2>5, SameOwnerHolds
  <1>5. CASE ThreatWaitExpired(c) \/ ReadProbe(c)
    <2>1. PICK x \in {"done", "probed"} : pc' = [pc EXCEPT ![c] = x]
      BY <1>5 DEF ThreatWaitExpired, ReadProbe
    <2>2. /\ pc[c] \in {"waitThreat", "probing"} /\ UNCHANGED <<body, cgen, plan, revoked>>
          /\ x \in CallStates
      BY <1>5 DEF ThreatWaitExpired, ReadProbe, planVars, CallStates
    <2>3. FlightInv'
      BY <2>1, <2>2, FlightOfCall
    <2>4. SameOwner
      BY <2>1, <2>2 DEF SameOwner, TypeOK, Calls
    <2> QED
      BY <2>3, <2>4, SameOwnerHolds
  <1>6. CASE Submit(c)
    <2>1. PICK x \in {"lane", "done"} :
             pc' = [pc EXCEPT ![c] = x] /\ (pc[c] = "claimed" => x = "lane")
                                        /\ (pc[c] # "claimed" => x = "done")
      BY <1>6 DEF Submit
    <2>2. /\ pc[c] \in {"claimed", "detached"} /\ UNCHANGED <<body, cgen, plan, revoked>>
          /\ x \in CallStates
      BY <1>6 DEF Submit, planVars, CallStates
    <2>3. FlightInv'
      BY <2>1, <2>2, FlightOfCall DEF Flying
    <2>4. SameOwner
      BY <2>1, <2>2 DEF SameOwner, TypeOK, Calls
    <2> QED
      BY <2>3, <2>4, SameOwnerHolds
  <1>7. CASE CollectDirect(c)
    <2>1. /\ pc' = [pc EXCEPT ![c] = "done"] /\ pc[c] = "lane" /\ UNCHANGED <<cgen, plan>>
          /\ body' = Collected(c) /\ c \in AgentCalls \cup ThreatCalls /\ "done" \in CallStates
          /\ revoked' = IF Invalidates(c) THEN revoked \cup ActivePlans ELSE revoked
      BY <1>7 DEF CollectDirect, CallStates
    <2>2. FlightInv'
      BY <2>1, FlightOfCall
    <2>3. ASSUME body'.stop = "running"
          PROVE  body' = body /\ body.claim # c /\ ~ Invalidates(c)
      <3>1. Released(c) \in BodyRecord
        BY CallReleaseTyped
      <3>2. body' \in {Released(c), Invalidated(Released(c))}
        BY <1>0, <2>1, <2>3, OperationsStop DEF Collected
      <3>3. Released(c).stop = "running"
        BY <2>3, <3>1, <3>2, OperationsStop
      <3>4. Released(c) = body /\ body.claim # c
        BY <2>1, <3>3, CallGivesBack
      <3>5. body.holder \notin {"none", "unknown"}
        BY <3>3, <3>4 DEF HoldInv, RunningIsHeld
      <3>6. body' # Invalidated(body)
        BY <1>0, <2>3, <3>5, OperationsStop
      <3>7. ~ Invalidates(c)
        BY <2>1, <3>4, <3>6 DEF Collected, Invalidates
      <3> QED
        BY <3>2, <3>4, <3>6, <3>7
    <2>4. SameOwner
      BY <2>1, <2>3 DEF SameOwner, TypeOK, Calls
    <2> QED
      BY <2>2, <2>4, SameOwnerHolds
  <1>8. CASE Readmit(c)
    <2>1. c \in AgentCalls /\ c \notin PlanCalls /\ ClaimOf(c) = c /\ c \notin Plans
      BY <1>8, HoldersOwn DEF Readmit
    <2>2. PICK x \in CallStates : pc' = [pc EXCEPT ![c] = x]
      BY <1>8 DEF Readmit, CallStates
    <2>3. UNCHANGED <<plan, revoked>>
      BY <1>8 DEF Readmit, planVars
    <2>4. FlightInv'
      BY <2>1, <2>2, <2>3, FlightOfCall
    <2>5. CASE CanClaim(body, c)
      <3>1. /\ body'.claim = c /\ body'.holder = HolderOf(c)
            /\ cgen'[c] = body'.gen /\ pc'[c] = "claimed"
        BY <1>0, <1>8, <2>5, OperationsStop DEF Readmit, TypeOK
      <3>2. HoldInv'
        BY <2>1, <3>1, HoldersOwn DEF HoldInv, RunningClaimHasOwner, RunningIsHeld
      <3> QED
        BY <2>4, <3>2
    <2>6. CASE ~ CanClaim(body, c)
      <3>1. pc' = [pc EXCEPT ![c] = "done"] /\ UNCHANGED <<body, cgen>>
        BY <1>8, <2>6 DEF Readmit
      <3>2. body.stop = "running" => body.claim # c
        BY <2>6 DEF CanClaim, Unconfirmed, BusyWith
      <3>3. SameOwner
        BY <2>3, <3>1, <3>2 DEF SameOwner, TypeOK, Calls
      <3> QED
        BY <2>4, <3>3, SameOwnerHolds
    <2> QED
      BY <2>5, <2>6
  <1>9. CASE CollectPlanCall(c)
    <2>1. /\ pc' = [pc EXCEPT ![c] = "done"] /\ pc[c] = "lane" /\ UNCHANGED <<cgen, plan, revoked>>
          /\ body' \in {body, MarkedUnknown(body)} /\ c \in PlanCalls /\ "done" \in CallStates
      BY <1>9 DEF CollectPlanCall, planVars, CallStates
    <2>2. FlightInv'
      BY <2>1, FlightOfCall
    <2>3. body'.stop = "running" => body' = body
      BY <1>0, <2>1, OperationsStop
    <2>4. SameOwner
      BY <2>1, <2>3, HoldersOwn DEF SameOwner, TypeOK, Calls
    <2> QED
      BY <2>2, <2>4, SameOwnerHolds
  <1>10. CASE PlanCallRaises(c)
    <2>1. /\ pc' = [pc EXCEPT ![c] = "done"] /\ pc[c] = "lane" /\ UNCHANGED <<cgen, revoked>>
          /\ plan' = [plan EXCEPT ![PlanOf[c]] = "over"] /\ c \in PlanCalls
          /\ body' = PlanReleased(body, PlanOf[c]) /\ "done" \in CallStates
      BY <1>10 DEF PlanCallRaises, CallStates
    <2>2. FlightInv'
      BY <2>1, FlightOfCall
    <2>3. body'.stop = "running" => body' = body /\ body.claim # PlanOf[c]
      BY <2>1, PlanGivesBack
    <2>4. SameOwner
      BY <2>1, <2>3, HoldersOwn DEF SameOwner, TypeOK, Calls
    <2> QED
      BY <2>2, <2>4, SameOwnerHolds
  <1> QED
    BY <1>1, <1>2, <1>3, <1>4, <1>5, <1>6, <1>7, <1>8, <1>9, <1>10, CallStep(c) DEF CallStep

LEMMA PlanStepHeld ==
    ASSUME TypeOK, GenerationMirrored, HoldInv, FlightInv, NEW p \in Plans, PlanStep(p)
    PROVE  HoldInv' /\ FlightInv'
  <1>0. body \in BodyRecord /\ Settled(body) \in BodyRecord
    BY BodyOperationsTyped DEF TypeOK
  <1>1. CASE StartPlan(p)
    <2>1. /\ plan' = [plan EXCEPT ![p] = "claiming"] /\ plan[p] = "idle"
          /\ UNCHANGED <<body, pc, cgen>>
      BY <1>1 DEF StartPlan, callVars
    <2>2. FlightInv'
      BY <2>1, FlightOfPlan
    <2>3. body.stop = "running" /\ body.claim \in Plans /\ body.claim \notin revoked =>
             body.claim \notin revoked'
      <3> SUFFICES ASSUME body.stop = "running", body.claim \in Plans,
                          body.claim \notin revoked, body.claim \in revoked'
                   PROVE  FALSE
        OBVIOUS
      <3>1. /\ p \notin LifePlans /\ body.claim \in ActivePlans /\ body.holder # "life"
            /\ ActivePlans \subseteq LifePlans
        BY <1>1 DEF StartPlan
      <3>2. body.holder = "life"
        BY <3>1 DEF HoldInv, RunningIsHeld, PlanHolder
      <3> QED
        BY <3>1, <3>2
    <2>4. SameOwner
      BY <2>1, <2>3 DEF SameOwner, TypeOK
    <2> QED
      BY <2>2, <2>4, SameOwnerHolds
  <1>2. ASSUME NEW k \in Stops, StartPlanStoppingLife(p, k) PROVE HoldInv' /\ FlightInv'
    <2>1. BeginStop(k, body, FALSE, ActivePlans, None, {})
      BY <1>2 DEF StartPlanStoppingLife
    <2>2. plan' = [plan EXCEPT ![p] = "claiming"] /\ plan[p] = "idle" /\ pc' = pc
      BY <1>2 DEF StartPlanStoppingLife, callVars
    <2> QED
      BY <1>0, <2>1, <2>2, BeginStopHeld, FlightOfPlan
  <1>3. ASSUME NEW b \in {body, Settled(body)}, body' = Claimed(b, p, PlanHolder(p)),
               plan' = [plan EXCEPT ![p] = "held"], plan[p] # "held", p \notin revoked,
               UNCHANGED <<pc, revoked>>
        PROVE  HoldInv' /\ FlightInv'
    <2>1. FlightInv'
      BY <1>3, FlightOfPlan
    <2>2. body'.claim = p /\ body'.holder = PlanHolder(p) /\ plan'[p] = "held"
      BY <1>0, <1>3, OperationsStop DEF TypeOK
    <2>3. HoldInv'
      BY <1>3, <2>2, HoldersOwn DEF HoldInv, RunningClaimHasOwner, RunningIsHeld
    <2> QED
      BY <2>1, <2>3
  <1>4. ASSUME body' = PlanReleased(body, p), NEW y, plan' = [plan EXCEPT ![p] = y],
               plan[p] # "held" \/ InFlight(p) = {}, UNCHANGED <<pc, cgen, revoked>>
        PROVE  HoldInv' /\ FlightInv'
    <2>1. FlightInv'
      BY <1>4, FlightOfPlan
    <2>2. body'.stop = "running" => body' = body /\ body.claim # p
      BY <1>4, PlanGivesBack
    <2>3. SameOwner
      BY <1>4, <2>2 DEF SameOwner, TypeOK
    <2> QED
      BY <2>1, <2>3, SameOwnerHolds
  <1>5. ASSUME NEW y, plan' = [plan EXCEPT ![p] = y], plan[p] # "held",
               UNCHANGED <<body, pc, cgen, revoked>>
        PROVE  HoldInv' /\ FlightInv'
    <2>1. FlightInv'
      BY <1>5, FlightOfPlan
    <2>2. SameOwner
      BY <1>5 DEF SameOwner, TypeOK
    <2> QED
      BY <2>1, <2>2, SameOwnerHolds
  <1>6. CASE PlanClaim(p)
    BY <1>3, <1>5, <1>6 DEF PlanClaim, callVars
  <1>7. CASE PlanReadProbe(p) \/ PlanWakes(p)
    BY <1>5, <1>7 DEF PlanReadProbe, PlanWakes, callVars
  <1>8. CASE PlanAfterProbe(p)
    BY <1>3, <1>4, <1>8 DEF PlanAfterProbe, callVars
  <1>9. CASE PlanSleeps(p) \/ PlanFinishes(p)
    BY <1>4, <1>9 DEF PlanSleeps, PlanFinishes, callVars
  <1>10. CASE PlanUnwinds(p)
    <2>1. /\ plan' = [plan EXCEPT ![p] = "over"] /\ UNCHANGED <<body, cgen, revoked>>
          /\ p \in revoked
          /\ pc' = [d \in Calls |->
                      IF d \notin InFlight(p) THEN pc[d]
                      ELSE IF pc[d] \in {"claimed", "detached"} THEN "detached" ELSE "done"]
      BY <1>10 DEF PlanUnwinds
    <2>2. /\ \A d \in Calls : d \notin InFlight(p) => pc'[d] = pc[d]
          /\ \A d \in Calls : d \in InFlight(p) => pc'[d] \in {"detached", "done"}
      BY <2>1
    <2>3. PlanCalls \subseteq Calls /\ PlanOf \in [PlanCalls -> Plans]
      BY PlanAssumption DEF Calls
    <2>4. OneInFlight'
      <3>1. \A d \in PlanCalls : Flying(d)' => Flying(d)
        BY <2>2, <2>3 DEF Flying, InFlight
      <3> QED
        BY <3>1 DEF FlightInv, OneInFlight
    <2>5. FlightHeld'
      <3> SUFFICES ASSUME NEW d \in PlanCalls, Flying(d)', pc'[d] # "detached"
                   PROVE  plan'[PlanOf[d]] = "held"
        BY DEF FlightHeld
      <3>1. d \notin InFlight(p)
        BY <2>2, <2>3 DEF Flying
      <3>2. pc'[d] = pc[d]
        BY <2>2, <2>3, <3>1
      <3>3. PlanOf[d] # p /\ plan[PlanOf[d]] = "held"
        BY <3>1, <3>2 DEF InFlight, Flying, FlightInv, FlightHeld
      <3> QED
        BY <2>1, <2>3, <3>3 DEF TypeOK
    <2>6. SameOwner
      <3>1. \A d \in AgentCalls \cup ThreatCalls : pc'[d] = pc[d]
        BY <2>2, HoldersOwn DEF InFlight, Calls
      <3> QED
        BY <2>1, <3>1 DEF SameOwner, TypeOK
    <2> QED
      BY <2>4, <2>5, <2>6, SameOwnerHolds DEF FlightInv
  <1> QED
    BY <1>1, <1>2, <1>6, <1>7, <1>8, <1>9, <1>10, PlanStep(p) DEF PlanStep

LEMMA NextHeld ==
    ASSUME TypeOK, GenerationMirrored, HoldInv, FlightInv, [Next]_vars
    PROVE  HoldInv' /\ FlightInv'
  <1>0. body \in BodyRecord
    BY DEF TypeOK
  <1>1. ASSUME UNCHANGED <<pc, cgen, plan>>,
               body'.stop = "running" => body' = body /\ revoked' = revoked
        PROVE  HoldInv' /\ FlightInv'
    <2>1. SameOwner
      BY <1>1 DEF SameOwner
    <2> QED
      BY <1>1, <2>1, SameOwnerHolds DEF FlightInv, FlightHeld, OneInFlight, Flying
  <1>2. ASSUME NEW c \in Calls, WorkerStep(c) PROVE HoldInv' /\ FlightInv'
    BY <1>1, <1>2 DEF WorkerStep, StartCallback, Checkpoint, StartAction, ActionTimesOut,
       TransportFails, CheckGeneration, ReturnResult, planVars, callVars
  <1>3. ASSUME NEW k \in Stops, StopStep(k) PROVE HoldInv' /\ FlightInv'
    <2>1. UNCHANGED <<pc, cgen, plan, revoked>>
      BY <1>3 DEF StopStep, Interrupt, AwaitLane, StopReadProbe, StopProbesAgain,
         FinishStop, planVars, callVars
    <2>2. body' \in {body, Settled(body), MarkedUnknown(body)}
      BY <1>3 DEF StopStep, Interrupt, AwaitLane, StopReadProbe, StopProbesAgain, FinishStop
    <2> QED
      BY <1>0, <1>1, <2>1, <2>2, OperationsStop
  <1>4. ASSUME NEW k \in Stops, NEW inval \in BOOLEAN, NEW reflex \in BOOLEAN,
               RequestStop(k, inval, reflex)
        PROVE  HoldInv' /\ FlightInv'
    <2> DEFINE plans == IF reflex \/ inval THEN ActivePlans ELSE {}
    <2>1. BeginStop(k, body, inval, plans, None, {}) /\ UNCHANGED <<pc, plan>>
      BY <1>4 DEF RequestStop, callVars
    <2> HIDE DEF plans
    <2> QED
      BY <1>0, <2>1, BeginStopHeld DEF FlightInv, FlightHeld, OneInFlight, Flying
  <1>5. CASE ActionEnds \/ UNCHANGED vars
    BY <1>1, <1>5 DEF ActionEnds, vars, planVars, callVars
  <1>6. CASE InvalidateGeneration
    <2>1. body' = Invalidated(body) /\ UNCHANGED <<pc, cgen, plan>>
      BY <1>6 DEF InvalidateGeneration, callVars
    <2>2. body'.stop # "running"
      BY <1>0, <2>1, OperationsStop DEF HoldInv, RunningIsHeld
    <2> QED
      BY <1>1, <2>1, <2>2
  <1> QED
    BY <1>2, <1>3, <1>4, <1>5, <1>6, CallStepHeld, PlanStepHeld DEF Next

(* For every set of calls, plans and stops: a claim that BodyControl       *)
(* records as running belongs to a call that is going on or to a plan that *)
(* holds it, through refusals, exceptions, yields and unwinding, so it     *)
(* will be given back and never blocks the Body for good.                  *)
THEOREM RunningClaimOwned == Spec => []RunningClaimHasOwner
  <1>1. Init => HoldInv /\ FlightInv
    BY PlanAssumption
       DEF Init, FreeBody, HoldInv, RunningClaimHasOwner, RunningIsHeld, FlightInv,
           FlightHeld, OneInFlight, Flying, Calls
  <1>2. TypeOK /\ GenerationMirrored /\ HoldInv /\ FlightInv /\ [Next]_vars =>
           (HoldInv /\ FlightInv)'
    BY NextHeld
  <1>3. HoldInv => RunningClaimHasOwner
    BY DEF HoldInv
  <1> QED
    BY <1>1, <1>2, <1>3, TypeCorrect, RecordKeepsUp, PTL DEF Spec

\* ----- a generation names one owner ----------------------------------------

(* A Body that nobody is known to hold is quarantined, so claim() refuses  *)
(* it and never takes it for the asker's own.                              *)
UnknownUnconfirmed == body.holder = "unknown" => Unconfirmed(body)

(* The generation in force belongs to the recorded holder.  This is what   *)
(* lets the holder ask again without a new generation.                     *)
OwnerTagged ==
    body.holder \notin {"none", "unknown"} =>
        \A c \in Calls : cgen[c] = body.auth /\ cgen[c] # 0 => ClaimOf(c) = body.claim
TagInv == GenerationsIdentifyOwners /\ OwnerTagged /\ UnknownUnconfirmed

(* Steps that admit nobody: the generation moves on, the Body is nobody's, *)
(* or it has the holder it had.                                            *)
Follows(b, r) ==
    /\ \/ r.auth > b.auth
       \/ r.auth = b.auth /\ r.holder \in {"none", "unknown"}
       \/ r.auth = b.auth /\ r.holder = b.holder /\ r.claim = b.claim
    /\ r.holder = "unknown" => Unconfirmed(r)

LEMMA FollowsTagged ==
    ASSUME TypeOK, AdmissionsCurrent, TagInv, cgen' = cgen, Follows(body, body'),
           body'.auth \in Nat
    PROVE  TagInv'
  <1>0. body.auth \in Nat /\ cgen \in [Calls -> Nat]
    BY DEF TypeOK, BodyRecord
  <1>1. GenerationsIdentifyOwners'
    BY DEF TagInv, GenerationsIdentifyOwners
  <1>2. UnknownUnconfirmed'
    BY DEF Follows, UnknownUnconfirmed, Unconfirmed
  <1>3. OwnerTagged'
    <2>1. CASE body'.auth > body.auth
      <3>1. \A c \in Calls : cgen'[c] # body'.auth
        BY <1>0, <2>1 DEF AdmissionsCurrent
      <3> QED
        BY <3>1 DEF OwnerTagged
    <2>2. CASE body'.auth = body.auth /\ body'.holder \in {"none", "unknown"}
      BY <2>2 DEF OwnerTagged
    <2>3. CASE body'.auth = body.auth /\ body'.holder = body.holder /\ body'.claim = body.claim
      BY <2>3 DEF TagInv, OwnerTagged
    <2> QED
      BY <2>1, <2>2, <2>3 DEF Follows
  <1> QED
    BY <1>1, <1>2, <1>3 DEF TagInv

(* The operations of BodyControl other than claim(), and what callers make *)
(* of them.                                                                *)
LEMMA OperationsFollow ==
    ASSUME TypeOK, GenerationMirrored, UnknownUnconfirmed,
           NEW b \in {body, Settled(body)}
    PROVE  /\ Follows(body, b) /\ Follows(body, MarkedUnknown(b))
           /\ Follows(body, Stopping(b)) /\ Follows(body, Invalidated(b))
           /\ Follows(body, Invalidated(Stopping(b)))
  <1>1. /\ body \in BodyRecord /\ body.gen = body.auth /\ body.auth \in Nat
        /\ body.holder = "unknown" => body.stop \in {"unknown", "stopping"}
    BY DEF TypeOK, GenerationMirrored, UnknownUnconfirmed, Unconfirmed, BodyRecord
  <1>2. /\ b \in BodyRecord /\ b.gen = b.auth /\ b.auth = body.auth
        /\ b.holder = "unknown" => b.stop \in {"unknown", "stopping"}
    <2>1. Settled(body) \in BodyRecord
      BY <1>1, BodyOperationsTyped
    <2>2. Settled(body).gen = body.auth /\ Settled(body).auth = body.auth
      BY <1>1, OperationsForward
    <2>3. Settled(body).holder = "none"
      BY <1>1, OperationsStop
    <2> QED
      BY <1>1, <2>1, <2>2, <2>3
  <1>3. Follows(body, b)
    BY <1>1, <1>2, OperationsStop DEF Follows, Unconfirmed
  <1>4. Follows(body, MarkedUnknown(b))
    BY <1>1, <1>2, OperationsStop, OperationsForward DEF Follows, Unconfirmed
  <1>5. /\ Stopping(b) \in BodyRecord /\ Stopping(b).auth = body.auth + 1
        /\ Stopping(b).gen = body.auth + 1 /\ Stopping(b).stop = "stopping"
    <2>1. Stopping(b) \in BodyRecord
      BY <1>2, BodyOperationsTyped
    <2>2. Stopping(b).auth = b.auth + 1 /\ Stopping(b).gen = b.auth + 1
      BY <1>2, OperationsForward
    <2>3. Stopping(b).stop = "stopping"
      BY <1>2, OperationsStop
    <2> QED
      BY <1>2, <2>1, <2>2, <2>3
  <1>6. Follows(body, Stopping(b))
    BY <1>1, <1>5 DEF Follows, Unconfirmed
  <1>7. Invalidated(b).auth = body.auth + 1
    BY <1>2, OperationsForward
  <1>8. Invalidated(b).holder = "unknown" => Invalidated(b).stop \in {"unknown", "stopping"}
    BY <1>2, OperationsStop
  <1>9. Follows(body, Invalidated(b))
    BY <1>1, <1>7, <1>8 DEF Follows, Unconfirmed
  <1>10. Invalidated(Stopping(b)).auth = body.auth + 1 + 1
    BY <1>5, OperationsForward
  <1>11. Invalidated(Stopping(b)).stop \in {"unknown", "stopping"}
    BY <1>5, OperationsStop
  <1>12. Follows(body, Invalidated(Stopping(b)))
    BY <1>1, <1>10, <1>11 DEF Follows, Unconfirmed
  <1> QED
    BY <1>3, <1>4, <1>6, <1>9, <1>12

(* claim(): a new claim has a generation that no admission carries yet,    *)
(* and the holder asking again gets the one it has.                        *)
LEMMA ClaimTagged ==
    ASSUME TypeOK, GenerationMirrored, AdmissionsCurrent, TagInv, NEW x, NEW h, NEW b,
           b = Settled(body) \/ (b = body /\ CanClaim(body, x)),
           h \notin {"none", "unknown"}, body' = Claimed(b, x, h),
           \A d \in Calls : \/ cgen'[d] = cgen[d]
                            \/ ClaimOf(d) = x /\ cgen'[d] = body'.gen
    PROVE  TagInv'
  <1>0. body \in BodyRecord /\ body.gen = body.auth /\ body.auth \in Nat /\ cgen \in [Calls -> Nat]
    BY DEF TypeOK, GenerationMirrored, BodyRecord
  <1>1. b.auth = body.auth /\ b.gen = body.auth /\ b \in BodyRecord
    BY <1>0, OperationsForward, BodyOperationsTyped
  <1>2. body'.holder = h /\ body'.claim = x
    BY <1>1, OperationsStop
  <1>3. UnknownUnconfirmed'
    BY <1>2 DEF UnknownUnconfirmed
  <1>4. /\ \A c \in Calls : cgen'[c] = body'.auth /\ cgen'[c] # 0 => ClaimOf(c) = x
        /\ body'.gen = body'.auth /\ body'.auth \in {body.auth, body.auth + 1}
    <2>1. CASE b.claim # x \/ b.holder = "none"
      <3>1. body'.auth = body.auth + 1 /\ body'.gen = body.auth + 1
        BY <1>1, <2>1 DEF Claimed
      <3>2. \A c \in Calls : cgen[c] # body'.auth
        BY <1>0, <3>1 DEF AdmissionsCurrent
      <3> QED
        BY <3>1, <3>2
    <2>2. CASE b.claim = x /\ b.holder # "none"
      <3>1. body'.auth = body.auth /\ body'.gen = body.auth
        BY <1>1, <2>2 DEF Claimed
      <3>2. b = body /\ CanClaim(body, x)
        BY <1>0, <2>2, OperationsStop
      <3>3. body.holder \notin {"none", "unknown"} /\ body.claim = x
        BY <2>2, <3>2 DEF TagInv, UnknownUnconfirmed, CanClaim
      <3>4. \A c \in Calls : cgen[c] = body.auth /\ cgen[c] # 0 => ClaimOf(c) = x
        BY <3>3 DEF TagInv, OwnerTagged
      <3> QED
        BY <3>1, <3>4
    <2> QED
      BY <2>1, <2>2
  <1>5. OwnerTagged'
    BY <1>2, <1>4 DEF OwnerTagged
  <1>6. GenerationsIdentifyOwners'
    <2> SUFFICES ASSUME NEW c \in Calls, NEW d \in Calls,
                        cgen'[c] = cgen'[d], cgen'[c] # 0
                 PROVE  ClaimOf(c) = ClaimOf(d)
      BY DEF GenerationsIdentifyOwners
    <2>1. CASE cgen'[c] = body'.auth
      BY <1>4, <2>1
    <2>2. CASE cgen'[c] # body'.auth
      <3>1. cgen'[c] = cgen[c] /\ cgen'[d] = cgen[d]
        BY <1>4, <2>2
      <3> QED
        BY <3>1 DEF TagInv, GenerationsIdentifyOwners
    <2> QED
      BY <2>1, <2>2
  <1> QED
    BY <1>3, <1>5, <1>6 DEF TagInv

(* A call that is admitted, refused or sent to probe the Body. *)
LEMMA AdmissionTagged ==
    ASSUME TypeOK, TypeOK', GenerationMirrored, AdmissionsCurrent, TagInv, NEW c \in Calls,
           \/ CanClaim(body, ClaimOf(c)) /\ TakeClaim(c, body)
           \/ TakeClaim(c, Settled(body)) \/ Refuse(c) \/ UNCHANGED <<body, cgen>>
    PROVE  TagInv'
  <1>0. body \in BodyRecord /\ body'.auth \in Nat
    BY DEF TypeOK, BodyRecord
  <1>1. ASSUME NEW b, TakeClaim(c, b),
               b = Settled(body) \/ (b = body /\ CanClaim(body, ClaimOf(c)))
        PROVE  TagInv'
    <2>1. /\ body' = Claimed(b, ClaimOf(c), HolderOf(c))
          /\ cgen' = [cgen EXCEPT ![c] = body'.gen]
      BY <1>1 DEF TakeClaim
    <2>2. \A d \in Calls : \/ cgen'[d] = cgen[d]
                           \/ ClaimOf(d) = ClaimOf(c) /\ cgen'[d] = body'.gen
      BY <2>1 DEF TypeOK
    <2>3. HolderOf(c) \notin {"none", "unknown"}
      BY HoldersOwn
    <2> QED
      BY <1>1, <2>1, <2>2, <2>3, ClaimTagged
  <1>2. ASSUME body' \in {body, Settled(body)}, cgen' = cgen
        PROVE  TagInv'
    <2>1. Follows(body, body')
      BY <1>2, OperationsFollow DEF TagInv
    <2> QED
      BY <1>0, <1>2, <2>1, FollowsTagged
  <1>3. CASE Refuse(c)
    BY <1>0, <1>2, <1>3, ReleaseFrees DEF Refuse
  <1> QED
    BY <1>1, <1>2, <1>3

LEMMA NextTagged ==
    ASSUME TypeOK, TypeOK', GenerationMirrored, AdmissionsCurrent, TagInv, [Next]_vars
    PROVE  TagInv'
  <1>0. body \in BodyRecord /\ body'.auth \in Nat
    BY DEF TypeOK, BodyRecord
  <1>1. ASSUME Follows(body, body'), cgen' = cgen PROVE TagInv'
    BY <1>0, <1>1, FollowsTagged
  <1>2. Follows(body, body) /\ Follows(body, Settled(body)) /\ Follows(body, MarkedUnknown(body))
        /\ Follows(body, Invalidated(body)) /\ Follows(body, Invalidated(Settled(body)))
    BY OperationsFollow DEF TagInv
  <1>3. ASSUME NEW k, NEW b \in {body, Settled(body)}, NEW inval, NEW plans, NEW w, NEW gone,
               BeginStop(k, b, inval, plans, w, gone), cgen' = cgen
        PROVE  TagInv'
    <2>1. body' \in {Stopping(b), Invalidated(Stopping(b))}
      BY <1>3 DEF BeginStop
    <2> QED
      BY <1>1, <1>3, <2>1, OperationsFollow DEF TagInv
  <1>4. ASSUME NEW c \in Calls, CallStep(c) PROVE TagInv'
    <2>1. CASE Admit(c)
      BY <2>1, AdmissionTagged DEF Admit
    <2>2. CASE AfterProbe(c)
      BY <2>2, AdmissionTagged DEF AfterProbe
    <2>3. CASE \/ EnterWaitingThreat(c) \/ ThreatWaitExpired(c) \/ ReadProbe(c) \/ Submit(c)
      BY <1>1, <1>2, <2>3 DEF EnterWaitingThreat, ThreatWaitExpired, ReadProbe, Submit
    <2>4. CASE CollectDirect(c)
      <3>1. Collected(c) \in {MarkedUnknown(body), Invalidated(Released(c)), Released(c)}
        BY DEF Collected
      <3> QED
        BY <1>1, <1>2, <2>4, <3>1, CallReleaseFrees DEF CollectDirect
    <2>5. CASE Readmit(c)
      <3>1. CASE CanClaim(body, c)
        <4>1. /\ body' = Claimed(body, c, HolderOf(c)) /\ c \in AgentCalls
              /\ cgen' = [cgen EXCEPT ![c] = body'.gen]
          BY <2>5, <3>1 DEF Readmit
        <4>2. ClaimOf(c) = c /\ HolderOf(c) \notin {"none", "unknown"}
          BY <4>1, HoldersOwn
        <4>3. \A d \in Calls : cgen'[d] = cgen[d] \/ (ClaimOf(d) = c /\ cgen'[d] = body'.gen)
          BY <4>1, <4>2 DEF TypeOK
        <4> QED
          BY <3>1, <4>1, <4>2, <4>3, ClaimTagged
      <3>2. CASE ~ CanClaim(body, c)
        BY <1>1, <1>2, <2>5, <3>2 DEF Readmit
      <3> QED
        BY <3>1, <3>2
    <2>6. CASE CollectPlanCall(c)
      BY <1>1, <1>2, <2>6 DEF CollectPlanCall
    <2>7. CASE PlanCallRaises(c)
      BY <1>0, <1>1, <1>2, <2>7, ReleaseFrees DEF PlanCallRaises
    <2>8. ASSUME NEW k \in Stops, EnterStoppingLife(c, k) PROVE TagInv'
      BY <1>3, <2>8 DEF EnterStoppingLife
    <2>9. ASSUME NEW k \in Stops, AbandonCall(c, k) PROVE TagInv'
      <3> DEFINE b == IF pc[c] \in {"claimed", "lane"} THEN Released(c) ELSE body
      <3>1. BeginStop(k, b, TRUE, ActivePlans, None, {c}) /\ cgen' = cgen
        BY <2>9 DEF AbandonCall
      <3>2. b \in {body, Settled(body)}
        BY CallReleaseFrees
      <3> HIDE DEF b
      <3> QED
        BY <1>3, <3>1, <3>2
    <2> QED
      BY <1>4, <2>1, <2>2, <2>3, <2>4, <2>5, <2>6, <2>7, <2>8, <2>9
         DEF CallStep, Enter, LifeStopReturned, ThreatGone
  <1>5. ASSUME NEW p \in Plans, PlanStep(p) PROVE TagInv'
    <2>1. ASSUME NEW b, b = Settled(body) \/ (b = body /\ CanClaim(body, p)),
                 body' = Claimed(b, p, PlanHolder(p)), cgen' = cgen
          PROVE  TagInv'
      <3>1. PlanHolder(p) \notin {"none", "unknown"}
        BY HoldersOwn
      <3> QED
        BY <2>1, <3>1, ClaimTagged
    <2>2. CASE PlanClaim(p)
      BY <1>1, <1>2, <2>1, <2>2 DEF PlanClaim, callVars
    <2>3. CASE PlanAfterProbe(p)
      BY <1>0, <1>1, <1>2, <2>1, <2>3, ReleaseFrees DEF PlanAfterProbe, callVars
    <2>4. CASE \/ StartPlan(p) \/ PlanReadProbe(p) \/ PlanSleeps(p) \/ PlanWakes(p)
               \/ PlanFinishes(p) \/ PlanUnwinds(p)
      BY <1>0, <1>1, <1>2, <2>4, ReleaseFrees
         DEF StartPlan, PlanReadProbe, PlanSleeps, PlanWakes, PlanFinishes, PlanUnwinds, callVars
    <2>5. ASSUME NEW k \in Stops, StartPlanStoppingLife(p, k) PROVE TagInv'
      BY <1>3, <2>5 DEF StartPlanStoppingLife, callVars
    <2> QED
      BY <1>5, <2>2, <2>3, <2>4, <2>5 DEF PlanStep
  <1>6. ASSUME NEW c \in Calls, WorkerStep(c) PROVE TagInv'
    BY <1>1, <1>2, <1>6 DEF WorkerStep, StartCallback, Checkpoint, StartAction, ActionTimesOut,
       TransportFails, CheckGeneration, ReturnResult, callVars
  <1>7. ASSUME NEW k \in Stops, StopStep(k) PROVE TagInv'
    BY <1>1, <1>2, <1>7 DEF StopStep, Interrupt, AwaitLane, StopReadProbe, StopProbesAgain,
       FinishStop, callVars
  <1>8. ASSUME NEW k \in Stops, NEW inval \in BOOLEAN, NEW reflex \in BOOLEAN,
               RequestStop(k, inval, reflex)
        PROVE  TagInv'
    BY <1>3, <1>8 DEF RequestStop, callVars
  <1>9. CASE ActionEnds \/ InvalidateGeneration \/ UNCHANGED vars
    BY <1>1, <1>2, <1>9 DEF ActionEnds, InvalidateGeneration, vars, callVars
  <1> QED
    BY <1>4, <1>5, <1>6, <1>7, <1>8, <1>9 DEF Next

(* For every set of calls, plans and stops: two admissions by run_tool or  *)
(* by a readmission carry the same claim_generation only if they are of    *)
(* the same claim, so that is_stale never takes the late result of one     *)
(* owner for another's.                                                    *)
THEOREM GenerationsAreOwners == Spec => []GenerationsIdentifyOwners
  <1>1. Init => TagInv
    BY DEF Init, FreeBody, TagInv, GenerationsIdentifyOwners, OwnerTagged, UnknownUnconfirmed
  <1>2. TypeOK /\ TypeOK' /\ StopInv /\ TagInv /\ [Next]_vars => TagInv'
    BY NextTagged DEF StopInv
  <1>3. TagInv => GenerationsIdentifyOwners
    BY DEF TagInv
  <1> QED
    BY <1>1, <1>2, <1>3, TypeCorrect, StopInvHolds, PTL DEF Spec
=============================================================================
