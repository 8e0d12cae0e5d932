------------------------ MODULE BodyOwnershipProofs ------------------------
(***************************************************************************)
(* What holds of BodyOwnership for every set of calls, plans and stops:    *)
(* type correctness, and no Body write after a stop.                       *)
(***************************************************************************)
EXTENDS BodyOwnership, TLAPS

(* Every operation of BodyControl returns a well-formed record. *)
LEMMA BodyOperationsTyped ==
    ASSUME NEW b \in BodyRecord
    PROVE  /\ Stopping(b) \in BodyRecord
           /\ Settled(b) \in BodyRecord
           /\ MarkedUnknown(b) \in BodyRecord
           /\ Invalidated(b) \in BodyRecord
           /\ \A c : SettledBy(b, c) \in BodyRecord
           /\ \A c \in Claims, h \in Holders : Claimed(b, c, h) \in BodyRecord
  <1>0. b.auth + 1 \in Nat
    BY DEF BodyRecord
  <1>1. Settled(b) \in BodyRecord
    BY DEF BodyRecord, Holders, StopStates, Settled
  <1>2. Stopping(b) \in BodyRecord
    <2> DEFINE g == b.auth + 1
    <2>1. g \in Nat
      BY <1>0
    <2>2. Stopping(b) = [b EXCEPT !.stop = "stopping", !.gen = g, !.auth = g]
      BY DEF Stopping
    <2> HIDE DEF g
    <2> QED
      BY <2>1, <2>2 DEF BodyRecord, StopStates
  <1>3. MarkedUnknown(b) \in BodyRecord
    BY DEF BodyRecord, Holders, StopStates, MarkedUnknown
  <1>4. Invalidated(b) \in BodyRecord
    <2> DEFINE g == b.auth + 1
               bumped == [b EXCEPT !.auth = g, !.gen = g]
    <2>1. g \in Nat
      BY <1>0
    <2>2. Invalidated(b) = IF b.holder \notin {"none", "unknown"}
                           THEN [bumped EXCEPT !.holder = "unknown", !.stop = "unknown"]
                           ELSE bumped
      BY DEF Invalidated
    <2> HIDE DEF g
    <2>3. bumped \in BodyRecord
      BY <2>1 DEF BodyRecord
    <2> HIDE DEF bumped
    <2> QED
      BY <2>2, <2>3 DEF BodyRecord, Holders, StopStates
  <1>5. \A c : SettledBy(b, c) \in BodyRecord
    BY <1>1 DEF SettledBy
  <1>6. ASSUME NEW c \in Claims, NEW h \in Holders
        PROVE  Claimed(b, c, h) \in BodyRecord
    BY DEF BodyRecord, StopStates, Claimed
  <1> QED
    BY <1>1, <1>2, <1>3, <1>4, <1>5, <1>6

(* A call's claim id and holder are those BodyControl knows. *)
LEMMA ClaimOfCall ==
    ASSUME NEW c \in Calls
    PROVE  ClaimOf(c) \in Claims /\ HolderOf(c) \in Holders
  BY ClaimIds, PlanAssumption
     DEF Calls, ClaimOf, HolderOf, PlanHolder, Holders

(* A plan's id is a claim id, and its holder one that BodyControl knows. *)
LEMMA PlanIsClaim ==
    ASSUME NEW p \in Plans
    PROVE  p \in Claims /\ PlanHolder(p) \in Holders
  BY ClaimIds DEF PlanHolder, Holders

(* The initial state is well typed. *)
LEMMA InitTypeOK == Init => TypeOK
  BY BoundAssumption, NoneIsNoClaim
     DEF Init, TypeOK, FreeBody, BodyRecord, Holders, StopStates, CallStates,
         FutureStates, Executing, Results, PlanStates, StopPcs

(* A plan that gives its claim back leaves a well-formed record ... *)
LEMMA ReleaseTyped ==
    ASSUME NEW b \in BodyRecord, NEW p
    PROVE  PlanReleased(b, p) \in BodyRecord
  <1>1. SettledBy(b, p) \in BodyRecord
    BY BodyOperationsTyped
  <1>2. CASE OwnsClaim(b, p)
    BY <1>1, <1>2 DEF PlanReleased
  <1>3. CASE ~ OwnsClaim(b, p)
    BY <1>3 DEF PlanReleased
  <1> QED
    BY <1>2, <1>3

(* ... and so does a call. *)
LEMMA CallReleaseTyped ==
    ASSUME TypeOK, NEW c
    PROVE  Released(c) \in BodyRecord
  <1>1. SettledBy(body, c) \in BodyRecord
    BY BodyOperationsTyped DEF TypeOK
  <1>2. CASE Owns(body, c, cgen[c])
    BY <1>1, <1>2 DEF Released
  <1>3. CASE ~ Owns(body, c, cgen[c])
    BY <1>3 DEF Released, TypeOK
  <1> QED
    BY <1>2, <1>3

(* Admission keeps the types of what it assigns. *)
LEMMA AdmitTyped ==
    ASSUME TypeOK, NEW c \in Calls, Admit(c)
    PROVE  /\ body' \in BodyRecord
           /\ pc' \in [Calls -> CallStates]
           /\ cgen' \in [Calls -> Nat]
           /\ plan' \in [Plans -> PlanStates]
  <1> USE ClaimOfCall DEF TypeOK, CallStates
  <1>1. CASE TakeClaim(c, body)
    <2>1. body' \in BodyRecord
      BY <1>1, BodyOperationsTyped DEF TakeClaim
    <2> QED
      BY <1>1, <2>1 DEF TakeClaim, BodyRecord
  <1>2. CASE Refuse(c)
    <2>1. c \in PlanCalls => PlanOf[c] \in Plans
      BY PlanAssumption
    <2>2. body' \in BodyRecord
      BY <1>2, ReleaseTyped DEF Refuse
    <2> QED
      BY <1>2, <2>1, <2>2 DEF Refuse, PlanStates
  <1>3. CASE pc' = [pc EXCEPT ![c] = "probing"] /\ UNCHANGED <<body, cgen, plan>>
    BY <1>3
  <1> QED
    BY <1>1, <1>2, <1>3 DEF Admit

(* Cancelling futures keeps the types of the lane. *)
LEMMA CancelFuturesTyped ==
    ASSUME TypeOK, NEW S, CancelFutures(S)
    PROVE  /\ fut' \in [Calls -> FutureStates]
           /\ token' \in [Calls -> BOOLEAN]
           /\ result' \in [Calls -> Results]
           /\ ahead' \in [Calls -> SUBSET Calls]
  <1>1. fut' \in [Calls -> FutureStates] /\ result' \in [Calls -> Results]
    BY DEF TypeOK, CancelFutures, FutureStates, Results
  <1>2. token' \in [Calls -> BOOLEAN]
    BY DEF TypeOK, CancelFutures, Live
  <1>3. ahead' \in [Calls -> SUBSET Calls]
    BY DEF TypeOK, CancelFutures, LeaveQueue
  <1> QED
    BY <1>1, <1>2, <1>3

(* Dropped stops have a position of their own. *)
LEMMA AfterDroppingTyped ==
    ASSUME TypeOK, NEW gone
    PROVE  AfterDropping(gone) \in [Stops -> StopPcs]
  BY DEF TypeOK, AfterDropping, StopPcs

(* The beginning of a stop keeps the types of what it assigns. *)
LEMMA BeginStopTyped ==
    ASSUME TypeOK, NEW k \in Stops, NEW b \in BodyRecord, NEW inval \in BOOLEAN,
           NEW plans \in SUBSET Plans, NEW w \in Calls \cup {None}, NEW gone,
           BeginStop(k, b, inval, plans, w, gone)
    PROVE  /\ body' \in BodyRecord
           /\ fut' \in [Calls -> FutureStates]
           /\ token' \in [Calls -> BOOLEAN]
           /\ result' \in [Calls -> Results]
           /\ ahead' \in [Calls -> SUBSET Calls]
           /\ revoked' \in SUBSET Plans
           /\ spc' \in [Stops -> StopPcs]
           /\ accepted' \in [Stops -> BOOLEAN]
           /\ idle' \in [Stops -> BOOLEAN]
           /\ victims' \in [Stops -> SUBSET (Calls \X Nat)]
           /\ waiter' \in [Stops -> Calls \cup {None}]
  <1>1. body' \in BodyRecord
    BY BodyOperationsTyped DEF BeginStop
  <1>2. /\ fut' \in [Calls -> FutureStates]
        /\ token' \in [Calls -> BOOLEAN]
        /\ result' \in [Calls -> Results]
        /\ ahead' \in [Calls -> SUBSET Calls]
    BY CancelFuturesTyped DEF BeginStop
  <1>3. spc' \in [Stops -> StopPcs]
    BY AfterDroppingTyped DEF BeginStop, StopPcs
  <1>4. Admissions \in SUBSET (Calls \X Nat)
    BY DEF TypeOK, Admissions
  <1>5. /\ victims' \in [Stops -> SUBSET (Calls \X Nat)]
        /\ waiter' \in [Stops -> Calls \cup {None}]
        /\ revoked' \in SUBSET Plans
        /\ accepted' \in [Stops -> BOOLEAN]
        /\ idle' \in [Stops -> BOOLEAN]
    BY <1>4 DEF TypeOK, BeginStop
  <1> QED
    BY <1>1, <1>2, <1>3, <1>5

(* A step of a call keeps the types. *)
LEMMA CallStepTyped ==
    ASSUME TypeOK, NEW c \in Calls, CallStep(c)
    PROVE  TypeOK'
  <1> USE DEF callVars, laneVars, planVars, stopVars
  <1>1. CASE Enter(c)
    BY <1>1, AdmitTyped
       DEF TypeOK, Enter, YieldedBy, ActivePlans
  <1>2. CASE EnterWaitingThreat(c)
    BY <1>2
       DEF TypeOK, EnterWaitingThreat, CallStates, YieldedBy, ActivePlans
  <1>3. CASE LifeStopReturned(c)
    BY <1>3, AdmitTyped
       DEF TypeOK, LifeStopReturned
  <1>4. CASE ThreatGone(c)
    BY <1>4, AdmitTyped
       DEF TypeOK, ThreatGone
  <1>5. CASE ThreatWaitExpired(c)
    BY <1>5, ReleaseTyped, PlanAssumption
       DEF TypeOK, ThreatWaitExpired, Refuse, CallStates, PlanStates
  <1>6. CASE ReadProbe(c)
    BY <1>6, NoneIsNoClaim
       DEF TypeOK, ReadProbe, CallStates
  <1>7. CASE AfterProbe(c)
    <2>1. body' \in BodyRecord
      <3>1. Settled(body) \in BodyRecord
        BY BodyOperationsTyped DEF TypeOK
      <3>2. CASE TakeClaim(c, Settled(body))
        BY <3>1, <3>2, BodyOperationsTyped, ClaimOfCall DEF TakeClaim
      <3>3. CASE Refuse(c)
        BY <3>3, ReleaseTyped DEF Refuse, TypeOK
      <3> QED
        BY <1>7, <3>2, <3>3 DEF AfterProbe
    <2>2. /\ cgen' \in [Calls -> Nat]
          /\ pc' \in [Calls -> CallStates]
          /\ plan' \in [Plans -> PlanStates]
      BY <1>7, <2>1
         DEF TypeOK, AfterProbe, TakeClaim, Refuse, CallStates, PlanStates, BodyRecord
    <2> QED
      BY <1>7, <2>1, <2>2 DEF TypeOK, AfterProbe
  <1>8. CASE Submit(c)
    BY <1>8
       DEF TypeOK, Submit, CallStates, FutureStates, Results
  <1>9. CASE CollectDirect(c)
    <2>1. Collected(c) \in BodyRecord
      BY BodyOperationsTyped, CallReleaseTyped DEF Collected, TypeOK
    <2>2. revoked' \in SUBSET Plans
      BY <1>9 DEF TypeOK, CollectDirect, ActivePlans
    <2> QED
      BY <1>9, <2>1, <2>2 DEF TypeOK, CollectDirect, CallStates
  <1>10. CASE Readmit(c)
    <2>1. body' \in BodyRecord
      <3>1. Claimed(body, c, HolderOf(c)) \in BodyRecord
        BY <1>10, BodyOperationsTyped, ClaimOfCall, ClaimIds DEF TypeOK, Readmit
      <3>2. CASE CanClaim(body, c)
        BY <1>10, <3>1, <3>2 DEF Readmit
      <3>3. CASE ~ CanClaim(body, c)
        BY <1>10, <3>3 DEF Readmit, TypeOK
      <3> QED
        BY <3>2, <3>3
    <2>2. cgen' \in [Calls -> Nat] /\ repeats' \in [Calls -> 0..MaxRepeats]
      BY <1>10, <2>1, BoundAssumption DEF TypeOK, Readmit, BodyRecord
    <2> QED
      BY <1>10, <2>1, <2>2 DEF TypeOK, Readmit, CallStates
  <1>11. CASE CollectPlanCall(c)
    BY <1>11, BodyOperationsTyped
       DEF TypeOK, CollectPlanCall, CallStates
  <1>12. CASE PlanCallRaises(c)
    BY <1>12, ReleaseTyped
       DEF TypeOK, PlanCallRaises, CallStates, PlanStates
  <1>13. ASSUME NEW k \in Stops, EnterStoppingLife(c, k) PROVE TypeOK'
    BY <1>13, BeginStopTyped
       DEF TypeOK, EnterStoppingLife, CallStates, YieldedBy, ActivePlans
  <1>14. ASSUME NEW k \in Stops, AbandonCall(c, k) PROVE TypeOK'
    BY <1>14, BeginStopTyped, CallReleaseTyped
       DEF TypeOK, AbandonCall, CallStates, ActivePlans
  <1> QED
    BY <1>1, <1>2, <1>3, <1>4, <1>5, <1>6, <1>7, <1>8, <1>9, <1>10, <1>11, <1>12, <1>13, <1>14 DEF CallStep

(* A step of the worker thread keeps the types. *)
LEMMA WorkerStepTyped ==
    ASSUME TypeOK, NEW c \in Calls, WorkerStep(c)
    PROVE  TypeOK'
  <1> USE DEF callVars, laneVars, planVars, stopVars
  <1>1. CASE StartCallback(c)
    BY <1>1
       DEF TypeOK, StartCallback, FutureStates, Executing, Results, LeaveQueue
  <1>2. CASE Checkpoint(c)
    BY <1>2
       DEF TypeOK, Checkpoint, FutureStates, Executing, Results
  <1>3. CASE StartAction(c)
    BY <1>3
       DEF TypeOK, StartAction, FutureStates, Executing, Results
  <1>4. CASE ActionTimesOut(c)
    BY <1>4
       DEF TypeOK, ActionTimesOut, FutureStates, Executing, Results
  <1>5. CASE TransportFails(c)
    BY <1>5
       DEF TypeOK, TransportFails, FutureStates, Executing, Results
  <1>6. CASE CheckGeneration(c)
    BY <1>6
       DEF TypeOK, CheckGeneration, FutureStates, Executing, Results
  <1>7. CASE ReturnResult(c)
    BY <1>7
       DEF TypeOK, ReturnResult, FutureStates, Executing, Results
  <1> QED
    BY <1>1, <1>2, <1>3, <1>4, <1>5, <1>6, <1>7 DEF WorkerStep

(* A step of a plan keeps the types. *)
LEMMA PlanStepTyped ==
    ASSUME TypeOK, NEW p \in Plans, PlanStep(p)
    PROVE  TypeOK'
  <1> USE DEF callVars, laneVars, planVars, stopVars
  <1>1. CASE StartPlan(p)
    BY <1>1
       DEF TypeOK, StartPlan, PlanStates, ActivePlans
  <1>2. CASE PlanClaim(p)
    <2>1. body' \in BodyRecord
      <3>1. Claimed(body, p, PlanHolder(p)) \in BodyRecord
        BY BodyOperationsTyped, PlanIsClaim DEF TypeOK
      <3> QED
        BY <1>2, <3>1 DEF PlanClaim, TypeOK
    <2> QED
      BY <1>2, <2>1 DEF TypeOK, PlanClaim, PlanStates
  <1>3. CASE PlanReadProbe(p)
    BY <1>3
       DEF TypeOK, PlanReadProbe, PlanStates
  <1>4. CASE PlanAfterProbe(p)
    <2>1. body' \in BodyRecord
      <3>1. Settled(body) \in BodyRecord
        BY BodyOperationsTyped DEF TypeOK
      <3>2. Claimed(Settled(body), p, PlanHolder(p)) \in BodyRecord
        BY <3>1, BodyOperationsTyped, PlanIsClaim
      <3> QED
        BY <1>4, <3>2, ReleaseTyped DEF TypeOK, PlanAfterProbe
    <2> QED
      BY <1>4, <2>1 DEF TypeOK, PlanAfterProbe, PlanStates
  <1>5. CASE PlanSleeps(p)
    BY <1>5, ReleaseTyped, BoundAssumption
       DEF TypeOK, PlanSleeps, PlanStates
  <1>6. CASE PlanWakes(p)
    BY <1>6
       DEF TypeOK, PlanWakes, PlanStates
  <1>7. CASE PlanFinishes(p)
    BY <1>7, ReleaseTyped
       DEF TypeOK, PlanFinishes, PlanStates
  <1>8. CASE PlanUnwinds(p)
    BY <1>8, CancelFuturesTyped, AfterDroppingTyped
       DEF TypeOK, PlanUnwinds, PlanStates, CallStates
  <1>9. ASSUME NEW k \in Stops, StartPlanStoppingLife(p, k) PROVE TypeOK'
    BY <1>9, BeginStopTyped
       DEF TypeOK, StartPlanStoppingLife, PlanStates, ActivePlans
  <1> QED
    BY <1>1, <1>2, <1>3, <1>4, <1>5, <1>6, <1>7, <1>8, <1>9 DEF PlanStep

(* A step of a stop keeps the types. *)
LEMMA StopStepTyped ==
    ASSUME TypeOK, NEW k \in Stops, StopStep(k)
    PROVE  TypeOK'
  <1> USE DEF callVars, laneVars, planVars, stopVars
  <1>1. CASE Interrupt(k)
    BY <1>1
       DEF TypeOK, Interrupt, StopPcs
  <1>2. CASE AwaitLane(k)
    BY <1>2
       DEF TypeOK, AwaitLane, LaneIdle, StopPcs
  <1>3. CASE StopReadProbe(k)
    BY <1>3
       DEF TypeOK, StopReadProbe, StopPcs
  <1>4. CASE StopProbesAgain(k)
    BY <1>4
       DEF TypeOK, StopProbesAgain, StopPcs
  <1>5. CASE FinishStop(k)
    BY <1>5, BodyOperationsTyped
       DEF TypeOK, FinishStop, StopPcs
  <1> QED
    BY <1>1, <1>2, <1>3, <1>4, <1>5 DEF StopStep

(* The types are an invariant: BodyControl's record, the positions of the  *)
(* coroutines and the evidence they carry never leave their domains.       *)
THEOREM TypeCorrect == Spec => []TypeOK
  <1>1. Init => TypeOK
    BY InitTypeOK
  <1>2. TypeOK /\ [Next]_vars => TypeOK'
    <2> SUFFICES ASSUME TypeOK, [Next]_vars PROVE TypeOK'
      OBVIOUS
    <2>1. ASSUME NEW c \in Calls, CallStep(c) PROVE TypeOK'
      BY <2>1, CallStepTyped
    <2>2. ASSUME NEW c \in Calls, WorkerStep(c) PROVE TypeOK'
      BY <2>2, WorkerStepTyped
    <2>3. ASSUME NEW p \in Plans, PlanStep(p) PROVE TypeOK'
      BY <2>3, PlanStepTyped
    <2>4. ASSUME NEW k \in Stops, StopStep(k) PROVE TypeOK'
      BY <2>4, StopStepTyped
    <2>5. ASSUME NEW k \in Stops, NEW inval \in BOOLEAN, NEW reflex \in BOOLEAN,
                 RequestStop(k, inval, reflex)
          PROVE  TypeOK'
      <3> DEFINE plans == IF reflex \/ inval THEN ActivePlans ELSE {}
      <3>1. plans \in SUBSET Plans /\ body \in BodyRecord
        BY DEF ActivePlans, TypeOK
      <3>2. BeginStop(k, body, inval, plans, None, {})
        BY <2>5 DEF RequestStop
      <3> HIDE DEF plans
      <3>3. /\ body' \in BodyRecord
            /\ fut' \in [Calls -> FutureStates]
            /\ token' \in [Calls -> BOOLEAN]
            /\ result' \in [Calls -> Results]
            /\ ahead' \in [Calls -> SUBSET Calls]
            /\ revoked' \in SUBSET Plans
            /\ spc' \in [Stops -> StopPcs]
            /\ accepted' \in [Stops -> BOOLEAN]
            /\ idle' \in [Stops -> BOOLEAN]
            /\ victims' \in [Stops -> SUBSET (Calls \X Nat)]
            /\ waiter' \in [Stops -> Calls \cup {None}]
        BY <3>1, <3>2, BeginStopTyped
      <3> QED
        BY <2>5, <3>3 DEF TypeOK, RequestStop, callVars
    <2>6. CASE ActionEnds
      BY <2>6 DEF TypeOK, ActionEnds, FutureStates, Executing, callVars, planVars,
                  stopVars
    <2>7. CASE InvalidateGeneration
      <3>1. revoked' \in SUBSET Plans
        BY <2>7 DEF TypeOK, InvalidateGeneration, ActivePlans
      <3> QED
        BY <2>7, <3>1, BodyOperationsTyped, BoundAssumption
           DEF TypeOK, InvalidateGeneration, callVars, laneVars, stopVars
    <2>8. CASE UNCHANGED vars
      BY <2>8 DEF TypeOK, vars, callVars, laneVars, planVars, stopVars
    <2> QED
      BY <2>1, <2>2, <2>3, <2>4, <2>5, <2>6, <2>7, <2>8 DEF Next
  <1> QED
    BY <1>1, <1>2, PTL DEF Spec

----------------------------------------------------------------------------
(* No Body write after a stop                                              *)
(*                                                                         *)
(* A step of a call, of the worker or of a plan cannot touch what a stop   *)
(* has learnt (StopsKept); it moves generations only forward (GensForward) *)
(* and lets a callback run, or act through the client, only under the      *)
(* generation in force (NoNewWriter).  QuietStepSafe shows that such a     *)
(* step keeps StopInv; the beginning of a stop and the steps of a stop are *)
(* treated one by one.                                                     *)

StopsKept ==
    \A k \in Stops :
        /\ victims'[k] = victims[k]
        /\ idle'[k] = idle[k]
        /\ evidence'[k] = evidence[k]
        /\ spc'[k] \in {spc[k], "dropped"}

GensForward ==
    /\ body'.gen = body'.auth
    /\ body.auth <= body'.auth
    /\ \A c \in Calls : cgen'[c] \in {cgen[c], body'.auth}

NoNewWriter ==
    \A c \in Calls :
        /\ fut'[c] \in Executing => fut[c] \in Executing \/ cgen[c] = body.gen
        /\ native' = c => native = c \/ fut[c] \in Executing

(* An admission a stop found, if it is still the present one after a quiet *)
(* step, was so before, and is as silent as it was.                        *)
LEMMA VictimsStaySilent ==
    ASSUME TypeOK, TypeOK', GenerationMirrored, VictimsPast, GensForward,
           NoNewWriter, NEW k \in Stops, NEW v \in victims[k], cgen'[v[1]] = v[2]
    PROVE  /\ cgen[v[1]] = v[2]
           /\ fut[v[1]] \notin Executing => fut'[v[1]] \notin Executing
           /\ fut[v[1]] \notin Executing /\ native # v[1] => native' # v[1]
  <1>1. v \in Calls \X Nat
    BY DEF TypeOK
  <1>2. v[1] \in Calls /\ v[2] \in Nat
    BY <1>1
  <1>3. body.auth \in Nat /\ body'.auth \in Nat /\ body.gen = body.auth
    BY DEF TypeOK, BodyRecord, GenerationMirrored
  <1>4. v[2] < body.auth
    BY DEF VictimsPast
  <1>5. cgen[v[1]] = v[2]
    BY <1>2, <1>3, <1>4 DEF GensForward
  <1> QED
    BY <1>2, <1>3, <1>4, <1>5 DEF NoNewWriter

(* A step that touches no stop, moves generations forward and starts no    *)
(* writer but under the generation in force keeps StopInv.                 *)
LEMMA QuietStepSafe ==
    ASSUME TypeOK, TypeOK', StopInv, StopsKept, GensForward, NoNewWriter
    PROVE  StopInv'
  <1> USE DEF StopInv
  <1>1. GenerationMirrored'
    BY DEF GensForward, GenerationMirrored
  <1>2. AdmissionsCurrent'
    <2> SUFFICES ASSUME NEW c \in Calls
                 PROVE  cgen'[c] <= body'.auth
      BY DEF AdmissionsCurrent
    <2>1. cgen[c] \in Nat /\ body.auth \in Nat /\ body'.auth \in Nat
      BY DEF TypeOK, BodyRecord
    <2> QED
      BY <2>1 DEF AdmissionsCurrent, GensForward
  <1>3. VictimsPast'
    <2> SUFFICES ASSUME NEW k \in Stops, NEW v \in victims[k]
                 PROVE  v[2] < body'.auth
      BY DEF VictimsPast, StopsKept
    <2>1. v \in Calls \X Nat
      BY DEF TypeOK
    <2> QED
      BY <2>1 DEF VictimsPast, GensForward, TypeOK, BodyRecord
  <1>4. EvidenceFollowsRequest'
    BY DEF EvidenceFollowsRequest, StopsKept
  <1>5. IdleLaneSilent'
    <2> SUFFICES ASSUME NEW k \in Stops, idle[k], NEW v \in victims[k],
                        cgen'[v[1]] = v[2]
                 PROVE  fut'[v[1]] \notin Executing
      BY DEF IdleLaneSilent, StopsKept
    <2> QED
      BY VictimsStaySilent DEF IdleLaneSilent
  <1>6. IdleClientSilent'
    <2> SUFFICES ASSUME NEW k \in Stops, idle[k], evidence[k], NEW v \in victims[k],
                        cgen'[v[1]] = v[2]
                 PROVE  native' # v[1]
      BY DEF IdleClientSilent, StopsKept
    <2> QED
      BY VictimsStaySilent DEF IdleLaneSilent, IdleClientSilent
  <1>7. StoppedWritersStaySilent'
    <2> SUFFICES ASSUME NEW k \in Stops, spc[k] = "settled", NEW v \in victims[k],
                        cgen'[v[1]] = v[2]
                 PROVE  fut'[v[1]] \notin Executing /\ native' # v[1]
      BY DEF StoppedWritersStaySilent, StopsKept
    <2> QED
      BY VictimsStaySilent DEF StoppedWritersStaySilent
  <1> QED
    BY <1>1, <1>2, <1>3, <1>4, <1>5, <1>6, <1>7

(* Every operation of BodyControl leaves the record at the authority's     *)
(* generation, which never goes back; stopping always moves it on.         *)
LEMMA OperationsForward ==
    ASSUME NEW b \in BodyRecord, b.gen = b.auth
    PROVE  /\ Settled(b).gen = b.auth /\ Settled(b).auth = b.auth
           /\ MarkedUnknown(b).gen = b.auth /\ MarkedUnknown(b).auth = b.auth
           /\ Stopping(b).gen = b.auth + 1 /\ Stopping(b).auth = b.auth + 1
           /\ Invalidated(b).gen = b.auth + 1 /\ Invalidated(b).auth = b.auth + 1
           /\ \A c : SettledBy(b, c).gen = b.auth /\ SettledBy(b, c).auth = b.auth
           /\ \A c, h : /\ Claimed(b, c, h).gen = Claimed(b, c, h).auth
                        /\ Claimed(b, c, h).auth \in {b.auth, b.auth + 1}
  <1>1. Settled(b).gen = b.auth /\ Settled(b).auth = b.auth
    BY DEF Settled, BodyRecord
  <1>2. MarkedUnknown(b).gen = b.auth /\ MarkedUnknown(b).auth = b.auth
    BY DEF MarkedUnknown, BodyRecord
  <1>3. Stopping(b).gen = b.auth + 1 /\ Stopping(b).auth = b.auth + 1
    BY DEF Stopping, BodyRecord
  <1>4. Invalidated(b).gen = b.auth + 1 /\ Invalidated(b).auth = b.auth + 1
    BY DEF Invalidated, BodyRecord
  <1>5. \A c : SettledBy(b, c).gen = b.auth /\ SettledBy(b, c).auth = b.auth
    BY <1>1 DEF SettledBy
  <1>6. \A c, h : /\ Claimed(b, c, h).gen = Claimed(b, c, h).auth
                  /\ Claimed(b, c, h).auth \in {b.auth, b.auth + 1}
    BY DEF Claimed, BodyRecord
  <1> QED
    BY <1>1, <1>2, <1>3, <1>4, <1>5, <1>6

(* Giving a claim back leaves the generation where it is: for a plan ...   *)
LEMMA ReleaseForward ==
    ASSUME NEW b \in BodyRecord, b.gen = b.auth, NEW p
    PROVE  PlanReleased(b, p).gen = b.auth /\ PlanReleased(b, p).auth = b.auth
  <1>1. CASE OwnsClaim(b, p)
    BY <1>1, OperationsForward DEF PlanReleased
  <1>2. CASE ~ OwnsClaim(b, p)
    BY <1>2 DEF PlanReleased
  <1> QED
    BY <1>1, <1>2

(* ... and for a call. *)
LEMMA CallReleaseForward ==
    ASSUME TypeOK, GenerationMirrored, NEW c
    PROVE  Released(c).gen = body.auth /\ Released(c).auth = body.auth
  <1>1. body \in BodyRecord /\ body.gen = body.auth
    BY DEF TypeOK, GenerationMirrored
  <1>2. CASE Owns(body, c, cgen[c])
    BY <1>1, <1>2, OperationsForward DEF Released
  <1>3. CASE ~ Owns(body, c, cgen[c])
    BY <1>1, <1>3 DEF Released
  <1> QED
    BY <1>2, <1>3

(* Cancelling futures starts nothing. *)
LEMMA CancelFuturesSilent ==
    ASSUME TypeOK, NEW S, CancelFutures(S), NEW c \in Calls, fut'[c] \in Executing
    PROVE  fut[c] \in Executing
  BY DEF CancelFutures, Executing, TypeOK

(* The beginning of a stop. *)
LEMMA BeginStopSafe ==
    ASSUME TypeOK, TypeOK', StopInv, NEW k \in Stops,
           NEW b \in BodyRecord, b.gen = b.auth, b.auth = body.auth,
           NEW inval \in BOOLEAN, NEW plans, NEW w, NEW gone,
           BeginStop(k, b, inval, plans, w, gone),
           UNCHANGED <<cgen, native, evidence>>
    PROVE  StopInv'
  <1> USE DEF StopInv
  <1>1. body.auth \in Nat /\ body'.auth \in Nat
    BY DEF TypeOK, BodyRecord
  <1>2. body'.gen = body'.auth /\ body.auth < body'.auth
    <2>1. Stopping(b) \in BodyRecord /\ Stopping(b).gen = Stopping(b).auth
          /\ Stopping(b).auth = b.auth + 1
      BY OperationsForward, BodyOperationsTyped
    <2>2. Invalidated(Stopping(b)).gen = Stopping(b).auth + 1
          /\ Invalidated(Stopping(b)).auth = Stopping(b).auth + 1
      BY <2>1, OperationsForward
    <2> QED
      BY <1>1, <2>1, <2>2 DEF BeginStop
  <1>3. spc[k] = "idle" /\ spc'[k] = "interrupt" /\ ~ idle[k] /\ ~ evidence[k]
    BY AfterDroppingTyped DEF BeginStop, EvidenceFollowsRequest
  <1>4. /\ victims' = [victims EXCEPT ![k] = Admissions]
        /\ idle' = idle
        /\ \A j \in Stops \ {k} : spc'[j] \in {spc[j], "dropped"}
        /\ \A c \in Calls : fut'[c] \in Executing => fut[c] \in Executing
    BY CancelFuturesSilent, AfterDroppingTyped DEF BeginStop, AfterDropping
  <1>5. \A v \in Admissions : v[2] < body'.auth
    <2> SUFFICES ASSUME NEW c \in Calls
                 PROVE  cgen[c] < body'.auth
      BY DEF Admissions
    <2> QED
      BY <1>1, <1>2 DEF AdmissionsCurrent, TypeOK
  <1>6. GenerationMirrored'
    BY <1>2 DEF GenerationMirrored
  <1>7. AdmissionsCurrent'
    BY <1>1, <1>2 DEF AdmissionsCurrent, TypeOK
  <1>8. VictimsPast'
    <2> SUFFICES ASSUME NEW j \in Stops, NEW v \in victims'[j]
                 PROVE  v[2] < body'.auth
      BY DEF VictimsPast
    <2>1. CASE j = k
      BY <1>4, <1>5, <2>1 DEF TypeOK
    <2>2. CASE j # k
      <3>1. v \in victims[j] /\ v \in Calls \X Nat
        BY <1>4, <2>2 DEF TypeOK
      <3> QED
        BY <1>1, <1>2, <3>1 DEF VictimsPast
    <2> QED
      BY <2>1, <2>2
  <1>9. EvidenceFollowsRequest'
    BY <1>3, <1>4 DEF EvidenceFollowsRequest
  <1>10. \A j \in Stops : idle'[j] \/ spc'[j] = "settled" => victims'[j] = victims[j]
    BY <1>3, <1>4 DEF TypeOK
  <1>11. \A j \in Stops : spc'[j] = "settled" => spc[j] = "settled"
    BY <1>3, <1>4
  <1>12. \A j \in Stops : \A v \in victims[j] : v[1] \in Calls
    BY DEF TypeOK
  <1>13. IdleLaneSilent'
    BY <1>4, <1>10, <1>12 DEF IdleLaneSilent
  <1>14. IdleClientSilent'
    BY <1>4, <1>10, <1>12 DEF IdleClientSilent
  <1>15. StoppedWritersStaySilent'
    BY <1>4, <1>10, <1>11, <1>12 DEF StoppedWritersStaySilent
  <1> QED
    BY <1>6, <1>7, <1>8, <1>9, <1>13, <1>14, <1>15

(* Admission moves generations forward, and a new admission is current. *)
LEMMA AdmitForward ==
    ASSUME TypeOK, GenerationMirrored, NEW c \in Calls, Admit(c)
    PROVE  GensForward
  <1>1. body \in BodyRecord /\ body.gen = body.auth /\ body.auth \in Nat
    BY DEF TypeOK, GenerationMirrored, BodyRecord
  <1>2. CASE TakeClaim(c, body)
    BY <1>1, <1>2, OperationsForward DEF TakeClaim, GensForward, TypeOK
  <1>3. CASE Refuse(c)
    BY <1>1, <1>3, ReleaseForward DEF Refuse, GensForward
  <1>4. CASE pc' = [pc EXCEPT ![c] = "probing"] /\ UNCHANGED <<body, cgen, plan>>
    BY <1>1, <1>4 DEF GensForward
  <1> QED
    BY <1>2, <1>3, <1>4 DEF Admit

(* The steps of a call that begin no stop are quiet. *)
LEMMA CallStepQuiet ==
    ASSUME TypeOK, GenerationMirrored, NEW c \in Calls,
           \/ Enter(c) \/ EnterWaitingThreat(c) \/ LifeStopReturned(c) \/ ThreatGone(c)
           \/ ThreatWaitExpired(c) \/ ReadProbe(c) \/ AfterProbe(c) \/ Submit(c)
           \/ CollectDirect(c) \/ Readmit(c) \/ CollectPlanCall(c) \/ PlanCallRaises(c)
    PROVE  StopsKept /\ GensForward /\ NoNewWriter
  <1> USE DEF StopsKept, GensForward, NoNewWriter, callVars, laneVars, planVars, stopVars
  <1>0. body \in BodyRecord /\ body.gen = body.auth /\ body.auth \in Nat
    BY DEF TypeOK, GenerationMirrored, BodyRecord
  <1>1. CASE Enter(c)
    <2>1. GensForward
      BY <1>1, AdmitForward DEF Enter
    <2> QED
      BY <1>1, <2>1 DEF Enter, TypeOK
  <1>2. CASE EnterWaitingThreat(c)
    BY <1>0, <1>2
       DEF TypeOK, EnterWaitingThreat
  <1>3. CASE LifeStopReturned(c)
    <2>1. GensForward
      BY <1>3, AdmitForward DEF LifeStopReturned
    <2> QED
      BY <1>3, <2>1 DEF LifeStopReturned, TypeOK
  <1>4. CASE ThreatGone(c)
    <2>1. GensForward
      BY <1>4, AdmitForward DEF ThreatGone
    <2> QED
      BY <1>4, <2>1 DEF ThreatGone, TypeOK
  <1>5. CASE ThreatWaitExpired(c)
    BY <1>0, <1>5, ReleaseForward
       DEF TypeOK, ThreatWaitExpired, Refuse
  <1>6. CASE ReadProbe(c)
    BY <1>0, <1>6, StopAssumption
       DEF TypeOK, ReadProbe
  <1>7. CASE AfterProbe(c)
    <2>1. GensForward
      <3>1. /\ Settled(body) \in BodyRecord
            /\ Settled(body).gen = body.auth /\ Settled(body).auth = body.auth
        BY <1>0, BodyOperationsTyped, OperationsForward
      <3>2. CASE TakeClaim(c, Settled(body))
        BY <1>0, <3>1, <3>2, OperationsForward DEF TakeClaim, TypeOK
      <3>3. CASE Refuse(c)
        BY <1>0, <3>3, ReleaseForward DEF Refuse
      <3> QED
        BY <1>7, <3>2, <3>3 DEF AfterProbe
    <2>2. StopsKept
      <3>1. evidence' = [evidence EXCEPT ![c] = FALSE] /\ UNCHANGED <<spc, idle, victims>>
        BY <1>7 DEF AfterProbe
      <3>2. c \notin Stops
        BY StopAssumption
      <3> QED
        BY <3>1, <3>2, Zenon DEF TypeOK
    <2>3. NoNewWriter
      BY <1>7 DEF AfterProbe
    <2> QED
      BY <2>1, <2>2, <2>3
  <1>8. CASE Submit(c)
    BY <1>0, <1>8
       DEF TypeOK, Submit, Executing
  <1>9. CASE CollectDirect(c)
    <2>1. Released(c) \in BodyRecord
      BY CallReleaseTyped
    <2>2. Collected(c).gen = Collected(c).auth /\ body.auth <= Collected(c).auth
      BY <1>0, <2>1, CallReleaseForward, OperationsForward DEF Collected
    <2> QED
      BY <1>0, <1>9, <2>2 DEF TypeOK, CollectDirect
  <1>10. CASE Readmit(c)
    <2>1. GensForward
      <3>1. CASE CanClaim(body, c)
        BY <1>0, <1>10, <3>1, OperationsForward DEF Readmit, TypeOK
      <3>2. CASE ~ CanClaim(body, c)
        BY <1>0, <1>10, <3>2 DEF Readmit
      <3> QED
        BY <3>1, <3>2
    <2> QED
      BY <1>10, <2>1 DEF Readmit, TypeOK
  <1>11. CASE CollectPlanCall(c)
    BY <1>0, <1>11, OperationsForward
       DEF TypeOK, CollectPlanCall
  <1>12. CASE PlanCallRaises(c)
    BY <1>0, <1>12, ReleaseForward
       DEF TypeOK, PlanCallRaises
  <1> QED
    BY <1>1, <1>2, <1>3, <1>4, <1>5, <1>6, <1>7, <1>8, <1>9, <1>10, <1>11, <1>12

(* The worker starts a callback only under the generation in force. *)
LEMMA WorkerStepQuiet ==
    ASSUME TypeOK, GenerationMirrored, NEW c \in Calls,
           WorkerStep(c)
    PROVE  StopsKept /\ GensForward /\ NoNewWriter
  <1> USE DEF StopsKept, GensForward, NoNewWriter, callVars, laneVars, planVars, stopVars
  <1>0. body \in BodyRecord /\ body.gen = body.auth /\ body.auth \in Nat
    BY DEF TypeOK, GenerationMirrored, BodyRecord
  <1>1. CASE StartCallback(c)
    BY <1>0, <1>1
       DEF TypeOK, StartCallback, Owns, Executing
  <1>2. CASE Checkpoint(c)
    BY <1>0, <1>2
       DEF TypeOK, Checkpoint, Executing
  <1>3. CASE StartAction(c)
    BY <1>0, <1>3
       DEF TypeOK, StartAction, Executing
  <1>4. CASE ActionTimesOut(c)
    BY <1>0, <1>4
       DEF TypeOK, ActionTimesOut, Executing
  <1>5. CASE TransportFails(c)
    BY <1>0, <1>5
       DEF TypeOK, TransportFails, Executing
  <1>6. CASE CheckGeneration(c)
    BY <1>0, <1>6
       DEF TypeOK, CheckGeneration, Executing
  <1>7. CASE ReturnResult(c)
    BY <1>0, <1>7
       DEF TypeOK, ReturnResult, Executing
  <1> QED
    BY <1>1, <1>2, <1>3, <1>4, <1>5, <1>6, <1>7 DEF WorkerStep

(* The steps of a plan that begin no stop are quiet. *)
LEMMA PlanStepQuiet ==
    ASSUME TypeOK, GenerationMirrored, NEW p \in Plans,
           \/ StartPlan(p) \/ PlanClaim(p) \/ PlanReadProbe(p) \/ PlanAfterProbe(p)
           \/ PlanSleeps(p) \/ PlanWakes(p) \/ PlanFinishes(p) \/ PlanUnwinds(p)
    PROVE  StopsKept /\ GensForward /\ NoNewWriter
  <1> USE DEF StopsKept, GensForward, NoNewWriter, callVars, laneVars, planVars, stopVars
  <1>0. body \in BodyRecord /\ body.gen = body.auth /\ body.auth \in Nat
    BY DEF TypeOK, GenerationMirrored, BodyRecord
  <1>1. CASE StartPlan(p)
    BY <1>0, <1>1
       DEF TypeOK, StartPlan
  <1>2. CASE PlanClaim(p)
    BY <1>0, <1>2, OperationsForward
       DEF TypeOK, PlanClaim
  <1>3. CASE PlanReadProbe(p)
    BY <1>0, <1>3, StopAssumption
       DEF TypeOK, PlanReadProbe
  <1>4. CASE PlanAfterProbe(p)
    <2>1. GensForward
      <3>1. /\ Settled(body) \in BodyRecord
            /\ Settled(body).gen = body.auth /\ Settled(body).auth = body.auth
        BY <1>0, BodyOperationsTyped, OperationsForward
      <3> QED
        BY <1>0, <1>4, <3>1, OperationsForward, ReleaseForward, SMTT(30) DEF PlanAfterProbe, TypeOK
    <2>2. /\ evidence' = [evidence EXCEPT ![p] = FALSE]
          /\ UNCHANGED <<spc, idle, victims>>
      BY <1>4 DEF PlanAfterProbe
    <2>3. StopsKept
      BY <2>2, StopAssumption, ZenonT(30) DEF TypeOK
    <2>4. NoNewWriter
      BY <1>4 DEF PlanAfterProbe
    <2> QED
      BY <2>1, <2>3, <2>4
  <1>5. CASE PlanSleeps(p)
    BY <1>0, <1>5, ReleaseForward
       DEF TypeOK, PlanSleeps
  <1>6. CASE PlanWakes(p)
    BY <1>0, <1>6
       DEF TypeOK, PlanWakes
  <1>7. CASE PlanFinishes(p)
    BY <1>0, <1>7, ReleaseForward
       DEF TypeOK, PlanFinishes
  <1>8. CASE PlanUnwinds(p)
    BY <1>0, <1>8, CancelFuturesSilent
       DEF TypeOK, PlanUnwinds, AfterDropping
  <1> QED
    BY <1>1, <1>2, <1>3, <1>4, <1>5, <1>6, <1>7, <1>8

(* What a stop learns, it learns of the admissions it found. *)
LEMMA StopStepSafe ==
    ASSUME TypeOK, TypeOK', StopInv, NEW k \in Stops, StopStep(k)
    PROVE  StopInv'
  <1> USE DEF StopInv, callVars, laneVars, planVars
  <1>1. CASE Interrupt(k)
    <2>1. UNCHANGED <<body, cgen, fut, native, evidence, victims, idle>>
      BY <1>1 DEF Interrupt
    <2>2. EvidenceFollowsRequest' /\ StoppedWritersStaySilent'
      BY <1>1, <2>1
         DEF Interrupt, TypeOK, EvidenceFollowsRequest, StoppedWritersStaySilent
    <2> QED
      BY <2>1, <2>2 DEF GenerationMirrored, AdmissionsCurrent, VictimsPast,
                        IdleLaneSilent, IdleClientSilent
  <1>2. CASE AwaitLane(k)
    <2>1. UNCHANGED <<body, cgen, fut, native, evidence, victims>>
      BY <1>2 DEF AwaitLane
    <2>2. EvidenceFollowsRequest' /\ StoppedWritersStaySilent'
      BY <1>2, <2>1
         DEF AwaitLane, TypeOK, EvidenceFollowsRequest, StoppedWritersStaySilent
    <2>3. ~ evidence[k]
      BY <1>2 DEF AwaitLane, EvidenceFollowsRequest
    <2>4. idle'[k] => \A c \in Calls : fut[c] \notin Executing
      BY <1>2 DEF AwaitLane, TypeOK, LaneIdle, Live
    <2>5. \A j \in Stops : \A v \in victims[j] : v[1] \in Calls
      BY DEF TypeOK
    <2>6. IdleLaneSilent' /\ IdleClientSilent'
      BY <1>2, <2>1, <2>3, <2>4, <2>5
         DEF AwaitLane, TypeOK, IdleLaneSilent, IdleClientSilent
    <2> QED
      BY <2>1, <2>2, <2>6 DEF GenerationMirrored, AdmissionsCurrent, VictimsPast
  <1>3. CASE StopReadProbe(k)
    <2>1. UNCHANGED <<body, cgen, fut, native, idle, victims>>
      BY <1>3 DEF StopReadProbe
    <2>2. EvidenceFollowsRequest' /\ StoppedWritersStaySilent'
      BY <1>3, <2>1
         DEF StopReadProbe, TypeOK, EvidenceFollowsRequest, StoppedWritersStaySilent
    <2>3. evidence'[k] => native = None
      BY <1>3 DEF StopReadProbe, TypeOK
    <2>4. \A j \in Stops : \A v \in victims[j] : v[1] \in Calls
      BY DEF TypeOK
    <2>5. IdleClientSilent'
      BY <1>3, <2>1, <2>3, <2>4, PlanAssumption
         DEF StopReadProbe, TypeOK, IdleClientSilent
    <2> QED
      BY <2>1, <2>2, <2>5 DEF GenerationMirrored, AdmissionsCurrent, VictimsPast,
                              IdleLaneSilent
  <1>4. CASE StopProbesAgain(k)
    <2>1. UNCHANGED <<body, cgen, fut, native, evidence, victims, idle>>
      BY <1>4 DEF StopProbesAgain
    <2>2. EvidenceFollowsRequest' /\ StoppedWritersStaySilent'
      BY <1>4, <2>1
         DEF StopProbesAgain, TypeOK, EvidenceFollowsRequest, StoppedWritersStaySilent
    <2> QED
      BY <2>1, <2>2 DEF GenerationMirrored, AdmissionsCurrent, VictimsPast,
                        IdleLaneSilent, IdleClientSilent
  <1>5. CASE FinishStop(k)
    <2>1. UNCHANGED <<cgen, fut, native, victims>>
      BY <1>5 DEF FinishStop
    <2>2. body \in BodyRecord /\ body.gen = body.auth
      BY DEF TypeOK, GenerationMirrored
    <2>3. body'.gen = body.auth /\ body'.auth = body.auth
      BY <1>5, <2>2, OperationsForward DEF FinishStop
    <2>4. spc'[k] = "settled" => idle[k] /\ evidence[k]
      BY <1>5 DEF FinishStop, TypeOK
    <2>5. \A j \in Stops \ {k} : spc'[j] = spc[j] /\ idle'[j] = idle[j]
                                    /\ evidence'[j] = evidence[j]
      BY <1>5 DEF FinishStop, TypeOK
    <2>6. ~ idle'[k] /\ spc'[k] \in {"settled", "unknown"}
      BY <1>5 DEF FinishStop, TypeOK
    <2>7. GenerationMirrored' /\ AdmissionsCurrent' /\ VictimsPast'
      BY <2>1, <2>3 DEF GenerationMirrored, AdmissionsCurrent, VictimsPast
    <2>8. EvidenceFollowsRequest'
      BY <2>5, <2>6 DEF EvidenceFollowsRequest
    <2>9. IdleLaneSilent' /\ IdleClientSilent'
      BY <2>1, <2>5, <2>6 DEF IdleLaneSilent, IdleClientSilent
    <2>10. StoppedWritersStaySilent'
      BY <2>1, <2>4, <2>5
         DEF StoppedWritersStaySilent, IdleLaneSilent, IdleClientSilent
    <2> QED
      BY <2>7, <2>8, <2>9, <2>10
  <1> QED
    BY <1>1, <1>2, <1>3, <1>4, <1>5 DEF StopStep

(* StopInv is inductive together with the types. *)
LEMMA NextStopInv ==
    ASSUME TypeOK, TypeOK', StopInv, [Next]_vars
    PROVE  StopInv'
  <1>0. body \in BodyRecord /\ body.gen = body.auth /\ GenerationMirrored
    BY DEF TypeOK, StopInv, GenerationMirrored
  <1>1. ASSUME NEW c \in Calls, CallStep(c) PROVE StopInv'
    <2>1. ASSUME NEW k \in Stops, EnterStoppingLife(c, k) PROVE StopInv'
      BY <1>0, <2>1, BeginStopSafe DEF EnterStoppingLife
    <2>2. ASSUME NEW k \in Stops, AbandonCall(c, k) PROVE StopInv'
      <3> DEFINE b == IF pc[c] \in {"claimed", "lane"} THEN Released(c) ELSE body
      <3>1. b \in BodyRecord /\ b.gen = b.auth /\ b.auth = body.auth
        BY <1>0, CallReleaseTyped, CallReleaseForward
      <3>2. BeginStop(k, b, TRUE, ActivePlans, None, {c})
            /\ UNCHANGED <<cgen, native, evidence>>
        BY <2>2 DEF AbandonCall
      <3> HIDE DEF b
      <3> QED
        BY <3>1, <3>2, BeginStopSafe
    <2> QED
      BY <1>0, <1>1, <2>1, <2>2, CallStepQuiet, QuietStepSafe DEF CallStep
  <1>2. ASSUME NEW c \in Calls, WorkerStep(c) PROVE StopInv'
    BY <1>0, <1>2, WorkerStepQuiet, QuietStepSafe
  <1>3. ASSUME NEW p \in Plans, PlanStep(p) PROVE StopInv'
    <2>1. ASSUME NEW k \in Stops, StartPlanStoppingLife(p, k) PROVE StopInv'
      BY <1>0, <2>1, BeginStopSafe DEF StartPlanStoppingLife, callVars
    <2> QED
      BY <1>0, <1>3, <2>1, PlanStepQuiet, QuietStepSafe DEF PlanStep
  <1>4. ASSUME NEW k \in Stops, StopStep(k) PROVE StopInv'
    BY <1>4, StopStepSafe
  <1>5. ASSUME NEW k \in Stops, NEW inval \in BOOLEAN, NEW reflex \in BOOLEAN,
               RequestStop(k, inval, reflex)
        PROVE  StopInv'
    BY <1>0, <1>5, BeginStopSafe DEF RequestStop, callVars
  <1>6. CASE ActionEnds
    <2>1. StopsKept /\ GensForward /\ NoNewWriter
      BY <1>0, <1>6, PlanAssumption
         DEF ActionEnds, StopsKept, GensForward, NoNewWriter, TypeOK, BodyRecord,
             Executing, callVars, stopVars
    <2> QED
      BY <2>1, QuietStepSafe
  <1>7. CASE InvalidateGeneration
    <2>1. body.auth \in Nat
      BY <1>0 DEF BodyRecord
    <2>2. StopsKept /\ GensForward /\ NoNewWriter
      BY <1>0, <1>7, <2>1, OperationsForward
         DEF InvalidateGeneration, StopsKept, GensForward, NoNewWriter, callVars,
             laneVars, stopVars
    <2> QED
      BY <2>2, QuietStepSafe
  <1>8. CASE UNCHANGED vars
    BY <1>8
       DEF vars, callVars, laneVars, stopVars, StopInv, GenerationMirrored,
           AdmissionsCurrent, VictimsPast, EvidenceFollowsRequest, IdleLaneSilent,
           IdleClientSilent, StoppedWritersStaySilent
  <1> QED
    BY <1>1, <1>2, <1>3, <1>4, <1>5, <1>6, <1>7, <1>8 DEF Next

(* StopInv holds throughout every behaviour. *)
THEOREM StopInvHolds == Spec => []StopInv
  <1>1. Init => StopInv
    BY DEF Init, StopInv, FreeBody, GenerationMirrored, AdmissionsCurrent,
           VictimsPast, EvidenceFollowsRequest, IdleLaneSilent, IdleClientSilent,
           StoppedWritersStaySilent
  <1>2. TypeOK /\ TypeOK' /\ StopInv /\ [Next]_vars => StopInv'
    BY NextStopInv
  <1> QED
    BY <1>1, <1>2, TypeCorrect, PTL DEF Spec

(* Once cancel_active_execution_with_facts has reported a settled stop, no *)
(* admission it found writes to the Body again, whatever the number of     *)
(* calls, plans and stops.                                                 *)
THEOREM NoWriteAfterStop == Spec => []StoppedWritersStaySilent
  BY StopInvHolds, PTL DEF StopInv

(* BodyControl's generation always equals the progress authority's, for    *)
(* any number of claims, stops and invalidations.                          *)
THEOREM RecordKeepsUp == Spec => []GenerationMirrored
  BY StopInvHolds, PTL DEF StopInv
=============================================================================
