--------------------------- MODULE BodyOwnership ---------------------------
(***************************************************************************)
(* Who may move the Body, and how a stop takes it away.                    *)
(*                                                                         *)
(* The coroutines of AgentRuntime.run_tool, of ReflexManager._run and of   *)
(* AgentRuntime.cancel_active_execution_with_facts share one BodyControl   *)
(* record, one writer lane (a single worker thread) and one native client. *)
(* A coroutine runs without interruption between two awaits, so an action  *)
(* here is the code between two awaits; the worker thread and the client   *)
(* take their own steps in between.                                        *)
(***************************************************************************)
EXTENDS BodyControl

CONSTANTS
    AgentCalls,        \* run_tool calls of the Agent, claimed under their own id
    ThreatCalls,       \* run_tool calls of a protective action
    Plans,             \* plan activities; a plan's calls are claimed under its id
    LifePlans,         \* the plans that walk a life project (holder "life")
    PlanCalls,         \* run_tool calls made by plans
    PlanOf,            \* the plan that makes a plan call
    Stops,             \* invocations of cancel_active_execution_with_facts
    MaxRepeats,        \* bound: how often a supervised call is readmitted
    MaxInvalidations,  \* bound: generation invalidations outside a stop
    MaxNaps            \* bound: how often a plan gives the Body back to wait

Calls == AgentCalls \cup ThreatCalls \cup PlanCalls

ASSUME ClaimIds == Claims = AgentCalls \cup ThreatCalls \cup Plans
ASSUME PlanAssumption ==
    /\ LifePlans \subseteq Plans
    /\ PlanOf \in [PlanCalls -> Plans]
    /\ AgentCalls \cap ThreatCalls = {}
    /\ PlanCalls \cap Claims = {}
    /\ (AgentCalls \cup ThreatCalls) \cap Plans = {}
    /\ None \notin Calls
ASSUME StopAssumption == Stops \cap (Calls \cup Plans) = {}
ASSUME BoundAssumption ==
    MaxRepeats \in Nat /\ MaxInvalidations \in Nat /\ MaxNaps \in Nat

ClaimOf(c) == IF c \in PlanCalls THEN PlanOf[c] ELSE c
PlanHolder(p) == IF p \in LifePlans THEN "life" ELSE "agent_plan"
HolderOf(c) == CASE c \in AgentCalls  -> "agent_call"
                 [] c \in ThreatCalls -> "threat"
                 [] OTHER             -> PlanHolder(PlanOf[c])

VARIABLES
    body,      \* the BodyControl record
    pc,        \* where each run_tool coroutine stands
    cgen,      \* claim_generation of each call
    evidence,  \* what the native probe of a call, plan or stop has just read
    repeats,   \* readmissions of each call so far
    fut,       \* the call's callback on the writer lane
    token,     \* the callback's ExecutionCancellation
    result,    \* how the callback ended, or is about to
    ahead,     \* the callbacks queued on the lane before each queued one
    native,    \* the call whose action the client is carrying out, or None
    plan,      \* where each ReflexManager._run coroutine stands
    revoked,   \* plans whose activity was cancelled
    naps,      \* how often each plan has waited
    spc,       \* where each stop stands
    accepted,  \* the client accepted the stop's interrupt
    idle,      \* the stop saw the writer lane idle
    victims,   \* the admissions a stop found: pairs of a call and its generation
    waiter,    \* the call a stop was started for, or None
    invalidations

callVars == <<pc, cgen, repeats>>
laneVars == <<fut, token, result, ahead>>
planVars == <<plan, revoked, naps>>
stopVars == <<spc, accepted, idle, victims, waiter>>
vars == <<body, callVars, evidence, laneVars, native, planVars, stopVars,
          invalidations>>

CallStates == {"idle", "waitLife", "waitThreat", "probing", "probed",
               "claimed", "lane", "detached", "done"}
Executing == {"entered", "issuing", "acting", "returning"}
FutureStates == Executing \cup {"none", "queued", "over"}
Results == {"none", "ok", "preempted", "cancelled", "raised", "transport", "unknown"}
PlanStates == {"idle", "claiming", "probing", "probed", "held", "asleep", "over"}
StopPcs == {"idle", "interrupt", "lane", "probe", "probed", "settled", "unknown",
            "dropped"}

TypeOK ==
    /\ body \in BodyRecord
    /\ pc \in [Calls -> CallStates]
    /\ cgen \in [Calls -> Nat]
    /\ evidence \in [Calls \cup Plans \cup Stops -> BOOLEAN]
    /\ repeats \in [Calls -> 0..MaxRepeats]
    /\ fut \in [Calls -> FutureStates]
    /\ token \in [Calls -> BOOLEAN]
    /\ result \in [Calls -> Results]
    /\ ahead \in [Calls -> SUBSET Calls]
    /\ native \in Calls \cup {None}
    /\ plan \in [Plans -> PlanStates]
    /\ revoked \in SUBSET Plans
    /\ naps \in [Plans -> 0..MaxNaps]
    /\ spc \in [Stops -> StopPcs]
    /\ accepted \in [Stops -> BOOLEAN]
    /\ idle \in [Stops -> BOOLEAN]
    /\ victims \in [Stops -> SUBSET (Calls \X Nat)]
    /\ waiter \in [Stops -> Calls \cup {None}]
    /\ invalidations \in 0..MaxInvalidations

Init ==
    /\ body = FreeBody
    /\ pc = [c \in Calls |-> "idle"]
    /\ cgen = [c \in Calls |-> 0]
    /\ evidence = [x \in Calls \cup Plans \cup Stops |-> FALSE]
    /\ repeats = [c \in Calls |-> 0]
    /\ fut = [c \in Calls |-> "none"]
    /\ token = [c \in Calls |-> FALSE]
    /\ result = [c \in Calls |-> "none"]
    /\ ahead = [c \in Calls |-> {}]
    /\ native = None
    /\ plan = [p \in Plans |-> "idle"]
    /\ revoked = {}
    /\ naps = [p \in Plans |-> 0]
    /\ spc = [k \in Stops |-> "idle"]
    /\ accepted = [k \in Stops |-> FALSE]
    /\ idle = [k \in Stops |-> FALSE]
    /\ victims = [k \in Stops |-> {}]
    /\ waiter = [k \in Stops |-> None]
    /\ invalidations = 0
-----------------------------------------------------------------------------
(* Shared pieces                                                           *)

Live(c) == fut[c] \in Executing \cup {"queued"}
LaneIdle == \A c \in Calls : ~ Live(c)
WorkerFree == \A c \in Calls : fut[c] \notin Executing
InFlight(p) == {c \in PlanCalls : PlanOf[c] = p /\ pc[c] \notin {"idle", "done"}}
ActivePlans == {p \in Plans : plan[p] \notin {"idle", "over"} /\ p \notin revoked}
ThreatHolds == body.holder = "threat" /\ body.stop \in {"running", "stopping"}
LifeHolds == body.holder = "life" /\ body.stop = "running"
Admissions == {<<c, cgen[c]>> : c \in {d \in Calls :
                  pc[d] \in {"claimed", "lane", "detached"} \/ Live(d)}}

(* The lane is first in, first out: what leaves it is ahead of nobody. *)
LeaveQueue(S) == [c \in Calls |-> IF c \in S THEN {} ELSE ahead[c] \ S]

(* Mutant: a queued callback leaves the lane but its future is never       *)
(* resolved.                                                               *)
CancelFuturesUnresolved(S) ==
    /\ token' = [c \in Calls |-> token[c] \/ (c \in S /\ Live(c))]
    /\ ahead' = [c \in Calls |-> IF c \in S /\ fut[c] = "queued" THEN {c} ELSE ahead[c] \ S]
    /\ UNCHANGED <<fut, result>>

(* Queued callbacks are cancelled outright, running ones see their token. *)
CancelFutures(S) ==
    /\ token' = [c \in Calls |-> token[c] \/ (c \in S /\ Live(c))]
    /\ fut' = [c \in Calls |-> IF c \in S /\ fut[c] = "queued" THEN "over" ELSE fut[c]]
    /\ result' = [c \in Calls |-> IF c \in S /\ fut[c] = "queued"
                                  THEN "cancelled" ELSE result[c]]
    /\ ahead' = LeaveQueue(S)

(* A stop whose awaiting call is cancelled is cancelled with it. *)
AfterDropping(gone) ==
    [j \in Stops |-> IF waiter[j] \in gone /\ spc[j] \notin {"settled", "unknown"}
                     THEN "dropped" ELSE spc[j]]

(* The part of cancel_active_execution_with_facts before its first await,  *)
(* applied to the record b: revoke plans, mark the stop, invalidate the    *)
(* generation, cancel every callback on the lane.  w is the call that      *)
(* awaits the stop, gone the cancelled calls.                              *)
BeginStop(k, b, inval, plans, w, gone) ==
    /\ spc[k] = "idle"
    /\ spc' = [AfterDropping(gone) EXCEPT ![k] = "interrupt"]
    /\ body' = IF inval THEN Invalidated(Stopping(b)) ELSE Stopping(b)
    /\ revoked' = revoked \cup plans
    /\ victims' = [victims EXCEPT ![k] = Admissions]
    /\ waiter' = [waiter EXCEPT ![k] = w]
    /\ CancelFutures(Calls)
    /\ UNCHANGED <<accepted, idle>>
-----------------------------------------------------------------------------
(* run_tool: admission                                                     *)

(* The task of a revoked plan takes no further step but to unwind. *)
Proceeds(c) == c \in PlanCalls => PlanOf[c] \notin revoked

(* Mutant: the plan forgets to give its claim back. *)
PlanReleasedNever(b, p) == b

PlanReleased(b, p) == IF OwnsClaim(b, p) THEN SettledBy(b, p) ELSE b

(* BodyRecoveryRequired: it ends a direct call, and the whole plan of a    *)
(* plan call, which gives the claim back if it owns it.                    *)
Refuse(c) ==
    /\ pc' = [pc EXCEPT ![c] = "done"]
    /\ IF c \in PlanCalls
       THEN /\ plan' = [plan EXCEPT ![PlanOf[c]] = "over"]
            /\ body' = PlanReleased(body, PlanOf[c])
       ELSE UNCHANGED <<plan, body>>
    /\ UNCHANGED cgen

TakeClaim(c, b) ==
    /\ body' = Claimed(b, ClaimOf(c), HolderOf(c))
    /\ cgen' = [cgen EXCEPT ![c] = body'.gen]
    /\ pc' = [pc EXCEPT ![c] = "claimed"]
    /\ UNCHANGED plan

(* From "if control.unknown" to the claim: the code between the last await *)
(* of the waiting part and the next one.                                   *)
Admit(c) ==
    \/ /\ body.stop = "unknown"
       /\ pc' = [pc EXCEPT ![c] = "probing"]
       /\ UNCHANGED <<body, cgen, plan>>
    \/ /\ body.stop # "unknown"
       /\ CanClaim(body, ClaimOf(c))
       /\ TakeClaim(c, body)
    \/ /\ body.stop # "unknown"
       /\ ~ CanClaim(body, ClaimOf(c))
       /\ Refuse(c)

MayEnter(c) ==
    /\ pc[c] = "idle"
    /\ Proceeds(c)
    /\ c \in PlanCalls => plan[PlanOf[c]] = "held" /\ InFlight(PlanOf[c]) = {}

YieldsLife(c) == HolderOf(c) \in {"agent_call", "agent_plan"}
YieldedBy(c) == IF YieldsLife(c) THEN ActivePlans \cap LifePlans ELSE {}

(* The call reaches admission without waiting for another holder. *)
Enter(c) ==
    /\ MayEnter(c)
    /\ YieldsLife(c) => ~ LifeHolds /\ ~ ThreatHolds
    /\ Admit(c)
    /\ revoked' = revoked \cup YieldedBy(c)
    /\ UNCHANGED <<evidence, repeats, laneVars, native, naps, stopVars,
                   invalidations>>

(* A life action is running: the call stops it and waits for that stop. *)
EnterStoppingLife(c, k) ==
    /\ MayEnter(c)
    /\ YieldsLife(c) /\ LifeHolds
    /\ BeginStop(k, body, FALSE, YieldedBy(c), c, {})
    /\ pc' = [pc EXCEPT ![c] = "waitLife"]
    /\ UNCHANGED <<cgen, repeats, evidence, native, plan, naps, invalidations>>

(* A protective action holds the Body: the call waits for its own timeout. *)
EnterWaitingThreat(c) ==
    /\ MayEnter(c)
    /\ YieldsLife(c) /\ ThreatHolds
    /\ pc' = [pc EXCEPT ![c] = "waitThreat"]
    /\ revoked' = revoked \cup YieldedBy(c)
    /\ UNCHANGED <<body, cgen, repeats, evidence, laneVars, native, plan, naps,
                   stopVars, invalidations>>

LifeStopReturned(c) ==
    /\ pc[c] = "waitLife" /\ Proceeds(c)
    /\ \E k \in Stops : waiter[k] = c /\ spc[k] \in {"settled", "unknown"}
    /\ Admit(c)
    /\ UNCHANGED <<evidence, repeats, laneVars, native, revoked, naps, stopVars,
                   invalidations>>

ThreatGone(c) ==
    /\ pc[c] = "waitThreat" /\ Proceeds(c)
    /\ ~ ThreatHolds
    /\ Admit(c)
    /\ UNCHANGED <<evidence, repeats, laneVars, native, revoked, naps, stopVars,
                   invalidations>>

(* The admission deadline passed: the ordinary body_busy receipt. *)
ThreatWaitExpired(c) ==
    /\ pc[c] = "waitThreat" /\ Proceeds(c)
    /\ ThreatHolds
    /\ pc' = [pc EXCEPT ![c] = "done"]
    /\ UNCHANGED <<body, cgen, repeats, evidence, laneVars, native, planVars,
                   stopVars, invalidations>>

(* confirm_control_idle on the read lane; a failing read is no evidence.   *)
(* The coroutine polls for the answer, so it acts on it only later.        *)
ReadProbe(c) ==
    /\ pc[c] = "probing"
    /\ \E ok \in BOOLEAN : evidence' = [evidence EXCEPT ![c] = ok /\ native = None]
    /\ pc' = [pc EXCEPT ![c] = "probed"]
    /\ UNCHANGED <<body, cgen, repeats, laneVars, native, planVars, stopVars,
                   invalidations>>

(* confirm_native_stopped(True) and claim(), or BodyRecoveryRequired. *)
AfterProbe(c) ==
    /\ pc[c] = "probed" /\ Proceeds(c)
    /\ IF evidence[c] THEN TakeClaim(c, Settled(body)) ELSE Refuse(c)
    /\ evidence' = [evidence EXCEPT ![c] = FALSE]
    /\ UNCHANGED <<repeats, laneVars, native, revoked, naps, stopVars,
                   invalidations>>

(* The supervisor's worker task puts the callback on the lane in a later   *)
(* turn of the event loop than the claim; cancelling the call in between   *)
(* does not cancel the worker task.                                        *)
Submit(c) ==
    /\ pc[c] \in {"claimed", "detached"}
    /\ pc' = [pc EXCEPT ![c] = IF @ = "claimed" THEN "lane" ELSE "done"]
    /\ fut' = [fut EXCEPT ![c] = "queued"]
    /\ token' = [token EXCEPT ![c] = FALSE]
    /\ result' = [result EXCEPT ![c] = "none"]
    /\ ahead' = [ahead EXCEPT ![c] = {d \in Calls : fut[d] = "queued"}]
    /\ UNCHANGED <<body, cgen, repeats, evidence, native, planVars, stopVars,
                   invalidations>>
-----------------------------------------------------------------------------
(* The worker thread and the client                                        *)

(* Mutant: the callback does not ask whether its claim was revoked. *)
StartCallbackUnchecked(c) ==
    /\ fut[c] = "queued" /\ ahead[c] = {}
    /\ WorkerFree
    /\ ahead' = LeaveQueue({c})
    /\ fut' = [fut EXCEPT ![c] = IF token[c] THEN "over" ELSE "entered"]
    /\ result' = [result EXCEPT ![c] = IF token[c] THEN "cancelled" ELSE @]
    /\ UNCHANGED <<body, callVars, evidence, token, native, planVars, stopVars,
                   invalidations>>

(* SerialExecutionLane's invoke and run_tool's admitted_callback up to the *)
(* call of the tool: a cancelled or revoked callback never reaches it.     *)
StartCallback(c) ==
    /\ fut[c] = "queued" /\ ahead[c] = {}
    /\ WorkerFree
    /\ ahead' = LeaveQueue({c})
    /\ IF ~ token[c] /\ Owns(body, ClaimOf(c), cgen[c])
       THEN /\ fut' = [fut EXCEPT ![c] = "entered"]
            /\ UNCHANGED result
       ELSE /\ fut' = [fut EXCEPT ![c] = "over"]
            /\ result' = [result EXCEPT ![c] = "cancelled"]
    /\ UNCHANGED <<body, callVars, evidence, token, native, planVars, stopVars,
                   invalidations>>

(* execution_checkpoint() before an action leaves for the client. *)
Checkpoint(c) ==
    /\ fut[c] = "entered"
    /\ IF token[c]
       THEN /\ fut' = [fut EXCEPT ![c] = "over"]
            /\ result' = [result EXCEPT ![c] = "cancelled"]
       ELSE /\ fut' = [fut EXCEPT ![c] = "issuing"]
            /\ UNCHANGED result
    /\ UNCHANGED <<body, callVars, evidence, token, ahead, native, planVars,
                   stopVars, invalidations>>

(* The client accepts the action, or refuses it because one is running. *)
StartAction(c) ==
    /\ fut[c] = "issuing"
    /\ IF native = None
       THEN native' = c /\ fut' = [fut EXCEPT ![c] = "acting"]
       ELSE UNCHANGED native /\ fut' = [fut EXCEPT ![c] = "entered"]
    /\ UNCHANGED <<body, callVars, evidence, token, result, ahead, planVars,
                   stopVars, invalidations>>

(* The client's action ends and its terminal wakes the waiting callback. *)
ActionEnds ==
    /\ native # None
    /\ native' = None
    /\ fut' = [c \in Calls |-> IF c = native /\ fut[c] = "acting"
                               THEN "entered" ELSE fut[c]]
    /\ UNCHANGED <<body, callVars, evidence, token, result, ahead, planVars,
                   stopVars, invalidations>>

(* await_action_terminal runs out of time: the client may still be moving. *)
ActionTimesOut(c) ==
    /\ fut[c] = "acting"
    /\ fut' = [fut EXCEPT ![c] = "over"]
    /\ result' = [result EXCEPT ![c] = "raised"]
    /\ UNCHANGED <<body, callVars, evidence, token, ahead, native, planVars,
                   stopVars, invalidations>>

(* The transport fails under the action, and nobody knows whether the      *)
(* client moved on: the callback raises, or its result says                *)
(* control_unknown.                                                        *)
TransportFails(c) ==
    /\ fut[c] = "acting"
    /\ fut' = [fut EXCEPT ![c] = "over"]
    /\ \E r \in {"transport", "unknown"} : result' = [result EXCEPT ![c] = r]
    /\ UNCHANGED <<body, callVars, evidence, token, ahead, native, planVars,
                   stopVars, invalidations>>

(* The tool has returned: execute_tool asks whether its generation is      *)
(* superseded, and from here on what it will report is settled.            *)
CheckGeneration(c) ==
    /\ fut[c] = "entered"
    /\ fut' = [fut EXCEPT ![c] = "returning"]
    /\ result' = [result EXCEPT ![c] = IF cgen[c] = body.auth
                                       THEN "ok" ELSE "preempted"]
    /\ UNCHANGED <<body, callVars, evidence, token, ahead, native, planVars,
                   stopVars, invalidations>>

(* ... but the callback is live until execute_tool has noted the step and  *)
(* the lane's future is resolved: the event loop may act in between.       *)
ReturnResult(c) ==
    /\ fut[c] = "returning"
    /\ fut' = [fut EXCEPT ![c] = "over"]
    /\ UNCHANGED <<body, callVars, evidence, token, result, ahead, native, planVars,
                   stopVars, invalidations>>
-----------------------------------------------------------------------------
(* run_tool: the end of a call                                             *)

Released(c) == IF Owns(body, c, cgen[c]) THEN SettledBy(body, c) ELSE body

(* What a direct call leaves behind: its claim is given back if it still   *)
(* owns it.  A control_unknown result quarantines the Body instead, and    *)
(* the tool wrapper of the Agent answers a transport error by invalidating *)
(* the generation, which also revokes the running plan.                    *)
Invalidates(c) == result[c] = "transport" /\ c \in AgentCalls
Collected(c) ==
    CASE result[c] = "unknown" -> MarkedUnknown(body)
      [] Invalidates(c)        -> Invalidated(Released(c))
      [] OTHER                 -> Released(c)

CollectDirect(c) ==
    /\ c \in AgentCalls \cup ThreatCalls
    /\ pc[c] = "lane" /\ fut[c] = "over"
    /\ result[c] = "raised" => c \in ThreatCalls
    /\ body' = Collected(c)
    /\ revoked' = IF Invalidates(c) THEN revoked \cup ActivePlans ELSE revoked
    /\ pc' = [pc EXCEPT ![c] = "done"]
    /\ UNCHANGED <<cgen, repeats, evidence, laneVars, native, plan, naps,
                   stopVars, invalidations>>

(* A call that timed out, or was cancelled at any of its awaits: the claim *)
(* is given back and the tool wrapper starts a stop, with no await between. *)
AbandonCall(c, k) ==
    /\ c \in AgentCalls
    /\ pc[c] \notin {"idle", "detached", "done"}
    /\ BeginStop(k, IF pc[c] \in {"claimed", "lane"} THEN Released(c) ELSE body,
                 TRUE, ActivePlans, None, {c})
    /\ pc' = [pc EXCEPT ![c] = IF @ = "claimed" THEN "detached" ELSE "done"]
    /\ UNCHANGED <<cgen, repeats, evidence, native, plan, naps, invalidations>>

(* Decision repeats a supervised call: it must be admitted again. *)
Readmit(c) ==
    /\ c \in AgentCalls
    /\ pc[c] = "lane" /\ fut[c] = "over"
    /\ result[c] \in {"ok", "preempted", "cancelled"}
    /\ repeats[c] < MaxRepeats
    /\ IF CanClaim(body, c)
       THEN /\ body' = Claimed(body, c, HolderOf(c))
            /\ cgen' = [cgen EXCEPT ![c] = body'.gen]
            /\ pc' = [pc EXCEPT ![c] = "claimed"]
            /\ repeats' = [repeats EXCEPT ![c] = @ + 1]
       ELSE /\ pc' = [pc EXCEPT ![c] = "done"]
            /\ UNCHANGED <<body, cgen, repeats>>
    /\ UNCHANGED <<evidence, laneVars, native, planVars, stopVars, invalidations>>

(* A plan's call returns to the plan, which keeps the claim. *)
CollectPlanCall(c) ==
    /\ c \in PlanCalls /\ Proceeds(c)
    /\ pc[c] = "lane" /\ fut[c] = "over"
    /\ result[c] \in {"ok", "preempted", "cancelled", "unknown"}
    /\ body' = IF result[c] = "unknown" THEN MarkedUnknown(body) ELSE body
    /\ pc' = [pc EXCEPT ![c] = "done"]
    /\ UNCHANGED <<cgen, repeats, evidence, laneVars, native, planVars,
                   stopVars, invalidations>>

(* A plan's call times out on the lane or in its action.  The exception    *)
(* ends the plan as blocked, and _run gives the claim back if it owns it.  *)
PlanCallRaises(c) ==
    /\ c \in PlanCalls /\ Proceeds(c)
    /\ pc[c] = "lane"
    /\ \/ fut[c] \in Executing
       \/ fut[c] = "over" /\ result[c] \in {"raised", "transport", "cancelled"}
    /\ body' = PlanReleased(body, PlanOf[c])
    /\ pc' = [pc EXCEPT ![c] = "done"]
    /\ token' = [token EXCEPT ![c] = TRUE]
    /\ plan' = [plan EXCEPT ![PlanOf[c]] = "over"]
    /\ UNCHANGED <<cgen, repeats, evidence, fut, result, ahead, native, revoked,
                   naps, stopVars, invalidations>>
-----------------------------------------------------------------------------
(* ReflexManager                                                           *)

(* delegate / start_project: one activity at a time; delegating revokes a  *)
(* running life project.                                                   *)
StartPlan(p) ==
    /\ plan[p] = "idle"
    /\ IF p \in LifePlans THEN ActivePlans = {} ELSE ActivePlans \subseteq LifePlans
    /\ p \in LifePlans \/ ActivePlans = {} \/ body.holder # "life"
    /\ plan' = [plan EXCEPT ![p] = "claiming"]
    /\ revoked' = IF p \in LifePlans THEN revoked ELSE revoked \cup ActivePlans
    /\ UNCHANGED <<body, callVars, evidence, laneVars, native, naps, stopVars,
                   invalidations>>

(* ... and when the life project holds the Body, a stop is started for it. *)
StartPlanStoppingLife(p, k) ==
    /\ plan[p] = "idle" /\ p \notin LifePlans
    /\ ActivePlans # {} /\ ActivePlans \subseteq LifePlans
    /\ body.holder = "life"
    /\ BeginStop(k, body, FALSE, ActivePlans, None, {})
    /\ plan' = [plan EXCEPT ![p] = "claiming"]
    /\ UNCHANGED <<callVars, evidence, native, naps, invalidations>>

(* One turn of _run's claim loop.  A busy Body is simply asked again. *)
PlanClaim(p) ==
    /\ plan[p] = "claiming" /\ p \notin revoked
    /\ \/ /\ CanClaim(body, p)
          /\ body' = Claimed(body, p, PlanHolder(p))
          /\ plan' = [plan EXCEPT ![p] = "held"]
       \/ /\ Unconfirmed(body)
          /\ plan' = [plan EXCEPT ![p] = "probing"]
          /\ UNCHANGED body
    /\ UNCHANGED <<callVars, evidence, laneVars, native, revoked, naps,
                   stopVars, invalidations>>

PlanReadProbe(p) ==
    /\ plan[p] = "probing" /\ p \notin revoked
    /\ \E ok \in BOOLEAN : evidence' = [evidence EXCEPT ![p] = ok /\ native = None]
    /\ plan' = [plan EXCEPT ![p] = "probed"]
    /\ UNCHANGED <<body, callVars, laneVars, native, revoked, naps, stopVars,
                   invalidations>>

(* Native idleness clears the quarantine and the loop claims at once;      *)
(* otherwise the plan is blocked.                                          *)
PlanAfterProbe(p) ==
    /\ plan[p] = "probed" /\ p \notin revoked
    /\ \/ /\ evidence[p]
          /\ body' = Claimed(Settled(body), p, PlanHolder(p))
          /\ plan' = [plan EXCEPT ![p] = "held"]
       \/ /\ ~ evidence[p]
          /\ body' = PlanReleased(body, p)
          /\ plan' = [plan EXCEPT ![p] = "over"]
    /\ evidence' = [evidence EXCEPT ![p] = FALSE]
    /\ UNCHANGED <<callVars, laneVars, native, revoked, naps, stopVars,
                   invalidations>>

(* The plan's nodes wait: the Body is given back while it sleeps. *)
PlanSleeps(p) ==
    /\ plan[p] = "held" /\ p \notin revoked /\ InFlight(p) = {}
    /\ naps[p] < MaxNaps
    /\ body' = PlanReleased(body, p)
    /\ plan' = [plan EXCEPT ![p] = "asleep"]
    /\ naps' = [naps EXCEPT ![p] = @ + 1]
    /\ UNCHANGED <<callVars, evidence, laneVars, native, revoked, stopVars,
                   invalidations>>

PlanWakes(p) ==
    /\ plan[p] = "asleep" /\ p \notin revoked
    /\ plan' = [plan EXCEPT ![p] = "claiming"]
    /\ UNCHANGED <<body, callVars, evidence, laneVars, native, revoked, naps,
                   stopVars, invalidations>>

PlanFinishes(p) ==
    /\ plan[p] = "held" /\ p \notin revoked /\ InFlight(p) = {}
    /\ body' = PlanReleased(body, p)
    /\ plan' = [plan EXCEPT ![p] = "over"]
    /\ UNCHANGED <<callVars, evidence, laneVars, native, revoked, naps,
                   stopVars, invalidations>>

(* The task of a revoked plan unwinds: its call is cancelled, and the      *)
(* claim is left to the stop that revoked it.                              *)
PlanUnwinds(p) ==
    /\ p \in revoked /\ plan[p] # "over"
    /\ plan' = [plan EXCEPT ![p] = "over"]
    /\ pc' = [c \in Calls |->
                 IF c \notin InFlight(p) THEN pc[c]
                 ELSE IF pc[c] \in {"claimed", "detached"} THEN "detached" ELSE "done"]
    /\ CancelFutures(InFlight(p))
    /\ spc' = AfterDropping(InFlight(p))
    /\ UNCHANGED <<body, cgen, repeats, evidence, native, revoked, naps,
                   accepted, idle, victims, waiter, invalidations>>
-----------------------------------------------------------------------------
(* cancel_active_execution_with_facts                                      *)

(* Death, disconnect, take-over, handoff, pause, cancel, ...  Plans are     *)
(* revoked by request_cancel or as listeners of the generation.            *)
RequestStop(k, inval, reflex) ==
    /\ BeginStop(k, body, inval, IF reflex \/ inval THEN ActivePlans ELSE {}, None, {})
    /\ UNCHANGED <<callVars, evidence, native, plan, naps, invalidations>>

(* Body.interrupt on the control executor: refused, or accepted with the   *)
(* native action ending now or later.                                      *)
Interrupt(k) ==
    /\ spc[k] = "interrupt"
    /\ spc' = [spc EXCEPT ![k] = "lane"]
    /\ \E ok \in BOOLEAN : accepted' = [accepted EXCEPT ![k] = ok]
    /\ UNCHANGED <<body, callVars, evidence, laneVars, native, planVars, idle,
                   victims, waiter, invalidations>>

(* wait_idle: the lane drained, or the budget ran out. *)
AwaitLane(k) ==
    /\ spc[k] = "lane"
    /\ spc' = [spc EXCEPT ![k] = "probe"]
    /\ idle' = [idle EXCEPT ![k] = LaneIdle]
    /\ UNCHANGED <<body, callVars, evidence, laneVars, native, planVars,
                   accepted, victims, waiter, invalidations>>

StopReadProbe(k) ==
    /\ spc[k] = "probe"
    /\ \E ok \in BOOLEAN : evidence' = [evidence EXCEPT ![k] = ok /\ native = None]
    /\ spc' = [spc EXCEPT ![k] = "probed"]
    /\ UNCHANGED <<body, callVars, laneVars, native, planVars, accepted, idle,
                   victims, waiter, invalidations>>

(* An accepted interrupt still being carried out is probed again. *)
StopProbesAgain(k) ==
    /\ spc[k] = "probed"
    /\ ~ evidence[k] /\ accepted[k]
    /\ spc' = [spc EXCEPT ![k] = "probe"]
    /\ UNCHANGED <<body, callVars, evidence, laneVars, native, planVars,
                   accepted, idle, victims, waiter, invalidations>>

(* Mutant: the failed stop reports itself but leaves the record alone. *)
FinishStopUnrecorded(k) ==
    /\ spc[k] = "probed"
    /\ IF idle[k] /\ evidence[k]
       THEN body' = Settled(body) /\ spc' = [spc EXCEPT ![k] = "settled"]
       ELSE UNCHANGED body /\ spc' = [spc EXCEPT ![k] = "unknown"]
    /\ evidence' = [evidence EXCEPT ![k] = FALSE]
    /\ accepted' = [accepted EXCEPT ![k] = FALSE]
    /\ idle' = [idle EXCEPT ![k] = FALSE]
    /\ UNCHANGED <<callVars, laneVars, native, planVars, victims, waiter,
                   invalidations>>

(* Mutant: the stop insists on confirmation, without a budget. *)
FinishStopUnbounded(k) ==
    /\ spc[k] = "probed" /\ idle[k] /\ evidence[k]
    /\ body' = Settled(body)
    /\ spc' = [spc EXCEPT ![k] = "settled"]
    /\ evidence' = [evidence EXCEPT ![k] = FALSE]
    /\ UNCHANGED <<callVars, laneVars, native, planVars, accepted, idle, victims,
                   waiter, invalidations>>

(* The verdict: settle() or mark_unknown(), whoever is recorded by now. *)
FinishStop(k) ==
    /\ spc[k] = "probed"
    /\ IF idle[k] /\ evidence[k]
       THEN /\ body' = Settled(body)
            /\ spc' = [spc EXCEPT ![k] = "settled"]
       ELSE /\ body' = MarkedUnknown(body)
            /\ spc' = [spc EXCEPT ![k] = "unknown"]
    /\ evidence' = [evidence EXCEPT ![k] = FALSE]
    /\ accepted' = [accepted EXCEPT ![k] = FALSE]
    /\ idle' = [idle EXCEPT ![k] = FALSE]
    /\ UNCHANGED <<callVars, laneVars, native, planVars, victims, waiter,
                   invalidations>>

(* invalidate_generation outside a stop and a call: a goal started or      *)
(* replaced, a critical Body fact, a control command.  Its second listener *)
(* is the ReflexManager, which revokes the running plan.                   *)
InvalidateGeneration ==
    /\ invalidations < MaxInvalidations
    /\ invalidations' = invalidations + 1
    /\ body' = Invalidated(body)
    /\ revoked' = revoked \cup ActivePlans
    /\ UNCHANGED <<callVars, evidence, laneVars, native, plan, naps, stopVars>>
-----------------------------------------------------------------------------
CallStep(c) ==
    \/ Enter(c) \/ EnterWaitingThreat(c) \/ LifeStopReturned(c)
    \/ ThreatGone(c) \/ ThreatWaitExpired(c) \/ ReadProbe(c) \/ AfterProbe(c)
    \/ Submit(c) \/ CollectDirect(c) \/ Readmit(c) \/ CollectPlanCall(c)
    \/ PlanCallRaises(c)
    \/ \E k \in Stops : EnterStoppingLife(c, k) \/ AbandonCall(c, k)

WorkerStep(c) ==
    \/ StartCallback(c) \/ Checkpoint(c) \/ StartAction(c)
    \/ ActionTimesOut(c) \/ TransportFails(c)
    \/ CheckGeneration(c) \/ ReturnResult(c)

PlanStep(p) ==
    \/ StartPlan(p) \/ PlanClaim(p) \/ PlanReadProbe(p) \/ PlanAfterProbe(p)
    \/ PlanSleeps(p) \/ PlanWakes(p) \/ PlanFinishes(p) \/ PlanUnwinds(p)
    \/ \E k \in Stops : StartPlanStoppingLife(p, k)

StopStep(k) ==
    \/ Interrupt(k) \/ AwaitLane(k) \/ StopReadProbe(k) \/ StopProbesAgain(k)
    \/ FinishStop(k)

Next ==
    \/ \E c \in Calls : CallStep(c) \/ WorkerStep(c)
    \/ \E p \in Plans : PlanStep(p)
    \/ \E k \in Stops : \/ StopStep(k)
                        \/ \E inval, reflex \in BOOLEAN : RequestStop(k, inval, reflex)
    \/ ActionEnds
    \/ InvalidateGeneration

Spec == Init /\ [][Next]_vars

(* The event loop, the worker thread and the client keep running, a stop's *)
(* budget and a tool's own budget are finite.                              *)
Fairness ==
    /\ \A k \in Stops : WF_vars(StopStep(k)) /\ SF_vars(FinishStop(k))
    /\ \A c \in Calls :
          /\ WF_vars(WorkerStep(c)) /\ SF_vars(CheckGeneration(c))
          /\ WF_vars(LifeStopReturned(c)) /\ WF_vars(ThreatGone(c))
          /\ WF_vars(ReadProbe(c)) /\ WF_vars(AfterProbe(c)) /\ WF_vars(Submit(c))
          /\ WF_vars(CollectDirect(c) \/ \E k \in Stops : AbandonCall(c, k))
    /\ WF_vars(ActionEnds)

FairSpec == Spec /\ Fairness
-----------------------------------------------------------------------------
(* Properties                                                              *)

(* Once a stop has reported settled, none of the admissions it found when  *)
(* it began is executing on the lane or acting through the client, even    *)
(* one whose callback had not reached the lane yet: "no Body write after a *)
(* stop".                                                                  *)
StoppedWritersStaySilent ==
    \A k \in Stops : spc[k] = "settled" =>
        \A v \in victims[k] : cgen[v[1]] = v[2] =>
            fut[v[1]] \notin Executing /\ native # v[1]

(* BodyControl never lags behind the authority, so owns() can only be      *)
(* false for a reason the record itself shows.                             *)
GenerationMirrored == body.gen = body.auth

(* Why the stopped writers stay silent.  Every admission a stop found has a *)
(* generation the Body has left behind, so its callback is refused when it  *)
(* comes up; what the stop learns of the lane and of the client is learnt   *)
(* after it began, and stays true of those admissions.                      *)
AdmissionsCurrent == \A c \in Calls : cgen[c] <= body.auth
VictimsPast == \A k \in Stops : \A v \in victims[k] : v[2] < body.auth
EvidenceFollowsRequest ==
    \A k \in Stops : spc[k] \in {"idle", "interrupt", "lane"} => ~ idle[k] /\ ~ evidence[k]
IdleLaneSilent ==
    \A k \in Stops : idle[k] =>
        \A v \in victims[k] : cgen[v[1]] = v[2] => fut[v[1]] \notin Executing
IdleClientSilent ==
    \A k \in Stops : idle[k] /\ evidence[k] =>
        \A v \in victims[k] : cgen[v[1]] = v[2] => native # v[1]
StopInv ==
    /\ GenerationMirrored
    /\ AdmissionsCurrent
    /\ VictimsPast
    /\ EvidenceFollowsRequest
    /\ IdleLaneSilent
    /\ IdleClientSilent
    /\ StoppedWritersStaySilent

(* Two admissions of different owners never carry the same generation, so  *)
(* a late result cannot pass for another owner's.                          *)
GenerationsIdentifyOwners ==
    \A c, d \in Calls : cgen[c] = cgen[d] /\ cgen[c] # 0 => ClaimOf(c) = ClaimOf(d)

(* A claim recorded as running has an owner that will give it back: a      *)
(* call that is still going on, or a plan that is not over.  Otherwise     *)
(* every later call would be refused as busy for ever.                     *)
RunningClaimHasOwner ==
    body.stop = "running" =>
        \/ body.claim \in AgentCalls \cup ThreatCalls /\ pc[body.claim] \in {"claimed", "lane"}
        \/ body.claim \in Plans /\ plan[body.claim] = "held"

(* A Body recorded as stopping has a stop under way that will give the     *)
(* verdict; without one no claim would ever be admitted again, since       *)
(* run_tool probes only an unknown Body.                                   *)
UnderWay(k) == spc[k] \in {"interrupt", "lane", "probe", "probed"}
StoppingHasStop == body.stop = "stopping" => \E k \in Stops : UnderWay(k)

(* The result of a call that a stop swept up before execute_tool looked at *)
(* its generation is never delivered as fresh, however late its callback   *)
(* ends.  (A stop that begins after the check does not take the result     *)
(* back: it finds the callback still live and yet a success is delivered.) *)
Unchecked(c) == fut[c] \in Executing \ {"returning"}
SweptBeforeCheckIsStale ==
    [][\A k \in Stops, c \in Calls :
         <<c, cgen[c]>> \in victims[k] /\ Unchecked(c) =>
            result'[c] # "ok"]_vars

(* Every stop gives its verdict within its budget. *)
StopsEnd == \A k \in Stops : UnderWay(k) ~> spc[k] \in {"settled", "unknown", "dropped"}

(* Every direct call comes to an end: it is refused, or its callback ends  *)
(* and it is collected, so nobody waits for ever on a callback that a stop *)
(* removed from the lane.  The one exception is the bound on stops: a call *)
(* that timed out ends by starting one.                                    *)
OutOfStops(c) ==
    /\ fut[c] = "over" /\ result[c] = "raised"
    /\ \A k \in Stops : spc[k] # "idle"
CallsEnd == \A c \in AgentCalls \cup ThreatCalls :
                pc[c] # "idle" ~> pc[c] = "done" \/ OutOfStops(c)

=============================================================================
