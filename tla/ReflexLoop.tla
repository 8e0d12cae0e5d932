----------------------------- MODULE ReflexLoop -----------------------------
(***************************************************************************)
(* The reflex layer as a whole: the Agent's direct calls and plans, the    *)
(* lifecycle task, the protection task, the equipment node and the world   *)
(* around them, as tasks of one event loop.                                *)
(***************************************************************************)
EXTENDS ReflexPlan

Init ==
    /\ load \in Loads
    /\ loop = StartLoop
    /\ rec = [c \in Calls |-> StartRec]
    /\ fut = [o \in Askers |-> [st |-> None, opts |-> {}]]
    /\ life = StartLife
    /\ guard = StartGuard
    /\ eq = StartEquipment
    /\ plan = StartPlan
    /\ left = [again |-> load.again, moves |-> load.moves, stuck |-> FALSE, events |-> load.events,
               errors |-> load.errors, controls |-> load.controls, calls |-> load.calls, cancels |-> load.cancels]
    /\ hist = [told |-> 0, idle |-> FALSE, cut |-> {}, done |-> {}]

\* ----- the Agent ---------------------------------------------------------

(* The session enters the world.                                           *)
SessionStarts ==
    /\ load.work = None /\ ~loop.started /\ loop.connected = "unset"
    /\ loop' = start(loop) /\ Starts(loop')
    /\ UNCHANGED <<rec, fut, guard, eq, plan, load, left, hist>>

(* Bound: the calls the history still has.                                 *)
AgentCalls ==
    /\ Direct /\ left.calls > 0 /\ rec["w"].at = "off" /\ ~Watched("w") /\ Admitted("w")
    /\ Enters("w", 0, loop)
    /\ hist' = [hist EXCEPT !.told = 0]
    /\ left' = [left EXCEPT !.calls = @ - 1]
    /\ UNCHANGED <<fut, guard, eq, plan, load>>

AgentHears ==
    /\ Direct /\ rec["w"].at = "back"
    /\ rec' = [rec EXCEPT !["w"] = Cleared(@, "w")]
    /\ UNCHANGED <<loop, fut, life, guard, eq, plan, load, left, hist>>

AgentPlans ==
    /\ load.work = "plan" /\ left.calls > 0 /\ plan.at = "off" /\ plan.status = None
    /\ plan' = [plan EXCEPT !.at = "claim", !.status = "running"]
    /\ left' = [left EXCEPT !.calls = @ - 1]
    /\ UNCHANGED <<loop, rec, fut, life, guard, eq, load, hist>>

(* The task that waits for a direct call is cancelled; a protection or an  *)
(* equipment node it awaits is cancelled with it.                          *)
CallerCancelled ==
    /\ Direct /\ left.cancels > 0 /\ rec["w"].at \notin {"off", "back"} /\ AtAnAwait
    /\ LET own == eq.own = "work"
           e == IF own THEN CutOff(Forget(loop, "work"), rec, "e") ELSE [l |-> Forget(loop, "work"), r |-> rec]
           d == CutOff(e.l, e.r, "w")
       IN  /\ loop' = IF own /\ eq.at = "judge" THEN _release_result_pending(d.l, "e") ELSE d.l
           /\ rec' = IF own THEN [d.r EXCEPT !["e"] = Cleared(@, "e")] ELSE d.r
           /\ eq' = IF own THEN StartEquipment ELSE eq
           /\ hist' = [hist EXCEPT !.cut = @ \cup Unjudged("work")]
    /\ QuestionDropped("work")
    /\ guard' = IF guard.at # "off" /\ guard.kind = "work" /\ rec["w"].at = "seen" /\ rec["w"].seen
                THEN [guard EXCEPT !.doomed = TRUE] ELSE guard
    /\ left' = [left EXCEPT !.cancels = @ - 1]
    /\ UNCHANGED <<life, plan, load>>

\* ----- the specification -------------------------------------------------

Agent == SessionStarts \/ AgentCalls \/ AgentHears \/ AgentPlans \/ CallerCancelled \/ control
World == _queue_lifecycle_event \/ LaneGivesUp \/ DeadlinePasses \/ (\E c \in Calls : WorkerEnds(c))

Doomed(c) == guard.doomed /\ (c = "g" \/ (c = "e" /\ eq.own = "guard"))
CallTask(c) == ~Doomed(c) /\ (_register_monitor(c) \/ Collect(c) \/ Settles(c))
WorkTask == _decide_result \/ EquippedForResult
Guarding ==
    \/ _protect_work \/ _run_default_action \/ DefaultStopSettled \/ _execute_protection \/ ProtectionEnds
    \/ AfterProtection \/ _stopped_again_at_the_same_place \/ _follow_default_result \/ DefaultResultAsked
    \/ DefaultResultAnswered \/ EquippedForProtection \/ _run_idle_protection
GuardTask == ((~guard.doomed \/ ~AtAnAwait) /\ Guarding) \/ ProtectionCancelled
EquipmentTask == (~Doomed("e") \/ ~AtAnAwait) /\ (RunResultEquipment \/ EquipmentDeadline)
LifeTask ==
    \/ ProcessEvent \/ BodySettledAfterDeath \/ stop \/ _restart_after_world_ready \/ _idle_frames
    \/ _judge_frame \/ _serve_terminal_question \/ _refresh_running_facts \/ RunningFactsRead \/ _monitor
    \/ MonitorEnds \/ MonitorAnswered \/ _bounded_read \/ HandoffSettled \/ IdleNap \/ _read_idle_facts
    \/ IdleAsked \/ IdleAnswered \/ LifeFails \/ _run_lifecycle
PlanTask ==
    \/ _run \/ WaitingAgain \/ _execute \/ _condition \/ _choose \/ Attempt \/ _call \/ CallReturned \/ CallJudged
    \/ _decide_call \/ decide_plan_result \/ _handle_equipment \/ PartTimesOut \/ HandlerJudged \/ _handle_interrupt
    \/ _schedule_stop \/ StopSettled

Next == Agent \/ World \/ (\E c \in Calls : CallTask(c)) \/ WorkTask \/ GuardTask \/ EquipmentTask \/ LifeTask \/ PlanTask

(* A task that can run is run, Decision answers or its time is up, and a   *)
(* worker ends: its tool has a time limit of its own.  A running call is   *)
(* read about again and again, so an answer that is there now and then     *)
(* (the monitor looks at it between two readings) is looked at.            *)
Fairness ==
    /\ WF_vars(LifeTask) /\ WF_vars(_judge_frame) /\ SF_vars(MonitorAnswered)
    /\ WF_vars(GuardTask) /\ WF_vars(EquipmentTask) /\ WF_vars(WorkTask) /\ WF_vars(PlanTask)
    /\ \A c \in Calls : WF_vars(CallTask(c)) /\ WF_vars(WorkerEnds(c))

Spec == Init /\ [][Next]_vars /\ Fairness

\* ----- what must hold ----------------------------------------------------

(* Somebody will still take the result slot of c back: the call itself,    *)
(* the plan or the equipment node that judges it, or the protection task   *)
(* that reserved it.                                                       *)
Tended(c) ==
    \/ rec[c].at # "off"
    \/ c = "w" /\ plan.at \in {"state", "judge", "judging"}
    \/ c = "e" /\ eq.at \in {"state", "judge", "nap"}
    \/ guard.at # "off" /\ guard.reserved /\ Slot = c

(* While a result slot is held the idle branch of the loop neither reads   *)
(* nor protects the Body (body_loop.py, _idle_frames).  A slot is never    *)
(* held by a call nobody tends any more: on every way out, cancellation,   *)
(* deadline, death, disconnection and error of the loop, its holder or the *)
(* monitor has given it back.  Excepted is the one leak of the code, kept  *)
(* in hist.cut: a plan or an equipment node cut off between the return of  *)
(* its call and its question (work_runtime.py, _execute).                  *)
SlotOwned == _process_lifecycle_events \/ loop.pending \subseteq {c \in Calls : Tended(c)} \cup hist.cut

Begins(c) == ~Running(c) /\ rec'[c].worker = "run"

(* Nothing acts with a dead Body: between the death that was processed and *)
(* the respawn no call, protective action, equipment node, next attempt or *)
(* plan step starts a worker, whatever was asked, answered or awaited      *)
(* before the death (body_loop.py, run and _process_lifecycle_events).     *)
NoActionWhileDead == [][\A c \in Calls : Begins(c) => loop.state # "dead"]_vars

(* A direct call that has been handed to the Agent is over: once a frame,  *)
(* its result question, the sequel of a protective action or an equipment  *)
(* node has told the Agent, this call is not attempted again behind its    *)
(* back (direct_call_supervision.py, run).                                 *)
ToldIsOver == [][Direct /\ rec["w"].at # "off" /\ Begins("w") => hist.told = 0]_vars

(* A plan that asks about a result hears back: decide_plan_result has no   *)
(* time limit of its own, so the answer, the death or the disconnection    *)
(* must reach it whatever the lifecycle task was doing.                    *)
PlanHearsBack == plan.at \in {"judging", "handling"} ~> plan.at \notin {"judging", "handling"}

(* The one consumer of edges, frames and questions never waits for ever:   *)
(* from every monitor, hand-off, death and disconnection the lifecycle     *)
(* task comes back to the head of its loop, or ends (body_loop.py,         *)
(* _idle_frames).                                                          *)
LifeTurns == []<>(life.at \in {"off", "top"})

(* "Never reuse completed writes from an old run" and "changing its tool   *)
(* or arguments must never replay the write" (work_runtime.py): a step of  *)
(* the plan whose call has been judged done is not called again.           *)
NoReplay == [][plan.at = "call" /\ plan.part = "main" /\ plan'.at = "calling" => plan.step \notin hist.done]_vars

============================================================================
