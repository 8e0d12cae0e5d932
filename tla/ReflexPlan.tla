----------------------------- MODULE ReflexPlan -----------------------------
(***************************************************************************)
(* A work plan: the manager's task (reflex_tools.py, ReflexManager._run),  *)
(* the interpreter of the tree (work_runtime.py, WorkPlanExecutor) and the *)
(* controls that stop, pause, resume and change it.                        *)
(*                                                                         *)
(* A tree is the sequence load.steps of nodes: a call, a call after a      *)
(* condition (when), a choice between two calls, or a wait.  A record is   *)
(* kept under the node, the invocation (0, then one more for every repeat) *)
(* and the part: the call itself (main), or the call run between two       *)
(* invocations of it (sub): spare equipment, or the handler of the plan's  *)
(* interruption.                                                           *)
(***************************************************************************)
EXTENDS ReflexLife

CONSTANTS MaxInvocations    \* bound: the invocations of one call with a record of their own

Invocations == 0 .. MaxInvocations
Keys == (1 .. 2) \X Invocations \X {"main", "sub"}

(* NodeRecord: status, decision_pending, result, interruption (none,       *)
(* equipment, handler, and result once the handler is through), choice_id. *)
NodeRecord == [status |-> "pending", pending |-> FALSE, result |-> None, intr |-> None, chosen |-> None]

(* at: the await the task is at.  status: the activity's.  decided: the    *)
(* running frame's verdict on the call that has just returned.  stops: how *)
(* often danger stopped this call.  op: the control being carried out.     *)
StartPlan ==
    [at |-> "off", status |-> None, project |-> FALSE, handling |-> FALSE, putdown |-> FALSE,
     step |-> 1, inv |-> 0, part |-> "main", node |-> [k \in Keys |-> NodeRecord],
     decided |-> None, stops |-> 0, op |-> None]

Key == <<plan.step, plan.inv, plan.part>>
Record == plan.node[Key]
Main == <<plan.step, plan.inv, "main">>

BetweenAwaits == plan.at \in {"enter", "attempt", "judge", "parted"} \/ (plan.at = "calling" /\ rec["w"].at = "back")
Stopped == plan.status \in {"cancelled", "paused", "stopping", "updating"}

\* ----- the end of a pass -------------------------------------------------

(* run returns and the manager's task goes on: a waiting plan gives the    *)
(* Body back, sleeps, and enters the tree again from its root; any other   *)
(* status ends it.                                                         *)
PlanReturns(p, status) ==
    plan' = IF Stopped THEN [p EXCEPT !.at = "off"]
            ELSE [p EXCEPT !.at = IF status = "waiting" THEN "nap" ELSE "off", !.status = status]

(* A node that did not finish ends the pass; a part that did not finish    *)
(* leaves its call waiting or blocked with it.                             *)
Unfinished(p, status) ==
    PlanReturns([p EXCEPT !.node[Key].status = status, !.node[Main].status = status], status)

(* A node is done: after a part its call goes on; after the call the next  *)
(* step is entered.                                                        *)
NodeDone(p) ==
    IF plan.part = "sub"
    THEN plan' = [p EXCEPT !.node[Key].status = "done", !.part = "main", !.at = "parted", !.handling = FALSE]
    ELSE IF plan.step = Len(load.steps)
    THEN PlanReturns([p EXCEPT !.node[Key].status = "done"], "completed")
    ELSE plan' = [p EXCEPT !.node[Key].status = "done", !.step = @ + 1, !.inv = 0, !.at = "enter", !.stops = 0]

(* The call is run again under a record of its own, unless the plan's time *)
(* is up.  Only the newest records are kept: the bound is the last one.    *)
Repeat(p) ==
    \/ /\ load.late
       /\ Unfinished(p, "blocked") /\ UNCHANGED left
    \/ /\ LET next == IF plan.inv < MaxInvocations THEN plan.inv + 1 ELSE plan.inv
          IN  plan' = [p EXCEPT !.inv = next, !.at = "enter",
                                !.node[<<plan.step, next, "main">>] = [NodeRecord EXCEPT !.status = "active"]]
       /\ left' = [left EXCEPT !.again = IF @ > 0 THEN @ - 1 ELSE 0]

\* ----- ReflexManager._run ------------------------------------------------

(* The Body is claimed when it is free; until then the task asks again.    *)
_run ==
    /\ plan.at = "claim"
    /\ IF Stopped THEN plan' = [plan EXCEPT !.at = "off"]
       ELSE /\ \A c \in Calls : rec[c].at \in {"off", "back"} /\ ~Running(c)
            /\ plan' = [plan EXCEPT !.at = "enter", !.step = 1, !.inv = 0, !.part = "main",
                                    !.status = "running", !.stops = 0, !.handling = FALSE]
    /\ UNCHANGED <<loop, rec, fut, life, guard, eq, load, left, hist>>

WaitingAgain ==
    /\ plan.at = "nap"
    /\ plan' = [plan EXCEPT !.at = IF Stopped THEN "off" ELSE "claim"]
    /\ UNCHANGED <<loop, rec, fut, life, guard, eq, load, left, hist>>

\* ----- the interpreter ---------------------------------------------------

(* A node is entered: one that is done is passed over; a condition and a   *)
(* choice come first; an interrupted call returns to its interruption, a   *)
(* judged one to its question, any other is run.                           *)
_execute ==
    /\ plan.at = "enter"
    /\ LET kind == IF plan.part = "main" THEN load.steps[plan.step] ELSE "call"
           p == [plan EXCEPT !.node[Key].status = "active"]
       IN  IF Record.status = "done" THEN NodeDone(plan)
           ELSE plan' = [p EXCEPT !.at =
               CASE kind \in {"wait", "when"} /\ plan.inv = 0 -> "cond"
                 [] kind = "choice" /\ plan.inv = 0 /\ Record.chosen = None -> "choose"
                 [] OTHER -> "attempt"]
    /\ UNCHANGED <<loop, rec, fut, life, guard, eq, load, left, hist>>

(* _condition: Decision is asked beside the Body loop.                     *)
_condition ==
    /\ plan.at = "cond"
    /\ \E answer \in {"satisfied", "pending", "unknown"} :
         \/ /\ answer = "satisfied" /\ load.steps[plan.step] = "when"
            /\ plan' = [plan EXCEPT !.at = "attempt"]
         \/ /\ answer = "satisfied" /\ load.steps[plan.step] = "wait"
            /\ NodeDone(plan)
         \/ /\ answer # "satisfied"
            /\ Unfinished(plan, IF load.steps[plan.step] = "when" /\ answer = "unknown" THEN "blocked" ELSE "waiting")
         \/ /\ answer # "satisfied" /\ load.late
            /\ Unfinished(plan, "blocked")
    /\ UNCHANGED <<loop, rec, fut, life, guard, eq, load, left, hist>>

_choose ==
    /\ plan.at = "choose"
    /\ \/ plan' = [plan EXCEPT !.at = "attempt", !.node[Key].chosen = "a"]
       \/ plan' = [plan EXCEPT !.at = "attempt", !.node[Key].chosen = "b"]
       \/ Unfinished(plan, "blocked")
    /\ UNCHANGED <<loop, rec, fut, life, guard, eq, load, left, hist>>

Attempt ==
    /\ plan.at = "attempt"
    /\ plan' = CASE Record.intr \in {"equipment", "handler"} ->
                        [plan EXCEPT !.part = "sub", !.at = "enter", !.handling = Record.intr = "handler"]
                 [] Record.intr = "result" -> [plan EXCEPT !.at = "handled"]
                 [] Record.intr = None /\ Record.pending -> [plan EXCEPT !.at = "judge"]
                 [] OTHER -> [plan EXCEPT !.at = "call"]
    /\ UNCHANGED <<loop, rec, fut, life, guard, eq, load, left, hist>>

(* The call goes through run_tool and the Body loop; a refused one ends    *)
(* the plan with an error.                                                 *)
_call ==
    /\ plan.at = "call" /\ ~Watched("w")
    /\ IF Admitted("w")
       THEN /\ Enters("w", plan.stops, loop)
            /\ plan' = [plan EXCEPT !.at = "calling"]
       ELSE PlanReturns(plan, "blocked") /\ UNCHANGED <<loop, rec, life>>
    /\ UNCHANGED <<fut, guard, eq, load, left, hist>>

(* It returned: the result and the running frame's verdict are recorded    *)
(* before the Body is read for the question.  One that raised ends the     *)
(* plan.                                                                   *)
CallReturned ==
    /\ plan.at = "calling" /\ rec["w"].at = "back"
    /\ rec' = [rec EXCEPT !["w"] = Cleared(@, "w")]
    /\ IF rec["w"].out = "raised" THEN PlanReturns(plan, "blocked")
       ELSE plan' = [plan EXCEPT !.at = "state", !.node[Key].result = rec["w"].worker,
                                 !.decided = rec["w"].choice, !.stops = rec["w"].stops]
    /\ UNCHANGED <<loop, fut, life, guard, eq, load, left, hist>>

(* _apply_call_choice.                                                     *)
_apply_call_choice(p, choice) ==
    \/ /\ choice = "next_step"
       /\ NodeDone([p EXCEPT !.node[Key].pending = FALSE]) /\ UNCHANGED left
       /\ hist' = [hist EXCEPT !.done = IF plan.part = "main" THEN @ \cup {plan.step} ELSE @]
    \/ /\ choice = "call_agent"
       /\ Unfinished([p EXCEPT !.node[Key].pending = FALSE], "blocked") /\ UNCHANGED <<left, hist>>
    \/ /\ choice = "repeat"
       /\ Repeat([p EXCEPT !.node[Key].pending = FALSE, !.node[Key].status = "active"]) /\ UNCHANGED hist
    \/ /\ choice \notin {"next_step", "call_agent", "repeat"}
       /\ Unfinished([p EXCEPT !.node[Key].pending = TRUE], "waiting") /\ UNCHANGED <<left, hist>>

(* A running frame's verdict is applied as it is; otherwise the result is  *)
(* asked about.                                                            *)
CallJudged ==
    /\ plan.at = "state"
    /\ LET p == [plan EXCEPT !.decided = None]
       IN  \/ /\ plan.decided = "interrupt"
              /\ plan' = [p EXCEPT !.node[Key].intr = "handler", !.at = "attempt"] /\ UNCHANGED <<left, hist>>
           \/ /\ plan.decided \in {"next_step", "call_agent", "repeat"}
              /\ _apply_call_choice(p, plan.decided)
           \/ /\ plan.decided \notin {"interrupt", "next_step", "call_agent", "repeat"}
              /\ plan' = [p EXCEPT !.at = "judge"] /\ UNCHANGED <<left, hist>>
    /\ UNCHANGED <<loop, rec, fut, life, guard, eq, load>>

(* decide_plan_result: the question is put to the Body loop; of a dead     *)
(* Body nothing is asked.  No time limit covers the wait.                  *)
Judged(options, next) ==
    IF _process_lifecycle_events
    THEN /\ Unfinished([plan EXCEPT !.node[Key].pending = TRUE], "waiting")
         /\ UNCHANGED <<loop, fut, life>>
    ELSE /\ _judge_terminal_frame("work", loop, options)
         /\ plan' = [plan EXCEPT !.at = next]

_decide_call ==
    /\ plan.at = "judge"
    /\ \E f \in load.scenes :
          LET options == Bounded(frame_choice(_call_options(Ctx("w"), f, Record.result), FALSE))
          IN  Judged(IF plan.part = "main" THEN options ELSE options \ {"repeat", "equip"}, "judging")
    /\ UNCHANGED <<rec, guard, eq, load, left, hist>>

(* The answer.  A question the loop cancelled is a cancellation nobody     *)
(* asked of this plan: it says so and ends.                                *)
decide_plan_result ==
    /\ plan.at = "judging" /\ Answered("work")
    /\ QuestionDropped("work")
    /\ loop' = _release_result_pending(Forget(loop, "work"), "w")
    /\ LET choice == fut["work"].st
       IN  \/ /\ choice = "cancelled"
              /\ PlanReturns(plan, "blocked") /\ UNCHANGED <<left, hist>>
           \/ /\ choice = "equip"
              /\ plan' = [plan EXCEPT !.at = "attempt", !.node[Key].pending = FALSE, !.node[Key].intr = "equipment"]
              /\ left' = [left EXCEPT !.again = IF @ > 0 THEN @ - 1 ELSE 0] /\ UNCHANGED hist
           \/ /\ choice \notin {"cancelled", "equip"}
              /\ _apply_call_choice(plan, choice)
    /\ UNCHANGED <<rec, life, guard, eq, load>>

(* The part is done: after the equipment the call is run again, after the  *)
(* handler Decision is asked.                                              *)
_handle_equipment ==
    /\ plan.at = "parted"
    /\ \/ /\ Record.intr = "equipment"
          /\ Repeat([plan EXCEPT !.node[Key].intr = None, !.node[Key].status = "active"])
       \/ /\ Record.intr = "handler"
          /\ plan' = [plan EXCEPT !.node[Key].intr = "result", !.at = "handled"] /\ UNCHANGED left
    /\ UNCHANGED <<loop, rec, fut, life, guard, eq, load, hist>>

(* The time of the interrupted call covers its handler and its equipment.  *)
PartTimesOut ==
    /\ load.late /\ plan.part = "sub" /\ plan.at \in {"calling", "state", "judging"}
    /\ ~BetweenAwaits
    /\ LET d == CutOff(Forget(loop, "work"), rec, "w")
       IN  /\ loop' = IF plan.at = "judging" THEN _release_result_pending(d.l, "w") ELSE d.l
           /\ rec' = [d.r EXCEPT !["w"] = Cleared(@, "w")]
           /\ guard' = IF guard.at # "off" /\ guard.kind = "work" THEN [guard EXCEPT !.doomed = TRUE] ELSE guard
    /\ QuestionDropped("work")
    /\ PlanReturns([plan EXCEPT !.node[Main].status = "blocked", !.part = "main", !.handling = FALSE], "blocked")
    /\ hist' = [hist EXCEPT !.cut = IF plan.at = "state" THEN @ \cup (loop.pending \cap {"w"}) ELSE @]
    /\ UNCHANGED <<life, eq, load, left>>

(* _handle_interrupt, once its handler is through.                         *)
HandlerJudged ==
    /\ plan.at = "handled"
    /\ \E f \in load.scenes : Judged(Bounded(frame_choice(interrupt_result_question(f), FALSE)), "handling")
    /\ UNCHANGED <<rec, guard, eq, load, left, hist>>

_handle_interrupt ==
    /\ plan.at = "handling" /\ Answered("work")
    /\ QuestionDropped("work")
    /\ loop' = _release_result_pending(Forget(loop, "work"), "w")
    /\ LET choice == fut["work"].st
       IN  \/ /\ choice = "cancelled"
              /\ PlanReturns(plan, "blocked") /\ UNCHANGED left
           \/ /\ choice = "resume"
              /\ Repeat([plan EXCEPT !.node[Key].intr = None, !.node[Key].status = "active"])
           \/ /\ choice = "repeat"
              /\ plan' = [plan EXCEPT !.node[Key].intr = "handler", !.at = "attempt",
                                      !.node[<<plan.step, plan.inv, "sub">>] = NodeRecord]
              /\ left' = [left EXCEPT !.again = @ - 1]
           \/ /\ choice = "call_agent"
              /\ Unfinished(plan, "blocked") /\ UNCHANGED left
           \/ /\ choice \notin {"cancelled", "resume", "repeat", "call_agent"}
              /\ Unfinished(plan, "waiting") /\ UNCHANGED left
    /\ UNCHANGED <<rec, life, guard, eq, load, hist>>

\* ----- the controls ------------------------------------------------------

(* cancel, pause and update mark the activity at once; resume starts a     *)
(* paused one again.                                                       *)
control ==
    /\ left.controls # <<>>
    /\ LET op == Head(left.controls)
       IN  \/ /\ op # "resume" /\ plan.status # None /\ plan.op = None
              /\ plan' = [plan EXCEPT !.status = IF op = "updating" THEN op ELSE "stopping", !.op = op]
           \/ /\ op = "resume" /\ plan.status = "paused" /\ plan.at = "off"
              /\ plan' = [plan EXCEPT !.status = "running", !.at = "claim"]
    /\ left' = [left EXCEPT !.controls = Tail(@)]
    /\ UNCHANGED <<loop, rec, fut, life, guard, eq, load, hist>>

(* The stop task: the plan's task is cancelled where it waits, the Body is *)
(* stopped, and once both are over the activity has its final status; a    *)
(* changed plan is run again over the same records.                        *)
_schedule_stop ==
    /\ plan.op # None /\ plan.at # "stop" /\ ~BetweenAwaits
    /\ LET cut == plan.at \in {"calling", "state", "judging", "handled", "handling"}
           d == IF cut THEN CutOff(Forget(loop, "work"), rec, "w") ELSE [l |-> loop, r |-> rec]
       IN  /\ loop' = IF plan.at \in {"judging", "handling"} THEN _release_result_pending(d.l, "w") ELSE d.l
           /\ rec' = StopRequested([d.r EXCEPT !["w"] =
                        IF @.at = "back" THEN Cleared(@, "w") ELSE @])
           /\ fut' = IF cut THEN [fut EXCEPT !["work"] = [st |-> None, opts |-> {}]] ELSE fut
           /\ guard' = IF cut /\ guard.at # "off" /\ guard.kind = "work" THEN [guard EXCEPT !.doomed = TRUE] ELSE guard
    /\ hist' = [hist EXCEPT !.cut = IF plan.at = "state" THEN @ \cup (loop.pending \cap {"w"}) ELSE @]
    /\ plan' = [plan EXCEPT !.at = "stop", !.handling = FALSE]
    /\ UNCHANGED <<life, eq, load, left>>

StopSettled ==
    /\ plan.at = "stop" /\ StopEnded
    /\ plan' = CASE left.stuck -> [plan EXCEPT !.at = "off", !.op = None, !.status = "blocked"]
                 [] ~left.stuck /\ plan.op = "updating" -> [plan EXCEPT !.at = "claim", !.op = None, !.status = "running"]
                 [] OTHER -> [plan EXCEPT !.at = "off", !.op = None, !.status = plan.op]
    /\ left' = [left EXCEPT !.stuck = FALSE]
    /\ UNCHANGED <<loop, rec, fut, life, guard, eq, load, hist>>

============================================================================
