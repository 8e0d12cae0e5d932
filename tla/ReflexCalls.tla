---------------------------- MODULE ReflexCalls ----------------------------
(***************************************************************************)
(* The record of the Body loop (body_loop.py, BodyLoop) and a physical     *)
(* call under its supervision (BodyLoop.run around CallSupervisor.run of   *)
(* direct_call_supervision.py): admission to the loop, the worker, the     *)
(* monitor it registers, the wait for a protective action, the question    *)
(* about its result, and what it leaves on every way out.                  *)
(*                                                                         *)
(* Everything here runs in tasks of one event loop: a step is what a task  *)
(* does between two awaits.  Only the worker runs elsewhere.  The work     *)
(* call w belongs to the Agent or to a plan, g is the protective or life   *)
(* action of the guard task, e the equipment call between two attempts.    *)
(* The claims of run_tool are those of BodyOwnership; what a call needs of *)
(* them here is that no other worker and no stop is under way.             *)
(***************************************************************************)
EXTENDS ReflexQuestions, Sequences

CONSTANTS
    Loads   \* histories: the work, the facts that may be seen, what may befall

VARIABLES
    loop,   \* the fields of BodyLoop
    rec,    \* the record of each call
    fut,    \* the terminal question each asking task waits for
    life,   \* the lifecycle task
    guard,  \* the protection task
    eq,     \* the equipment node run between two attempts
    plan,   \* the plan executor and its node records
    load,   \* the history
    left,   \* what may still befall
    hist    \* what has been told and done

vars == <<loop, rec, fut, life, guard, eq, plan, load, left, hist>>

None == "none"
Calls == {"w", "g", "e"}
Askers == {"work", "guard"}

\* ----- the record of the loop --------------------------------------------

(* connected: unset, yes, no.  active: the call whose monitor is           *)
(* registered.  pending: the calls that hold a result slot.  queue: who    *)
(* waits with a terminal question.  current, redirect, verdict, events,    *)
(* deaths and wake are _current, _protective_redirect,                     *)
(* _protective_verdict, _lifecycle_events, _death_count and _loop_wakeup.  *)
StartLoop ==
    [state |-> "idle", started |-> FALSE, connected |-> "unset", active |-> None, pending |-> {},
     queue |-> <<>>, current |-> None, events |-> <<>>, deaths |-> 0, redirect |-> None,
     target |-> None, verdict |-> None, wake |-> FALSE]

(* at: off, grace, work, seen, judge, equip, back; out: returned, raised.  *)
(* reg, seen: monitor_registered and monitor_done.  prot: the protection   *)
(* task this record waits for.  choice: the decision handed off.  late:    *)
(* its deadline has passed.  stops: how often danger stopped it.  was,     *)
(* prev, deaths: what the caller's frame keeps.                            *)
StartRec ==
    [at |-> "off", out |-> None, worker |-> None, stopping |-> FALSE, cancel |-> FALSE, abandoned |-> FALSE,
     reg |-> FALSE, seen |-> FALSE, prot |-> None, resume |-> FALSE, choice |-> None, late |-> FALSE,
     stops |-> 0, was |-> "idle", prev |-> None, deaths |-> 0, target |-> None]

_set_state(l, s, cause) ==
    IF l.state = "dead" /\ cause # "respawned" THEN l ELSE [l EXCEPT !.state = s]

_release_result_pending(l, c) == [l EXCEPT !.pending = @ \ {c}, !.wake = TRUE]

Wake(l) == [l EXCEPT !.wake = TRUE]

Direct == load.work = "direct"

Ctx(c) ==
    [plan    |-> c = "e" \/ (c = "w" /\ ~Direct),
     reflex  |-> c = "g" \/ (c = "e" /\ eq.own = "guard"),
     life    |-> c = "g" /\ guard.life,
     choice  |-> IF c = "g" THEN guard.choice ELSE None,
     intent  |-> TRUE,
     interrupt |-> c = "w" /\ load.interrupt /\ ~plan.handling,
     reader  |-> c = "w" /\ load.reader,
     project |-> c = "w" /\ plan.project]

(* Mutant: only an edge that is still queued counts as a death.            *)
DeathQueued == \E i \in DOMAIN loop.events : loop.events[i] = "death"

(* Events are processed by the lifecycle task; anybody else learns whether *)
(* the Body is dead, or about to be found so.                              *)
_process_lifecycle_events == loop.state = "dead" \/ \E i \in DOMAIN loop.events : loop.events[i] = "death"

start(l) == IF l.connected = "no" THEN l ELSE [l EXCEPT !.started = TRUE]

(* The lifecycle task is made when the loop starts.                        *)
Starts(l) == life' = IF l.started /\ ~loop.started THEN [life EXCEPT !.at = "top"] ELSE life

(* The record of a call that is over; a monitor that has not let go of it  *)
(* still sees it.                                                          *)
Watched(c) == loop.active = c \/ life.call = c
Cleared(r, c) ==
    IF Watched(c) THEN [r EXCEPT !.at = "off"]
    ELSE [StartRec EXCEPT !.worker = IF r.worker = "run" THEN "run" ELSE None]

\* ----- the runtime around the loop ---------------------------------------

Running(c) == rec[c].worker = "run"
StopAtWork ==
    \/ life.at \in {"handoff", "dying", "cut"}
    \/ guard.at = "stop" \/ eq.at = "stop" \/ plan.at = "stop"

(* run_tool admits a call when the Body is free.                           *)
Admitted(c) == \A d \in Calls : ~Running(d)

(* cancel_active_execution_with_facts: the running worker is told to stop; *)
(* the one who waits goes on when it has ended, or when the lane gives up. *)
(* A stop goes through two other threads: a caller that is ready to run    *)
(* runs before it settles.                                                 *)
StopRequested(r) == [c \in Calls |-> IF r[c].worker = "run" THEN [r[c] EXCEPT !.stopping = TRUE] ELSE r[c]]
Ready ==
    \/ \E c \in Calls : rec[c].at \in {"grace", "work"} /\ ~Running(c)
    \/ \E c \in Calls : rec[c].at = "seen" /\ (rec[c].reg => rec[c].seen /\ rec[c].prot # "run")
    \/ rec["w"].at = "judge" /\ fut["work"].st # "wait"
    \/ rec["w"].at = "equip" /\ eq.at = "end"
    \/ guard.doomed
StopEnded == ((\A c \in Calls : ~Running(c)) \/ left.stuck) /\ ~Ready

WorkerEnds(c) ==
    /\ Running(c)
    /\ \E r \in load.results \cup If("stopped", rec[c].stopping) :
          rec' = [rec EXCEPT ![c].worker = r, ![c].stopping = FALSE]
    /\ UNCHANGED <<loop, fut, life, guard, eq, plan, load, left, hist>>

(* The lane does not answer a stop in time.                                *)
LaneGivesUp ==
    /\ load.stuck /\ ~left.stuck /\ StopAtWork
    /\ left' = [left EXCEPT !.stuck = TRUE]
    /\ UNCHANGED <<loop, rec, fut, life, guard, eq, plan, load, hist>>

(* The deadline of the work call, started when it was, passes.             *)
DeadlinePasses ==
    /\ load.late /\ ~rec["w"].late /\ rec["w"].at \notin {"off", "back"}
    /\ rec' = [rec EXCEPT !["w"].late = TRUE]
    /\ UNCHANGED <<loop, fut, life, guard, eq, plan, load, left, hist>>

\* ----- BodyLoop.run and CallSupervisor.run -------------------------------

(* Mutant: a call that raised keeps its slot like one that returned.       *)
LeftReserved(l, c, raised) ==
    LET r == rec[c]
        back == IF ~Ctx(c).reflex /\ r.deaths = l.deaths THEN _set_state(l, r.was, "call_ended") ELSE l
        slot == IF Ctx(c).plan THEN Wake(back) ELSE _release_result_pending(back, c)
    IN  IF slot.current = c THEN [slot EXCEPT !.current = r.prev] ELSE slot

(* What both finally clauses leave.  A call that raised, or whose caller   *)
(* was cancelled, gives up its result slot; a plan's call keeps it for     *)
(* decide_plan_result unless a running frame has already decided.          *)
Left(l, c, raised) ==
    LET r == rec[c]
        back == IF ~Ctx(c).reflex /\ r.deaths = l.deaths THEN _set_state(l, r.was, "call_ended") ELSE l
        free == raised \/ ~Ctx(c).plan
                \/ r.choice \in {"step_done", "next_step", "call_agent", "repeat", "interrupt"}
        slot == IF free THEN _release_result_pending(back, c) ELSE Wake(back)
    IN  IF slot.current = c THEN [slot EXCEPT !.current = r.prev] ELSE slot

Gone(r, raised) ==
    [r EXCEPT !.at = "back", !.out = IF raised THEN "raised" ELSE "returned", !.abandoned = @ \/ raised]

Returns(c) == loop' = Left(loop, c, FALSE) /\ rec' = [rec EXCEPT ![c] = Gone(@, FALSE)]
Raises(c) == loop' = Left(loop, c, TRUE) /\ rec' = [rec EXCEPT ![c] = Gone(@, TRUE)]

(* The call that is cut off where it waits; awaiting its worker cancels    *)
(* the worker with it, the grace period does not.                          *)
CutOff(l, r, c) ==
    IF r[c].at \in {"off", "back"} THEN [l |-> l, r |-> r]
    ELSE [l |-> Left(l, c, TRUE),
          r |-> [r EXCEPT ![c] = [Gone(@, TRUE) EXCEPT !.worker =
                    IF @ = "run" /\ r[c].at = "work" THEN "stopped" ELSE @]]]

(* A call enters the loop: its result slot, its state, its record, its     *)
(* worker.  One that comes while the world is away or the Body is dead     *)
(* returns at once.                                                        *)
Enters(c, stops, before) ==
    LET l == start(before)
        target == IF Ctx(c).life THEN "idle"
                  ELSE IF c = "g" THEN (IF guard.choice \in {"move_away", "engage", "ranged"} THEN "threat" ELSE "survival")
                  ELSE IF Ctx(c).reflex THEN "survival" ELSE "work"
        refused == l.connected = "no" \/ _process_lifecycle_events
        new == [StartRec EXCEPT !.stops = stops, !.was = l.state, !.prev = l.current, !.deaths = l.deaths,
                                !.target = IF c = "g" THEN guard.target ELSE None]
    IN  /\ Starts(l)
        /\ IF refused
           THEN /\ rec' = [rec EXCEPT ![c] = [new EXCEPT !.at = "back", !.out = "returned", !.worker = "final"]]
                /\ loop' = Wake(l)
           ELSE /\ rec' = [rec EXCEPT ![c] = [new EXCEPT !.at = "grace", !.worker = "run"]]
                /\ loop' = [_set_state(l, target, "decision") EXCEPT
                                !.pending = @ \cup {c}, !.current = c]

(* The worker may end within the grace period; otherwise the call is       *)
(* handed to the lifecycle task.  A second monitor is an error: the worker *)
(* is cancelled and the call raises.                                       *)
_register_monitor(c) ==
    /\ rec[c].at = "grace"
    /\ IF ~Running(c)
       THEN rec' = [rec EXCEPT ![c].at = "work"] /\ UNCHANGED loop
       ELSE IF loop.active # None
       THEN /\ loop' = Left(loop, c, TRUE)
            /\ rec' = [rec EXCEPT ![c] = [Gone(@, TRUE) EXCEPT !.worker = "stopped"]]
       ELSE /\ loop' = [loop EXCEPT !.active = c, !.pending = @ \ {c}, !.wake = TRUE]
            /\ rec' = [rec EXCEPT ![c].at = "work", ![c].reg = TRUE, ![c].seen = FALSE]
    /\ UNCHANGED <<fut, life, guard, eq, plan, load, left, hist>>

(* The result of the worker.  A cancellation nobody here asked for goes on *)
(* to the caller.                                                          *)
Collect(c) ==
    /\ rec[c].at = "work" /\ ~Running(c)
    /\ IF rec[c].worker = "raised" \/ (rec[c].worker = "stopped" /\ ~rec[c].cancel)
       THEN Raises(c)
       ELSE rec' = [rec EXCEPT ![c].at = "seen"] /\ UNCHANGED loop
    /\ UNCHANGED <<fut, life, guard, eq, plan, load, left, hist>>

_wait_monitor(c) == rec[c].reg => rec[c].seen /\ rec[c].prot # "run"

(* Awaiting a protection task that failed or was cancelled raises.         *)
GuardRaised(c) == rec[c].reg /\ rec[c].prot = "raised"

Ask(o, options) == fut' = [fut EXCEPT ![o] = [st |-> "wait", opts |-> options]]

(* _judge_terminal_frame: the question is queued for the lifecycle task.   *)
(* A question dropped while it is being served wakes that task at once:    *)
(* the asker, which reads the Body first, asks again only after it.        *)
_judge_terminal_frame(o, l, options) ==
    IF start(l).connected = "no"
    THEN /\ fut' = [fut EXCEPT ![o] = [st |-> "unknown", opts |-> {}]]
         /\ loop' = l /\ UNCHANGED life
    ELSE /\ ~(life.at = "serving" /\ life.q = o)
         /\ Ask(o, options)
         /\ loop' = [start(l) EXCEPT !.queue = Append(@, o), !.wake = TRUE]
         /\ Starts(loop')

(* The answer is there, or the 2.2 s are over: the asker stops waiting.    *)
Answered(o) == fut[o].st # "wait"
Forget(l, o) == [l EXCEPT !.queue = SelectSeq(@, LAMBDA q : q # o), !.wake = TRUE]

(* Bound: an attempt more is offered while the history has attempts left.  *)
Bounded(options) == IF left.again > 0 THEN options ELSE options \ {"repeat", "equip"}

(* The next attempt of a direct call goes through admission again; refused *)
(* there, the call raises.                                                 *)
readmit(l) ==
    IF Admitted("w") /\ ~StopAtWork
    THEN /\ rec' = [rec EXCEPT !["w"].at = "grace", !["w"].worker = "run", !["w"].cancel = FALSE, !["w"].resume = FALSE,
                               !["w"].choice = None, !["w"].stopping = FALSE]
         /\ left' = [left EXCEPT !.again = IF @ > 0 THEN @ - 1 ELSE 0]
         /\ loop' = l
    ELSE loop' = Left(l, "w", TRUE) /\ rec' = [rec EXCEPT !["w"] = Gone(@, TRUE)] /\ UNCHANGED left

(* After the worker and its monitor: a direct call is resumed, judged, or  *)
(* over; a plan's call returns to be judged by the plan.                   *)
Settles(c) ==
    /\ rec[c].at = "seen" /\ _wait_monitor(c)
    /\ \/ /\ GuardRaised(c)
          /\ Raises(c) /\ UNCHANGED <<fut, life, left>>
       \/ /\ ~GuardRaised(c)
          /\ c = "w" /\ Direct /\ rec[c].resume
          /\ readmit(loop) /\ UNCHANGED <<fut, life>>
       \/ /\ ~GuardRaised(c)
          /\ c = "w" /\ Direct /\ ~rec[c].resume /\ ~rec[c].cancel
          /\ IF _process_lifecycle_events THEN Returns(c) /\ UNCHANGED <<fut, life>>
             ELSE \E f \in load.scenes :
                     /\ rec' = [rec EXCEPT ![c].at = "judge"]
                     /\ _judge_terminal_frame("work", loop, Bounded(judge(Ctx(c), _options_for(Ctx(c), f, FALSE, rec[c].worker), FALSE)))
          /\ UNCHANGED left
       \/ /\ ~GuardRaised(c)
          /\ ~(c = "w" /\ Direct /\ (rec[c].resume \/ ~rec[c].cancel))
          /\ Returns(c) /\ UNCHANGED <<fut, life, left>>
    /\ UNCHANGED <<guard, eq, plan, load, hist>>

(* _decide_result: repeat runs the call again, spare equipment is put on   *)
(* first, step_done and call_agent are handed to the Agent, any other      *)
(* answer ends the call.                                                   *)
_decide_result ==
    /\ rec["w"].at = "judge"
    /\ \E choice \in IF Answered("work") THEN {fut["work"].st} ELSE {"unknown"} :
          /\ fut' = [fut EXCEPT !["work"] = [st |-> None, opts |-> {}]]
          /\ \/ /\ choice = "cancelled"
                /\ Raises("w") /\ UNCHANGED <<eq, left, hist>>
             \/ /\ choice = "repeat"
                /\ readmit(Forget(loop, "work")) /\ UNCHANGED <<eq, hist>>
             \/ /\ choice = "equip" /\ ~rec["w"].late
                /\ rec' = [StopRequested(rec) EXCEPT !["w"].at = "equip"]
                /\ eq' = [own |-> "work", at |-> "stop", ret |-> None]
                /\ loop' = Forget(loop, "work") /\ UNCHANGED <<left, hist>>
             \/ /\ choice \in {"next_step", "call_agent"}
                /\ loop' = Left(Forget(loop, "work"), "w", FALSE)
                /\ rec' = [rec EXCEPT !["w"] = [Gone(@, FALSE) EXCEPT !.choice = choice]]
                /\ hist' = [hist EXCEPT !.told = @ + 1] /\ UNCHANGED <<eq, left>>
             \/ /\ choice \notin {"repeat", "next_step", "call_agent", "cancelled"}
                /\ choice = "equip" => rec["w"].late
                /\ loop' = Left(Forget(loop, "work"), "w", FALSE)
                /\ rec' = [rec EXCEPT !["w"] = Gone(@, FALSE)] /\ UNCHANGED <<eq, left, hist>>
    /\ UNCHANGED <<life, guard, plan, load>>

(* The answer of the equipment node.                                       *)
EquippedForResult ==
    /\ rec["w"].at = "equip" /\ eq.at = "end"
    /\ eq' = [eq EXCEPT !.own = None, !.at = None]
    /\ \/ /\ eq.ret = "repeat"
          /\ readmit(loop) /\ UNCHANGED hist
       \/ /\ eq.ret = "call_agent"
          /\ loop' = Left(loop, "w", FALSE)
          /\ rec' = [rec EXCEPT !["w"] = [Gone(@, FALSE) EXCEPT !.choice = "call_agent"]]
          /\ hist' = [hist EXCEPT !.told = @ + 1] /\ UNCHANGED left
       \/ /\ eq.ret = "unknown" /\ Returns("w") /\ UNCHANGED <<left, hist>>
       \/ /\ eq.ret = "raised" /\ Raises("w") /\ UNCHANGED <<left, hist>>
    /\ UNCHANGED <<fut, life, guard, plan, load>>

============================================================================
