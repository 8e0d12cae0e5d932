----------------------------- MODULE ReflexLife -----------------------------
(***************************************************************************)
(* The lifecycle task of the Body loop (body_loop.py, _run_lifecycle): the *)
(* one consumer of lifecycle edges, running frames, terminal questions and *)
(* idle frames.                                                            *)
(*                                                                         *)
(* at: top, the head of _idle_frames; watch, read, framed, inspect,        *)
(* handoff: _monitor over the running call; serving: a terminal question;  *)
(* nap, sample, sampled, idle: the idle branch; dying, burying, cut,       *)
(* closing: a lifecycle edge that settles the Body, back the place it was  *)
(* met at; restart: after an error.  ask is the one Decision request.      *)
(***************************************************************************)
EXTENDS ReflexGuard

NoAsk == [ans |-> None, opts |-> {}, facts |-> None, deaths |-> 0]
StartLife == [at |-> "off", back |-> None, call |-> None, q |-> None, ask |-> NoAsk]

ProcessingPoints == {"top", "watch", "framed", "serving", "sampled"}

\* ----- lifecycle edges ---------------------------------------------------

(* Bound: the edges the history still has, in their order.  world_ready    *)
(* starts the loop when no lifecycle task lives.                           *)
_queue_lifecycle_event ==
    /\ left.events # <<>>
    /\ LET e == Head(left.events)
           seen == [loop EXCEPT !.events = Append(@, e), !.wake = TRUE,
                                !.connected = CASE e = "world_ready" -> "yes"
                                                [] e = "world_disconnected" -> "no"
                                                [] OTHER -> @]
       IN  IF e = "world_ready" /\ life.at = "off"
           THEN loop' = start(seen) /\ life' = [StartLife EXCEPT !.at = "top"]
           ELSE loop' = seen /\ UNCHANGED life
    /\ left' = [left EXCEPT !.events = Tail(@)]
    /\ UNCHANGED <<rec, fut, guard, eq, plan, load, hist>>

(* Whoever holds the Body is marked stopped and abandoned, and told to     *)
(* stop.                                                                   *)
Abandon(r) ==
    StopRequested([c \in Calls |->
        IF c = loop.current THEN [r[c] EXCEPT !.cancel = TRUE, !.abandoned = TRUE] ELSE r[c]])

(* The next edge.  Death clears every slot, cancels the protection task    *)
(* and tells the Agent before the old action has settled.                  *)
ProcessDeath ==
    /\ loop.state # "dead"
    /\ loop' = [_set_state(loop, "dead", "death") EXCEPT
                   !.events = Tail(@), !.deaths = @ + 1, !.pending = {}]
    /\ rec' = Abandon(rec)
    /\ guard' = IF guard.at = "off" THEN guard ELSE [guard EXCEPT !.doomed = TRUE]
    /\ life' = [life EXCEPT !.at = "dying", !.back = life.at]
    /\ UNCHANGED <<fut, eq, hist>>

ProcessEvent ==
    /\ life.at \in ProcessingPoints /\ loop.events # <<>>
    /\ LET e == Head(loop.events)
           next == [loop EXCEPT !.events = Tail(@)]
       IN  \/ /\ e = "death" /\ ProcessDeath
           \/ /\ e = "death" /\ loop.state = "dead"
              /\ loop' = next /\ UNCHANGED <<rec, fut, life, guard, eq, hist>>
           \/ /\ e = "respawned"
              /\ loop' = _set_state([next EXCEPT !.pending = {}], "idle", "respawned")
              /\ UNCHANGED <<rec, fut, life, guard, eq, hist>>
           \/ /\ e = "world_ready"
              /\ loop' = _set_state(next, "idle", "world_ready")
              /\ UNCHANGED <<rec, fut, life, guard, eq, hist>>
           \/ /\ e = "world_disconnected"
              /\ loop' = next /\ rec' = IF loop.current = None THEN rec ELSE Abandon(rec)
              /\ life' = [life EXCEPT !.at = "cut", !.back = life.at]
              /\ UNCHANGED <<fut, guard, eq, hist>>
    /\ UNCHANGED <<plan, load, left>>

(* A doomed task is cut off where it waits, in its own time.               *)
ProtectionCancelled ==
    /\ guard.doomed /\ AtAnAwait
    /\ GuardCut(loop, rec, FALSE)
    /\ UNCHANGED <<life, plan, load, left>>

DeathSettled ==
    \/ /\ life.at = "dying" /\ StopEnded
       /\ life' = [life EXCEPT !.at = "burying"]
       /\ left' = [left EXCEPT !.stuck = FALSE]
    \/ /\ life.at = "burying" /\ guard.at = "off"
       /\ life' = [life EXCEPT !.at = life.back, !.back = None]
       /\ UNCHANGED left

BodySettledAfterDeath == DeathSettled /\ UNCHANGED <<loop, rec, fut, guard, eq, plan, load, hist>>

(* stop, after a disconnection: the monitor, the slots and the questions   *)
(* are dropped, then the protection task is cancelled and awaited.         *)
stop ==
    /\ life.at = "cut" /\ (loop.current = None \/ StopEnded)
    /\ loop' = [loop EXCEPT !.active = None, !.pending = {}, !.queue = <<>>, !.wake = TRUE]
    /\ fut' = [o \in Askers |-> IF \E i \in DOMAIN loop.queue : loop.queue[i] = o
                                THEN [fut[o] EXCEPT !.st = "cancelled"] ELSE fut[o]]
    /\ rec' = IF loop.active = None THEN rec
              ELSE [rec EXCEPT ![loop.active].cancel = TRUE, ![loop.active].seen = TRUE]
    /\ guard' = IF guard.at = "off" THEN guard ELSE [guard EXCEPT !.doomed = TRUE]
    /\ life' = [life EXCEPT !.at = "closing"]
    /\ left' = [left EXCEPT !.stuck = FALSE]
    /\ UNCHANGED <<eq, plan, load, hist>>

(* The lifecycle task ends once it has left what it was doing; a world     *)
(* that came back meanwhile starts its successor.                          *)
Monitored(l, c) ==
    [l EXCEPT !.active = IF @ = c THEN None ELSE @,
              !.pending = IF rec[c].abandoned THEN @ ELSE @ \cup {c}]

_restart_after_world_ready ==
    /\ life.at = "closing" /\ guard.at = "off"
    /\ LET was == life.back
           ended == [(IF was \in {"watch", "framed"} THEN Monitored(loop, life.call) ELSE loop) EXCEPT !.started = FALSE]
       IN  /\ loop' = start(ended)
           /\ life' = IF loop'.started THEN [StartLife EXCEPT !.at = "top"] ELSE StartLife
           /\ fut' = IF was = "serving" /\ fut[life.q].st = "wait" /\ ~\E i \in DOMAIN loop.queue : loop.queue[i] = life.q
                     THEN [fut EXCEPT ![life.q].st = "unknown"] ELSE fut
           /\ rec' = IF was \in {"watch", "framed"} THEN [rec EXCEPT ![life.call].seen = TRUE] ELSE rec
    /\ UNCHANGED <<guard, eq, plan, load, left, hist>>

\* ----- the head of the loop ----------------------------------------------

_idle_frames ==
    /\ life.at = "top" /\ loop.events = <<>>
    /\ \/ /\ loop.active # None
          /\ life' = [StartLife EXCEPT !.at = "watch", !.call = loop.active]
          /\ UNCHANGED loop
       \/ /\ loop.active = None /\ loop.queue # <<>>
          /\ loop' = [loop EXCEPT !.queue = Tail(@)]
          /\ life' = [StartLife EXCEPT !.at = "serving", !.q = Head(loop.queue),
                         !.ask = [ans |-> IF loop.state = "dead" THEN "unknown" ELSE "wait",
                                  opts |-> fut[Head(loop.queue)].opts, facts |-> None, deaths |-> loop.deaths]]
       \/ /\ loop.active = None /\ loop.queue = <<>>
          /\ life' = [StartLife EXCEPT !.at = "nap"]
          /\ loop' = [loop EXCEPT !.wake = FALSE]
    /\ UNCHANGED <<rec, fut, guard, eq, plan, load, left, hist>>

(* Decision answers, or its 2 s are over.  An answer that met a death on   *)
(* its way is unknown.                                                     *)
_judge_frame ==
    /\ life.ask.ans = "wait" /\ life.at \in {"watch", "read", "framed", "serving"}
    /\ \E choice \in life.ask.opts :
          life' = [life EXCEPT !.ask.ans =
                      IF life.ask.deaths # loop.deaths \/ _process_lifecycle_events THEN "unknown" ELSE choice]
    /\ UNCHANGED <<loop, rec, fut, guard, eq, plan, load, left, hist>>

(* Mutant: after a death the question is dropped without an answer.        *)
ServedUnlessDead ==
    /\ life.at = "serving" /\ loop.events = <<>>
    /\ life.ask.ans # "wait" \/ fut[life.q].st # "wait" \/ loop.state = "dead"
    /\ fut' = IF fut[life.q].st = "wait" /\ loop.state # "dead" THEN [fut EXCEPT ![life.q].st = life.ask.ans] ELSE fut
    /\ life' = [StartLife EXCEPT !.at = "top"]
    /\ UNCHANGED <<loop, rec, guard, eq, plan, load, left, hist>>

(* A served question: its answer, nobody waiting for it any more, or a     *)
(* death.                                                                  *)
_serve_terminal_question ==
    /\ life.at = "serving" /\ loop.events = <<>>
    /\ life.ask.ans # "wait" \/ fut[life.q].st # "wait" \/ loop.state = "dead"
    /\ fut' = IF fut[life.q].st = "wait"
              THEN [fut EXCEPT ![life.q].st = IF loop.state = "dead" THEN "unknown" ELSE life.ask.ans] ELSE fut
    /\ life' = [StartLife EXCEPT !.at = "top"]
    /\ UNCHANGED <<loop, rec, guard, eq, plan, load, left, hist>>

\* ----- the monitor of the running call -----------------------------------

(* The monitor returns: its slot is handed to whoever judges the result.   *)
MonitorReturn(l, r) ==
    /\ loop' = Monitored(l, life.call)
    /\ rec' = [r EXCEPT ![life.call].seen = TRUE]
    /\ life' = [StartLife EXCEPT !.at = "top"]

(* The clock or a fact: the Body is read, the edges are processed, and the *)
(* frame is asked about when it is due and no request is in flight.        *)
_refresh_running_facts ==
    /\ life.at = "watch" /\ ~rec[life.call].cancel /\ loop.state # "dead" /\ Running(life.call)
    /\ life' = [life EXCEPT !.at = "read"]
    /\ UNCHANGED <<loop, rec, fut, guard, eq, plan, load, left, hist>>

RunningFactsRead ==
    /\ life.at = "read"
    /\ life' = [life EXCEPT !.at = "framed"]
    /\ UNCHANGED <<loop, rec, fut, guard, eq, plan, load, left, hist>>

_protection_frame_due(c, f) == Ctx(c).reflex /\ ~Ctx(c).life => just_hurt(f)

(* Bound: a protective choice is on offer while the history has one left.  *)
MovesLeft(options) == IF left.moves > 0 THEN options ELSE options \ (Protective \cup {"eat"} \cup LifeChoices)

_monitor ==
    /\ life.at = "framed" /\ loop.events = <<>>
    /\ \/ /\ loop.state = "dead" \/ rec[life.call].cancel
          /\ MonitorReturn(loop, rec)
       \/ /\ loop.state # "dead" /\ ~rec[life.call].cancel
          /\ \/ life' = [life EXCEPT !.at = "watch"]
             \/ /\ life.ask.ans = None /\ Running(life.call)
                /\ \E f \in load.scenes :
                      /\ _protection_frame_due(life.call, f)
                      /\ life' = [life EXCEPT !.at = "watch",
                            !.ask = [ans |-> "wait", facts |-> f, deaths |-> loop.deaths,
                                     opts |-> MovesLeft(judge(Ctx(life.call), _options_for(Ctx(life.call), f, TRUE, None), TRUE))]]
          /\ UNCHANGED <<loop, rec>>
    /\ UNCHANGED <<fut, guard, eq, plan, load, left, hist>>

(* Mutant: the monitor does not watch the worker itself.                   *)
MonitorEndsUnwatched ==
    /\ life.at = "watch"
    /\ rec[life.call].cancel \/ (loop.state = "dead" /\ loop.events = <<>>)
    /\ MonitorReturn(loop, rec)
    /\ UNCHANGED <<fut, guard, eq, plan, load, left, hist>>

(* It also returns when the call is being stopped, has ended, or is dead.  *)
MonitorEnds ==
    /\ life.at = "watch"
    /\ \/ rec[life.call].cancel
       \/ loop.state = "dead" /\ loop.events = <<>>
       \/ ~Running(life.call) /\ life.ask.ans \in {None, "wait"}
    /\ MonitorReturn(loop, rec)
    /\ UNCHANGED <<fut, guard, eq, plan, load, left, hist>>

_continues_protection(c, choice, f) ==
    /\ Ctx(c).reflex /\ choice = Ctx(c).choice
    /\ LET bound == _default_action(choice, f)
       IN  bound.tool = None \/ rec[c].target = None \/ bound.target = rec[c].target

(* Mutant: the stopped call is not marked, and asks about its result.      *)
HandoffUnmarked(choice, l) ==
    IF loop.state = "dead" \/ loop.current # life.call
    THEN MonitorReturn(l, rec) /\ UNCHANGED guard
    ELSE /\ rec' = StopRequested(rec)
         /\ loop' = IF Ctx(life.call).reflex THEN [l EXCEPT !.verdict = choice] ELSE l
         /\ life' = [life EXCEPT !.at = "handoff", !.ask = [NoAsk EXCEPT !.ans = choice]]
         /\ UNCHANGED guard

(* _handoff stops the call unless it is no longer the one that holds the   *)
(* Body.                                                                   *)
_handoff(choice, l) ==
    LET c == life.call
    IN  IF loop.state = "dead" \/ loop.current # c \/ rec[c].cancel
        THEN MonitorReturn(l, rec) /\ UNCHANGED guard
        ELSE /\ rec' = StopRequested([rec EXCEPT ![c].cancel = TRUE])
             /\ loop' = IF Ctx(c).reflex THEN [l EXCEPT !.verdict = choice] ELSE l
             /\ life' = [life EXCEPT !.at = "handoff", !.ask = [NoAsk EXCEPT !.ans = choice]]
             /\ UNCHANGED guard

Normalized(choice) == CASE choice = "put_down" -> "call_agent" [] OTHER -> choice

(* The answer about the running call.                                      *)
MonitorAnswered ==
    /\ life.at = "watch" /\ life.ask.ans \notin {None, "wait"}
    /\ LET c == life.call
           f == life.ask.facts
           choice == IF _continues_protection(c, life.ask.ans, f) THEN "keep_going" ELSE life.ask.ans
           bound == _default_action(choice, f)
           act == choice \in Protective \cup {"eat"} \/ (Ctx(c).life /\ choice \in LifeChoices)
       IN  \/ /\ ~Running(c)
              /\ MonitorReturn(loop, rec) /\ UNCHANGED <<guard, plan, left>>
           \/ /\ Running(c) /\ choice = "inspect"
              /\ life' = [life EXCEPT !.at = "inspect", !.ask = NoAsk] /\ UNCHANGED <<loop, rec, guard, plan, left>>
           \/ /\ Running(c) /\ choice \in {"next_step", "call_agent", "interrupt", "put_down", "stay"}
              /\ _handoff(Normalized(choice), loop)
              /\ plan' = IF choice = "put_down" THEN [plan EXCEPT !.putdown = TRUE] ELSE plan
              /\ UNCHANGED left
           \/ /\ Running(c) /\ act /\ bound.tool # None /\ Ctx(c).reflex
              /\ _handoff(choice, [loop EXCEPT !.redirect = choice, !.target = bound.target])
              /\ left' = [left EXCEPT !.moves = @ - 1] /\ UNCHANGED plan
           \/ /\ Running(c) /\ act /\ bound.tool # None /\ ~Ctx(c).reflex
              /\ guard' = NewGuard("work", c, choice, bound.target)
              /\ MonitorReturn(loop, [rec EXCEPT ![c].prot = "run"])
              /\ left' = [left EXCEPT !.moves = @ - 1] /\ UNCHANGED plan
           \/ /\ Running(c)
              /\ choice \in {"keep_going", "unknown"} \/ (act /\ bound.tool = None)
              /\ life' = [life EXCEPT !.ask = NoAsk] /\ UNCHANGED <<loop, rec, guard, plan, left>>
    /\ UNCHANGED <<fut, eq, load, hist>>

(* An inspection may find that the material is used up; that is handed off *)
(* with no decision.                                                       *)
_bounded_read ==
    /\ life.at = "inspect"
    /\ \/ life' = [life EXCEPT !.at = "watch"] /\ UNCHANGED <<loop, rec, guard>>
       \/ _handoff(None, loop)
    /\ UNCHANGED <<fut, eq, plan, load, left, hist>>

(* The stop has settled; only then the Agent is told of a direct call.     *)
HandoffSettled ==
    /\ life.at = "handoff" /\ StopEnded
    /\ LET c == life.call
       IN  /\ MonitorReturn(loop, [rec EXCEPT ![c].choice = life.ask.ans])
           /\ hist' = [hist EXCEPT !.told = IF Ctx(c).plan \/ Ctx(c).reflex THEN @ ELSE @ + 1]
    /\ left' = [left EXCEPT !.stuck = FALSE]
    /\ UNCHANGED <<fut, guard, eq, plan, load>>

\* ----- the idle branch ---------------------------------------------------

(* A second has passed, or something woke the loop.                        *)
IdleNap ==
    /\ life.at = "nap"
    /\ \/ /\ loop.wake
          /\ life' = [life EXCEPT !.at = "top"]
       \/ /\ ~loop.wake
          /\ life' = [life EXCEPT !.at = IF loop.active # None \/ loop.pending # {} \/ guard.at # "off"
                                            \/ (\E c \in Calls : rec[c].at \notin {"off", "back"})
                                            \/ (plan.project /\ plan.at # "off")
                                         THEN "top" ELSE "sample"]
    /\ UNCHANGED <<loop, rec, fut, guard, eq, plan, load, left, hist>>

_read_idle_facts ==
    /\ life.at = "sample"
    /\ life' = [life EXCEPT !.at = "sampled"]
    /\ UNCHANGED <<loop, rec, fut, guard, eq, plan, load, left, hist>>

(* An Agent call can arrive while the Body is read.                        *)
IdleAsked ==
    /\ life.at = "sampled" /\ loop.events = <<>>
    /\ \/ /\ loop.state = "dead" \/ loop.active # None \/ loop.pending # {}
          /\ life' = [life EXCEPT !.at = "top"]
       \/ /\ loop.state # "dead" /\ loop.active = None /\ loop.pending = {}
          /\ \E f \in load.scenes :
                life' = [life EXCEPT !.at = "idle",
                            !.ask = [ans |-> "wait", facts |-> f, deaths |-> loop.deaths,
                                     opts |-> MovesLeft(idle_options(f))]]
    /\ UNCHANGED <<loop, rec, fut, guard, eq, plan, load, left, hist>>

(* The answer belongs to a superseded frame when anything has woken the    *)
(* loop.  A protective or a life action is run by a task of its own, a     *)
(* project by the plan executor.                                           *)
IdleAnswered ==
    /\ life.at = "idle"
    /\ life' = [StartLife EXCEPT !.at = "top"]
    /\ \E choice \in IF loop.wake THEN {"unknown"} ELSE life.ask.opts \cup {"unknown"} :
         LET bound == _default_action(choice, life.ask.facts)
         IN  \/ /\ choice \in Protective \cup LifeChoices \cup {"eat"} /\ bound.tool # None
                /\ guard' = NewGuard(IF choice \in LifeChoices THEN "life" ELSE "idle", None, choice, bound.target)
                /\ left' = [left EXCEPT !.moves = @ - 1]
                /\ UNCHANGED <<plan, hist>>
             \/ /\ choice = "project"
                /\ plan' = IF plan.at = "off" THEN [plan EXCEPT !.at = "claim", !.status = "running", !.project = TRUE] ELSE plan
                /\ UNCHANGED <<guard, left, hist>>
             \/ /\ choice = "call_agent"
                /\ hist' = [hist EXCEPT !.idle = TRUE] /\ UNCHANGED <<guard, plan, left>>
             \/ /\ choice \in {"stay", "unknown"}
                   \/ (choice \in Protective \cup LifeChoices \cup {"eat"} /\ bound.tool = None)
                /\ UNCHANGED <<guard, plan, left, hist>>
    /\ UNCHANGED <<loop, rec, fut, eq, load>>

\* ----- an error in the loop ----------------------------------------------

(* _run_lifecycle: an error leaves the loop through the same finally       *)
(* clauses and starts it again after a delay.                              *)
LifeFails ==
    /\ left.errors > 0 /\ life.at \in {"watch", "framed", "inspect", "sampled"}
    /\ IF life.at = "sampled"
       THEN life' = [StartLife EXCEPT !.at = "restart"] /\ UNCHANGED <<loop, rec>>
       ELSE /\ loop' = Monitored(loop, life.call)
            /\ rec' = [rec EXCEPT ![life.call].seen = TRUE]
            /\ life' = [StartLife EXCEPT !.at = "restart"]
    /\ left' = [left EXCEPT !.errors = @ - 1]
    /\ UNCHANGED <<fut, guard, eq, plan, load, hist>>

_run_lifecycle ==
    /\ life.at = "restart"
    /\ life' = [life EXCEPT !.at = "top"]
    /\ UNCHANGED <<loop, rec, fut, guard, eq, plan, load, left, hist>>

============================================================================
