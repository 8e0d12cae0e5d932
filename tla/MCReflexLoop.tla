---------------------------- MODULE MCReflexLoop ----------------------------
(***************************************************************************)
(* Model-checking instance of the reflex layer.  A load is one history:    *)
(* the work (a direct call, a plan, or none), the facts a frame may show,  *)
(* the results a call may have, and how much may befall it.  Every bound   *)
(* of the model is a field of the load: calls of the Agent, further        *)
(* attempts (again), protective choices (moves), lifecycle edges (events), *)
(* errors of the loop, controls of a plan and cancelled callers; stuck is  *)
(* whether the lane may leave a stop unanswered, late whether a deadline   *)
(* may pass.                                                               *)
(***************************************************************************)
EXTENDS ReflexLoop

Calm ==
    [dead |-> FALSE, hurt |-> FALSE, foe |-> "none", reach |-> FALSE, bow |-> FALSE, air |-> FALSE,
     food |-> FALSE, safe |-> FALSE, player |-> "none", profile |-> FALSE, home |-> FALSE, seek |-> FALSE,
     project |-> FALSE, thinking |-> FALSE, still |-> FALSE]
Unmoved == [Calm EXCEPT !.still = TRUE]
Attacked == [Calm EXCEPT !.hurt = TRUE, !.foe = "zombie", !.reach = TRUE]
Home == [Calm EXCEPT !.profile = TRUE, !.player = "away", !.home = TRUE, !.project = TRUE]

Quiet ==
    [work |-> "none", steps |-> <<"call">>, interrupt |-> FALSE, reader |-> FALSE, results |-> {"ok", "fail"},
     scenes |-> {Calm}, stuck |-> FALSE, late |-> FALSE, again |-> 0, moves |-> 0, events |-> <<>>,
     errors |-> 0, controls |-> <<>>, calls |-> 1, cancels |-> 0]

Death == <<"death", "respawned">>
Rejoin == <<"world_disconnected", "world_ready">>

\* ----- direct calls ------------------------------------------------------

CallInDanger == [Quiet EXCEPT !.work = "direct", !.scenes = {Calm, Attacked}, !.moves = 1, !.again = 1]
CallAttacked == [CallInDanger EXCEPT !.scenes = {Attacked}, !.again = 0, !.results = {"ok"}]
DirectLoads ==
    {CallInDanger,
     [CallAttacked EXCEPT !.events = Death],
     [CallAttacked EXCEPT !.events = <<"world_disconnected">>],
     [CallAttacked EXCEPT !.moves = 0, !.calls = 2, !.events = Death],
     [CallAttacked EXCEPT !.moves = 0, !.calls = 2, !.events = Rejoin],
     [CallAttacked EXCEPT !.cancels = 1],
     [CallAttacked EXCEPT !.late = TRUE],
     [CallAttacked EXCEPT !.results = {"broke"}, !.moves = 2],
     [CallAttacked EXCEPT !.results = {"broke"}, !.again = 1],
     [CallInDanger EXCEPT !.results = {"broke", "raised"}, !.scenes = {Unmoved}, !.again = 2, !.moves = 0, !.reader = TRUE,
                          !.errors = 1, !.cancels = 1, !.late = TRUE, !.stuck = TRUE]}

\* ----- plans -------------------------------------------------------------

TwoCalls == [Quiet EXCEPT !.work = "plan", !.steps = <<"call", "call">>, !.again = 1]
OneCall == [TwoCalls EXCEPT !.steps = <<"call">>]
PlanLoads ==
    {TwoCalls,
     [OneCall EXCEPT !.scenes = {Attacked}, !.moves = 1, !.again = 0, !.results = {"ok"}, !.stuck = TRUE],
     [TwoCalls EXCEPT !.steps = <<"call", "wait">>, !.results = {"ok"}, !.controls = <<"paused", "resume">>],
     [OneCall EXCEPT !.interrupt = TRUE, !.results = {"ok"}],
     [OneCall EXCEPT !.late = TRUE, !.results = {"broke"}],
     [TwoCalls EXCEPT !.steps = <<"when", "choice">>, !.again = 0, !.controls = <<"updating">>, !.results = {"ok"}],
     [OneCall EXCEPT !.again = 0, !.events = Death],
     [OneCall EXCEPT !.again = 0, !.events = Rejoin, !.results = {"ok", "raised"}],
     [OneCall EXCEPT !.results = {"broke", "raised"}, !.controls = <<"cancelled">>, !.stuck = TRUE]}

\* ----- everyday life -----------------------------------------------------

IdleAttacked == [Quiet EXCEPT !.scenes = {Attacked}, !.moves = 1, !.calls = 0, !.results = {"ok"}]
IdleLoads ==
    {[IdleAttacked EXCEPT !.scenes = {Home}],
     [IdleAttacked EXCEPT !.events = <<"death", "death", "respawned">>],
     [IdleAttacked EXCEPT !.results = {"broke", "ok"}, !.moves = 2, !.late = TRUE]}

MCLoads == DirectLoads \cup PlanLoads \cup IdleLoads

(* The history of PlanReplay.cfg: two calls and one further attempt.       *)
ReplayLoads == {TwoCalls}

============================================================================
