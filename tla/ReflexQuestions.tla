-------------------------- MODULE ReflexQuestions --------------------------
(***************************************************************************)
(* What Decision may be asked and may answer: the options each frame of    *)
(* the reflex layer is compiled to (reflex_question.py and the option      *)
(* compiler of direct_call_supervision.py), and the tool an answer is      *)
(* bound to.  The wording of a question is left out; an option is its key. *)
(*                                                                         *)
(* A frame's facts f say whether the Body is dead (dead), was just hurt    *)
(* (hurt), which hostile mob is nearest (foe), whether it is within reach  *)
(* (reach), whether a loaded bow is carried (bow), air is short (air), the *)
(* Body is hungry and has food (food), a safe place is known that is not   *)
(* here (safe), who is near (player: none, here, away), whether there is a *)
(* life profile (profile) with a home elsewhere (home), somebody missed    *)
(* (seek) and an active project (project), whether the Agent is thinking   *)
(* (thinking), and whether the finished call left the Body as it was       *)
(* (still).                                                                *)
(***************************************************************************)
EXTENDS Naturals, FiniteSets

Protective == {"surface", "engage", "ranged", "move_away", "retreat_safe"}

LifeChoices == {"go_home", "approach_player", "follow_player", "look_player", "seek_player"}

(* How a call ended: ok; fail; final, when it says it cannot be retried;   *)
(* broke, when its tool was the problem and a spare one is carried;        *)
(* stopped, when it was ended from outside.                                *)
Results == {"ok", "fail", "final", "broke", "stopped"}

If(option, cond) == IF cond THEN {option} ELSE {}

\* ----- the facts ---------------------------------------------------------

hostiles(f) == IF f.foe = "none" THEN {} ELSE {f.foe}
just_hurt(f) == f.hurt
dead(f) == f.dead
body_unchanged_by_call(f) == f.still
nearby_players(f) == f.player # "none"

tool_failed(r) == r = "broke"
equipment_candidates(r) == If("equip", r = "broke")

(* A call that failed by itself and moved nothing would be the same        *)
(* attempt again.                                                          *)
_same_attempt_again(f, r) == body_unchanged_by_call(f) /\ r \notin {"ok", "stopped"}

\* ----- the options of a frame --------------------------------------------

equipment_options(r) == IF tool_failed(r) THEN equipment_candidates(r) ELSE {}

protective_options(f) ==
    LET foes == hostiles(f) # {} /\ (f.reach \/ just_hurt(f))
    IN  If("surface", f.air) \cup If("eat", f.food)
        \cup If("engage", foes) \cup If("ranged", foes /\ f.bow) \cup If("move_away", foes)
        \cup If("retreat_safe", just_hurt(f) /\ f.safe)

(* A running call goes on or stops; a finished one is repeated or left.    *)
(* Its context says whether it works for an intent, and whether the plan   *)
(* around it names an interruption.                                        *)
frame_options(ctx, f, running, r) ==
    LET failed == ~running /\ r # "ok"
    IN  IF dead(f) THEN {}
        ELSE If("keep_going", running)
             \cup If("repeat", ~running /\ r # "final" /\ ~_same_attempt_again(f, r))
             \cup If("next_step", ~failed /\ ~(running /\ ctx.intent))
             \cup If("interrupt", running /\ ctx.interrupt)
             \cup (IF failed THEN equipment_options(r) ELSE {})
             \cup protective_options(f) \cup {"call_agent"}

protecting_options(f, current) == protective_options(f) \cup {current, "call_agent"}

idle_options(f) ==
    LET players == f.profile /\ nearby_players(f)
        free == ~f.thinking
    IN  IF dead(f) THEN {}
        ELSE If("look_player", players) \cup If("approach_player", players /\ f.player = "away")
             \cup If("follow_player", players /\ free)
             \cup If("go_home", f.profile /\ f.home /\ free)
             \cup If("seek_player", f.profile /\ f.seek /\ free)
             \cup If("project", f.profile /\ f.project /\ free)
             \cup {"stay"} \cup protective_options(f) \cup If("call_agent", f.profile /\ free)

life_running_options(f) == idle_options(f)

project_frame(options) == options \cup {"put_down"}

after_default_options(f, r, idle) ==
    IF dead(f) THEN {}
    ELSE {IF idle THEN "stay" ELSE "resume"} \cup protective_options(f)
         \cup equipment_options(r) \cup {"call_agent"}

interrupt_result_question(f) == after_default_options(f, "ok", FALSE) \cup {"repeat"}

(* The compiler of a call's frames: a life action and a protective action  *)
(* have ranges of their own while they run; the protective choice of an    *)
(* ended one is not offered again.                                         *)
_options_for(ctx, f, running, r) ==
    IF running /\ ctx.life THEN life_running_options(f)
    ELSE IF running /\ ctx.reflex THEN protecting_options(f, ctx.choice)
    ELSE LET options == frame_options(ctx, f, running, r) \cup If("inspect", ctx.reader)
         IN  IF running /\ ctx.project THEN project_frame(options) ELSE options

(* Plan results leave protection to the next running frame.                *)
_call_options(ctx, f, r) == frame_options(ctx, f, FALSE, r) \ Protective

\* ----- what Decision may answer ------------------------------------------

(* A frame that leaves one thing to do is not asked.  Danger is a question *)
(* of its own when a protective action is on offer; any missing or illegal *)
(* answer is unknown.                                                      *)
only_option(options, protecting) ==
    Cardinality(options) = 1 /\ (protecting \/ options \cap Protective = {})

frame_choice(options, protecting) ==
    IF only_option(options, protecting) THEN options ELSE options \cup {"unknown"}

(* Work for an intent is also asked whether the facts already show it.     *)
judge(ctx, options, running) ==
    frame_choice(options, ctx.reflex)
    \cup IF running /\ ctx.intent /\ ~ctx.life /\ ~ctx.reflex THEN {"next_step", "unknown"} ELSE {}

(* The tool a choice is bound to and its target; none when the facts it    *)
(* was compiled from do not bind it.                                       *)
_default_action(choice, f) ==
    LET act(tool, target) == [tool |-> tool, target |-> target]
        none == act("none", "none")
    IN  CASE choice = "surface" -> act("go_to_surface", "none")
          [] choice = "retreat_safe" -> IF f.safe THEN act("move_to", "none") ELSE none
          [] choice = "eat" -> IF f.food THEN act("consume_item", "none") ELSE none
          [] choice = "engage" -> IF hostiles(f) = {} THEN none ELSE act("engage_entity", f.foe)
          [] choice = "ranged" -> IF hostiles(f) = {} \/ ~f.bow THEN none ELSE act("ranged_attack", f.foe)
          [] choice = "move_away" -> IF hostiles(f) = {} THEN none ELSE act("move_away", "none")
          [] choice = "go_home" -> IF f.home THEN act("move_to", "none") ELSE none
          [] choice \in {"approach_player", "follow_player", "look_player"} ->
                 IF nearby_players(f) THEN act(choice, "none") ELSE none
          [] choice = "seek_player" -> IF f.seek THEN act("search_for_entity", "none") ELSE none
          [] OTHER -> none

============================================================================
