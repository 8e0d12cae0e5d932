---------------------------- MODULE ReflexGuard ----------------------------
(***************************************************************************)
(* The protection task of the Body loop: a protective action between two   *)
(* attempts of interrupted work (_protect_work), one chosen while idle     *)
(* (_run_idle_protection), or a step of everyday life (_run_idle_action);  *)
(* and the equipment node that may come between a failed attempt and the   *)
(* next one (_run_result_equipment).                                       *)
(***************************************************************************)
EXTENDS ReflexCalls

(* kind: work, idle, life; of: the interrupted call; life: the claim       *)
(* holder is "life"; result: how the last protective call ended; facts:    *)
(* what the question in flight was compiled from; sequel: what follows has *)
(* been asked before; reserved: this task took the result slot; doomed: it *)
(* has been cancelled and has not been run since.                          *)
StartGuard ==
    [at |-> "off", kind |-> None, of |-> None, life |-> FALSE, choice |-> None, target |-> None,
     result |-> None, facts |-> None, sequel |-> FALSE, reserved |-> FALSE, doomed |-> FALSE]

StartEquipment == [own |-> None, at |-> None, ret |-> None]

(* The task is made; it runs later.                                        *)
NewGuard(kind, of, choice, target) ==
    [StartGuard EXCEPT !.at = "begin", !.kind = kind, !.of = of, !.life = kind = "life",
                       !.choice = choice, !.target = target]

Slot == IF guard.kind = "work" THEN guard.of ELSE "g"

(* The deadline of an idle protection is that of _run_idle_protection.     *)
GuardLate == guard.kind = "work" /\ rec[guard.of].late

(* The end of the task: an interrupted call that waits for it goes on or   *)
(* raises; a task of the idle Body leaves the loop idle.                   *)
GuardOver(l, r, out) ==
    LET slot == IF guard.reserved THEN _release_result_pending(l, Slot) ELSE l
    IN  /\ guard' = StartGuard
        /\ loop' = Wake(IF guard.kind = "work" THEN slot ELSE _set_state(slot, "idle", "call_ended"))
        /\ rec' = IF guard.kind = "work" THEN [r EXCEPT ![guard.of].prot = out] ELSE r

(* What an ended or cut off task leaves of its own calls.                  *)
Dropped(l, r) ==
    LET g == CutOff(l, r, "g")
        e == CutOff(g.l, g.r, "e")
        judged == IF eq.at = "judge" THEN _release_result_pending(e.l, "e") ELSE e.l
    IN  IF eq.own = "guard" THEN [e EXCEPT !.l = judged] ELSE g

QuestionDropped(o) == fut' = [fut EXCEPT ![o] = [st |-> None, opts |-> {}]]

EquipmentDropped == eq' = IF eq.own = "guard" THEN StartEquipment ELSE eq

(* An equipment result nobody will judge any more keeps its slot.          *)
Unjudged(own) == IF eq.own = own /\ eq.at = "state" THEN {"e"} ELSE {}

(* The task is not cut off between the return of a call and its next       *)
(* await.                                                                  *)
AtAnAwait == ~(eq.at = "calling" /\ rec["e"].at = "back") /\ ~(guard.at = "acting" /\ rec["g"].at = "back")

(* protection.cancel(), and the interrupted call's deadline: both cut the  *)
(* task off wherever it waits.  After the deadline the work call is handed *)
(* off with no decision.                                                   *)
GuardCut(l, r, deadline) ==
    LET d == Dropped(Forget(l, "guard"), r)
        handed == IF deadline THEN [d.r EXCEPT ![guard.of].choice = "unknown"] ELSE d.r
    IN  /\ GuardOver(d.l, handed, IF deadline THEN "ended" ELSE "raised")
        /\ QuestionDropped("guard") /\ EquipmentDropped
        /\ hist' = [hist EXCEPT !.cut = @ \cup Unjudged("guard")]

_protect_work ==
    /\ guard.at # "off" /\ guard.kind = "work" /\ GuardLate /\ AtAnAwait
    /\ GuardCut(loop, rec, TRUE)
    /\ UNCHANGED <<life, plan, load, left>>

(* Stop and settle the interrupted call, unless it has ended or somebody   *)
(* else is stopping it.                                                    *)
_run_default_action ==
    /\ guard.at = "begin"
    /\ \/ /\ guard.kind # "work"
          /\ guard' = [guard EXCEPT !.at = "act"] /\ UNCHANGED <<loop, rec>>
       \/ /\ guard.kind = "work" /\ ~GuardLate
          /\ loop.current # guard.of \/ rec[guard.of].cancel
          /\ GuardOver(loop, rec, "ended")
       \/ /\ guard.kind = "work" /\ ~GuardLate
          /\ loop.current = guard.of /\ ~rec[guard.of].cancel
          /\ rec' = StopRequested([rec EXCEPT ![guard.of].cancel = TRUE])
          /\ guard' = [guard EXCEPT !.at = "stop"] /\ UNCHANGED loop
    /\ UNCHANGED <<fut, life, eq, plan, load, left, hist>>

(* The stop is recorded in the history of the interrupted work.            *)
DefaultStopSettled ==
    /\ guard.at = "stop" /\ StopEnded
    /\ guard' = [guard EXCEPT !.at = "act"]
    /\ rec' = [rec EXCEPT ![guard.of].stops = IF @ < 2 THEN @ + 1 ELSE @]
    /\ left' = [left EXCEPT !.stuck = FALSE]
    /\ UNCHANGED <<loop, fut, life, eq, plan, load, hist>>

(* One protective action, as current work of the same lifecycle.  When     *)
(* run_tool refuses it, it has failed.                                     *)
_execute_protection ==
    /\ guard.at = "act" /\ ~Watched("g")
    /\ IF Admitted("g")
       THEN /\ LET clean == [loop EXCEPT !.redirect = None, !.verdict = None, !.target = None]
               IN  Enters("g", 0, clean)
            /\ guard' = [guard EXCEPT !.at = "acting"]
       ELSE /\ guard' = [guard EXCEPT !.at = "acted", !.result = "fail"]
            /\ loop' = [loop EXCEPT !.redirect = None, !.verdict = None, !.target = None]
            /\ UNCHANGED <<rec, life>>
    /\ UNCHANGED <<fut, eq, plan, load, left, hist>>

(* It ended: an error is a failed result, a cancellation goes on to        *)
(* whoever waits for this task.                                            *)
ProtectionEnds ==
    /\ guard.at = "acting" /\ rec["g"].at = "back"
    /\ LET r == rec["g"]
           off == [rec EXCEPT !["g"] = Cleared(r, "g")]
       IN  \/ /\ r.out = "raised" /\ r.worker = "stopped"
              /\ GuardOver(loop, off, "raised")
           \/ /\ ~(r.out = "raised" /\ r.worker = "stopped")
              /\ guard' = [guard EXCEPT !.at = "acted", !.result = IF r.out = "raised" THEN "fail" ELSE r.worker]
              /\ rec' = off /\ UNCHANGED loop
    /\ UNCHANGED <<fut, life, eq, plan, load, left, hist>>

(* Another response chosen meanwhile replaces it; a protective one is a    *)
(* threat response from then on.  A life action has no sequel, a           *)
(* protective one asks what follows, holding the result slot.              *)
AfterProtection ==
    /\ guard.at = "acted"
    /\ \/ /\ loop.redirect # None
          /\ guard' = [guard EXCEPT !.at = "act", !.choice = loop.redirect, !.target = loop.target,
                                    !.life = @ /\ loop.redirect \notin Protective]
          /\ UNCHANGED <<loop, rec, hist>>
       \/ /\ loop.redirect = None /\ guard.kind = "life"
          /\ hist' = [hist EXCEPT !.idle = @ \/ loop.verdict = "call_agent"]
          /\ GuardOver(loop, rec, "ended")
       \/ /\ loop.redirect = None /\ guard.kind # "life"
          /\ guard' = [guard EXCEPT !.at = IF guard.sequel /\ loop.verdict # "call_agent" THEN "look" ELSE "follow",
                                    !.sequel = TRUE, !.reserved = @ \/ Slot \notin loop.pending]
          /\ loop' = [loop EXCEPT !.pending = @ \cup {Slot}]
          /\ UNCHANGED <<rec, hist>>
    /\ UNCHANGED <<fut, life, eq, plan, load, left>>

(* _after_default_action returns, and with it the protective action: the   *)
(* work is resumed, handed to the Agent, or left with no decision.         *)
Follows(after) ==
    /\ IF guard.kind = "work"
       THEN GuardOver(IF after = "resume" THEN _set_state(loop, "work", "decision")
                      ELSE IF after = "call_agent" /\ ~Ctx(guard.of).plan THEN _set_state(loop, "idle", "decision")
                      ELSE loop,
                      [rec EXCEPT ![guard.of].choice = IF after = "resume" THEN "repeat" ELSE after,
                                  ![guard.of].resume = @ \/ after = "resume"],
                      "ended")
       ELSE GuardOver(loop, rec, "ended")
    /\ hist' = [hist EXCEPT
           !.told = IF guard.kind = "work" /\ after = "call_agent" /\ ~Ctx(guard.of).plan THEN @ + 1 ELSE @,
           !.idle = @ \/ (guard.kind = "idle" /\ after = "call_agent")]

(* Danger that stops the same work a second time is compared with the      *)
(* first place; the same place is for the Agent to risk.                   *)
_stopped_again_at_the_same_place ==
    /\ guard.at = "follow"
    /\ \/ /\ loop.verdict = "call_agent"
          /\ Follows("call_agent")
       \/ /\ loop.verdict # "call_agent" /\ guard.kind = "work" /\ rec[guard.of].stops >= 2
          /\ \/ Follows("call_agent")
             \/ guard' = [guard EXCEPT !.at = "look"] /\ UNCHANGED <<loop, rec, hist>>
       \/ /\ loop.verdict # "call_agent" /\ ~(guard.kind = "work" /\ rec[guard.of].stops >= 2)
          /\ guard' = [guard EXCEPT !.at = "look"] /\ UNCHANGED <<loop, rec, hist>>
    /\ UNCHANGED <<fut, life, eq, plan, load, left>>

(* What follows is asked with fresh facts until there is an answer, the    *)
(* Body is dead or the time is up.                                         *)
_follow_default_result ==
    /\ guard.at = "look"
    /\ \/ /\ _process_lifecycle_events \/ GuardLate
          /\ Follows("unknown")
       \/ /\ ~_process_lifecycle_events /\ ~GuardLate
          /\ guard' = [guard EXCEPT !.at = "read"] /\ UNCHANGED <<loop, rec, hist>>
    /\ UNCHANGED <<fut, life, eq, plan, load, left>>

(* Bound: no further protective action once the history has none left, and *)
(* one equipment node at a time.                                           *)
Sequels(f) ==
    LET all == frame_choice(after_default_options(f, guard.result, guard.kind = "idle"), TRUE)
        acts == IF left.moves > 0 THEN all ELSE all \ (Protective \cup {"eat"})
    IN  IF left.moves > 0 /\ eq.own = None THEN acts ELSE acts \ {"equip"}

DefaultResultAsked ==
    /\ guard.at = "read"
    /\ \E f \in load.scenes :
          /\ _judge_terminal_frame("guard", loop, Sequels(f))
          /\ guard' = [guard EXCEPT !.at = "asked", !.facts = f]
    /\ UNCHANGED <<rec, eq, plan, load, left, hist>>

(* A protective answer is bound to the facts it was compiled from; one     *)
(* that binds nothing, and no answer, leave the work pending until the     *)
(* next frame.                                                             *)
DefaultResultAnswered ==
    /\ guard.at = "asked"
    /\ \E choice \in IF Answered("guard") THEN {fut["guard"].st} ELSE {"unknown"} :
         LET bound == _default_action(choice, guard.facts)
         IN  /\ QuestionDropped("guard")
             /\ \/ /\ choice \in {"resume", "stay", "call_agent"}
                   /\ Follows(choice) /\ UNCHANGED <<eq, left>>
                \/ /\ choice = "equip"
                   /\ guard' = [guard EXCEPT !.at = "equip", !.facts = None]
                   /\ eq' = [StartEquipment EXCEPT !.own = "guard", !.at = "stop"]
                   /\ rec' = StopRequested(rec)
                   /\ loop' = Forget(loop, "guard") /\ UNCHANGED <<left, hist>>
                \/ /\ choice \in Protective \cup {"eat"} /\ (bound.tool # None \/ choice = guard.choice)
                   /\ guard' = [guard EXCEPT !.at = "act", !.facts = None, !.choice = choice,
                                             !.target = IF bound.tool = None THEN @ ELSE bound.target]
                   /\ left' = [left EXCEPT !.moves = @ - 1]
                   /\ loop' = Forget(loop, "guard") /\ UNCHANGED <<rec, eq, hist>>
                \/ /\ choice = "unknown" \/ (choice \in Protective \cup {"eat"} /\ bound.tool = None /\ choice # guard.choice)
                   /\ guard' = [guard EXCEPT !.at = "look", !.facts = None]
                   /\ loop' = Forget(loop, "guard") /\ UNCHANGED <<rec, eq, left, hist>>
    /\ UNCHANGED <<life, plan, load>>

(* The equipment node of a protective call: put on, the same action is     *)
(* tried again.                                                            *)
EquippedForProtection ==
    /\ guard.at = "equip" /\ eq.at = "end"
    /\ eq' = StartEquipment
    /\ \/ /\ eq.ret = "repeat"
          /\ guard' = [guard EXCEPT !.at = "act"]
          /\ left' = [left EXCEPT !.moves = @ - 1] /\ UNCHANGED <<loop, rec, hist>>
       \/ /\ eq.ret = "call_agent"
          /\ Follows("call_agent") /\ UNCHANGED left
       \/ /\ eq.ret = "unknown"
          /\ guard' = [guard EXCEPT !.at = "look"] /\ UNCHANGED <<loop, rec, left, hist>>
       \/ /\ eq.ret = "raised"
          /\ GuardOver(loop, rec, "raised") /\ UNCHANGED <<left, hist>>
    /\ UNCHANGED <<fut, life, plan, load>>

(* The deadline of an idle protection covers only what follows it.         *)
_run_idle_protection ==
    /\ guard.kind = "idle" /\ guard.at \in {"follow", "look", "read", "asked", "equip"}
    /\ load.late /\ AtAnAwait
    /\ LET d == Dropped(Forget(loop, "guard"), rec)
       IN  GuardOver(d.l, d.r, "ended")
    /\ QuestionDropped("guard") /\ EquipmentDropped
    /\ hist' = [hist EXCEPT !.cut = @ \cup Unjudged("guard")]
    /\ UNCHANGED <<life, plan, load, left>>

\* ----- the equipment node ------------------------------------------------

EquipLate == IF eq.own = "guard" THEN GuardLate ELSE rec["w"].late

(* One judged call in a tree of its own: it is stopped for, run, and asked *)
(* about until Decision has called it done or handed it on.                *)
_run_result_equipment ==
    \/ /\ eq.at = "stop" /\ StopEnded
       /\ eq' = [eq EXCEPT !.at = "call"]
       /\ left' = [left EXCEPT !.stuck = FALSE]
       /\ UNCHANGED <<loop, rec, fut, life, hist>>
    \/ /\ eq.at = "call" /\ ~Watched("e")
       /\ IF EquipLate THEN eq' = [eq EXCEPT !.at = "end", !.ret = "unknown"] /\ UNCHANGED <<loop, rec, life>>
          ELSE IF Admitted("e") THEN Enters("e", 0, loop) /\ eq' = [eq EXCEPT !.at = "calling"]
          ELSE eq' = [eq EXCEPT !.at = "end", !.ret = "raised"] /\ UNCHANGED <<loop, rec, life>>
       /\ UNCHANGED <<fut, left, hist>>
    \/ /\ eq.at = "calling" /\ rec["e"].at = "back"
       /\ LET r == rec["e"]
              end(ret) == eq' = [eq EXCEPT !.at = "end", !.ret = ret]
          IN  IF r.out = "raised" THEN end(IF r.worker = "stopped" THEN "call_agent" ELSE "raised")
              ELSE IF r.choice = "next_step" THEN end("repeat")
              ELSE IF r.choice = "call_agent" THEN end("call_agent")
              ELSE IF r.choice = "repeat" THEN eq' = [eq EXCEPT !.at = "call"]
              ELSE eq' = [eq EXCEPT !.at = "state"]
       /\ rec' = [rec EXCEPT !["e"] = [Cleared(@, "e") EXCEPT !.worker = rec["e"].worker]]
       /\ UNCHANGED <<loop, fut, life, left, hist>>
    \/ /\ eq.at = "state"
       /\ IF _process_lifecycle_events THEN eq' = [eq EXCEPT !.at = "nap"] /\ UNCHANGED <<loop, fut, life>>
          ELSE \E f \in load.scenes :
                  /\ eq' = [eq EXCEPT !.at = "judge"]
                  /\ _judge_terminal_frame(eq.own, loop,
                         frame_choice(_call_options(Ctx("e"), f, rec["e"].worker), FALSE) \ {"repeat", "equip"})
       /\ UNCHANGED <<rec, left, hist>>
    \/ /\ eq.at = "judge" /\ Answered(eq.own)
       /\ LET choice == fut[eq.own].st
          IN  eq' = [eq EXCEPT !.at = IF choice \in {"next_step", "call_agent", "cancelled"} THEN "end" ELSE "nap",
                               !.ret = IF choice = "next_step" THEN "repeat" ELSE "call_agent"]
       /\ QuestionDropped(eq.own)
       /\ loop' = _release_result_pending(Forget(loop, eq.own), "e")
       /\ UNCHANGED <<rec, life, left, hist>>
    \/ /\ eq.at = "nap" /\ ~EquipLate
       /\ eq' = [eq EXCEPT !.at = "state"] /\ UNCHANGED <<loop, rec, fut, life, left, hist>>

RunResultEquipment == _run_result_equipment /\ UNCHANGED <<guard, plan, load>>

(* Its time is up: the executor is cancelled and says so.                  *)
EquipmentDeadline ==
    /\ eq.own = "work" /\ eq.at \in {"calling", "state", "judge", "nap"} /\ EquipLate /\ AtAnAwait
    /\ LET d == CutOff(Forget(loop, "work"), rec, "e")
           judged == IF eq.at = "judge" THEN _release_result_pending(d.l, "e") ELSE d.l
       IN  loop' = judged /\ rec' = [d.r EXCEPT !["e"] = Cleared(@, "e")]
    /\ eq' = [eq EXCEPT !.at = "end", !.ret = "unknown"]
    /\ QuestionDropped("work")
    /\ hist' = [hist EXCEPT !.cut = @ \cup Unjudged("work")]
    /\ UNCHANGED <<life, guard, plan, load, left>>

============================================================================
