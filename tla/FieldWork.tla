----------------------------- MODULE FieldWork -----------------------------
(***************************************************************************)
(* Getting about and what is done on the way: navigation in segments with  *)
(* the recoveries around it (src/minebot/body/navigation.py), navigation   *)
(* by objective (objective_navigation.py), picking up (pickup.py), combat  *)
(* (combat.py), getting to a block (block_approach.py), collecting a       *)
(* resource (cluster_collection.py, resource_collection.py), exploring     *)
(* (exploration.py), coming back after a death (lifecycle.py), and the     *)
(* paged readings of the world under them (world_read.py, reach.py).       *)
(***************************************************************************)
EXTENDS Transaction

\* ----- navigation --------------------------------------------------------

\* Towards the goal of the transaction, or aside: out of a hazard, a detour.
Walk(x) == <<"go", IF x \in {"free", "tried"} THEN "goal" ELSE "aside">>

(* A survival reflex of the Body is waited for.                            *)
_wait_for_survival_reflex_idle ==
    /\ In("_wait_for_survival_reflex_idle")
    /\ At("begin")
    /\ (Here.n < MaxPolls /\ Count("begin")) \/ Ok \/ Fail

(* A hazard the Body stands in is walked out of first, by a navigation     *)
(* that does not answer hazards itself.  tried keeps the hazard that was   *)
(* answered: the same one is not answered twice.  x: "free", "tried" once  *)
(* a detour was made; "survival" and "detour" for the inner navigations.   *)
Hazardous == world.hazard /\ Here.x # "survival"

navigate_to_prepare ==
    /\ In("navigate_to")
    /\ \/ At("begin") /\ Call("_wait_for_survival_reflex_idle", 0, "still")
       \/ At("still") /\ Then(IF Hazardous THEN Goto("hazard") ELSE Goto("segment"))
       \/ At("hazard") /\ world.tried /\ Fail
       \/ /\ At("hazard") /\ ~world.tried
          /\ CallAfter([world EXCEPT !.tried = TRUE], "_recover_survival_hazard", 0, "recovered")
       \/ /\ At("recovered") /\ ret = "ok"
          /\ Stand([Here EXCEPT !.at = "segment"])
          /\ world' = [world EXCEPT !.tried = world.hazard]
          /\ UNCHANGED <<ret, token, client, strays>>
       \/ At("recovered") /\ ret # "ok" /\ Fail

(* No target to flee to, or a walk there and another look at the hazard.   *)
_recover_survival_hazard ==
    /\ In("_recover_survival_hazard")
    /\ \/ At("begin") /\ (Fail \/ Call("navigate_to", "survival", "walked"))
       \/ At("walked") /\ (IF ret # "failed" /\ ~world.hazard THEN Ok ELSE Fail)

(* One segment: the walk runs in the client, which may propose to break,   *)
(* place or open something on the way.  n: segments and proposals.         *)
navigate_to_segment ==
    /\ In("navigate_to")
    /\ \/ At("segment") /\ Fail           \* preempted, no continuation, segments spent
       \/ At("segment") /\ Here.n < MaxPolls /\ Execute(Walk(Here.x), "wait")
       \/ At("wait") /\ ~Awaited /\ Here.n < MaxPolls /\ Call("_answer_navigation_mutation", 0, "answered")
       \/ At("answered") /\ Count("wait")
       \/ At("wait") /\ ~Awaited /\ Raise("timeout") /\ UNCHANGED <<token, client, world, strays>>
       \/ At("wait") /\ Awaited /\ (Fail \/ Goto("ended"))

(* The proposed block is read again and governance asked; the decision     *)
(* goes to the walking client, and is itself a checkpoint.                 *)
_answer_navigation_mutation ==
    In("_answer_navigation_mutation") /\ At("begin") /\ Checkpoint(Return("answered"))

(* Arrived; preempted by a reflex (waited for, and a failure even if it    *)
(* saved the Body, unless it cannot be observed: then "paused" is a        *)
(* success); another segment; a detour; or the end.                        *)
navigate_to_ended ==
    /\ In("navigate_to")
    /\ \/ At("ended") /\ client.term = "ok" /\ Ok
       \/ At("ended") /\ client.term # "ok" /\ (Fail \/ Call("_wait_for_reflex_completion", 0, "reflex"))
       \/ At("reflex") /\ (IF ret = "none" THEN Return("paused") ELSE Fail)
       \/ At("ended") /\ client.term # "ok" /\ Count("segment")
       \/ At("ended") /\ client.term # "ok" /\ Here.x = "free" /\ Call("_run_navigation_recovery", 0, "detour")
       \/ At("detour") /\ (IF ret = "ok" THEN KeepCount("segment", "tried", Here.n + 1) ELSE Fail)

_wait_for_reflex_completion ==
    /\ In("_wait_for_reflex_completion")
    /\ At("begin")
    /\ (Here.n < MaxPolls /\ Count("begin")) \/ Return("completed") \/ Return("none")

_run_navigation_recovery ==
    /\ In("_run_navigation_recovery")
    /\ \/ At("begin") /\ (Fail \/ Call("navigate_to", "detour", "walked"))
       \/ At("walked") /\ Return(ret)

(* Until the entity is as near as asked, as the client tells it.           *)
follow_entity ==
    /\ In("follow_entity")
    /\ \/ At("begin") /\ (Fail \/ Call("_wait_for_survival_reflex_idle", 0, "still"))
       \/ At("still") /\ Then(Call("resolve_entity_target", 0, "found"))
       \/ At("found") /\ Then(Native(Walk("free"), "walked"))
       \/ At("walked") /\ (Fail \/ Return(ret))         \* preempted, target_identity_mismatch

(* Away from a danger that may move, checked so many times: far enough is  *)
(* measured again after every walk and at the end.  x: the last walk was   *)
(* not far enough; finding oneself far enough later does not clear it.     *)
move_away ==
    /\ In("move_away")
    /\ \/ At("begin") /\ Here.n < MaxPolls /\ world.there /\ (Count("begin") \/ (Here.n = 0 /\ Ok))
       \/ At("begin") /\ Here.n < MaxPolls /\ ~world.there /\ (Fail \/ Call("navigate_to", "free", "walked"))
       \/ At("walked") /\ KeepCount("begin", ~world.there, Here.n + 1)
       \/ At("begin") /\ Here.n = MaxPolls /\ (IF ~Here.x /\ world.there THEN Ok ELSE Fail)

\* ----- navigation by objective -------------------------------------------

(* The state is read, a running reflex waited for, a hazard answered once. *)
_prepare_survival ==
    /\ In("_prepare_survival")
    /\ \/ At("begin") /\ (Fail \/ Goto("hazard") \/ Call("_wait_for_reflex_completion", 0, "reflex"))
       \/ At("reflex") /\ (IF ret = "none" THEN Fail ELSE Goto("hazard"))
       \/ At("hazard") /\ Here.x = "survival" /\ world.hazard /\ Ok
       \/ /\ At("hazard") /\ ~world.hazard
          /\ stack' = SubSeq(stack, 1, Len(stack) - 1) /\ ret' = "ok"
          /\ world' = [world EXCEPT !.tried = FALSE]
          /\ UNCHANGED <<token, client, strays>>
       \/ At("hazard") /\ Hazardous /\ world.tried /\ Fail
       \/ /\ At("hazard") /\ Hazardous /\ ~world.tried
          /\ CallAfter([world EXCEPT !.tried = TRUE], "navigate_objective", "survival", "walked")
       \/ At("walked") /\ (ret # "ok" \/ world.hazard) /\ Fail
       \/ /\ At("walked") /\ ret = "ok" /\ ~world.hazard
          /\ stack' = SubSeq(stack, 1, Len(stack) - 1) /\ ret' = "ok"
          /\ world' = [world EXCEPT !.tried = FALSE]
          /\ UNCHANGED <<token, client, strays>>

(* Slices of the objective; only one that ran out of ticks is followed by  *)
(* another, a mining one only if it has broken something.                  *)
navigate_objective ==
    /\ In("navigate_objective")
    /\ \/ At("begin") /\ (Fail \/ Call("_prepare_survival", Here.x, "ready"))
       \/ At("ready") /\ Then(Goto("slice"))
       \/ At("slice") /\ (Fail \/ (Here.n < MaxPolls /\ Call("_execute_objective", Here.x, "done")))
       \/ At("done") /\ Return(ret)
       \/ At("done") /\ ret = "failed" /\ Count("slice")

(* Every Exception of the client is a failure here, its timeout too: the   *)
(* walk then goes on without anybody waiting for it.                       *)
_execute_objective ==
    /\ In("_execute_objective")
    /\ \/ At("begin") /\ Execute(Walk(Here.x), "wait")
       \/ At("wait") /\ ~Awaited /\ Fail
       \/ At("wait") /\ Awaited /\ client.term = "ok" /\ Ok
       \/ At("wait") /\ Awaited /\ client.term # "ok" /\ (Fail \/ Call("_wait_for_reflex_completion", 0, "reflex"))
       \/ At("reflex") /\ Fail

follow_objective ==
    /\ In("follow_objective")
    /\ \/ At("begin") /\ Call("_prepare_survival", "free", "ready")
       \/ At("ready") /\ Then(Goto("follow") \/ Call("resolve_entity_target", 0, "found"))
       \/ At("found") /\ Then(Goto("follow"))
       \/ At("follow") /\ Native(Walk("free"), "walked")
       \/ At("walked") /\ (Fail \/ Return(ret))         \* target_identity_mismatch

\* ----- picking up --------------------------------------------------------

pickup_items ==
    /\ In("pickup_items")
    /\ \/ At("begin") /\ Read(Call("_collect_inventory_delta", world.bag, "end"))
       \/ At("end") /\ Return(ret)

(* Round after round: look for items, walk or follow one, look into the    *)
(* inventory; enough gained is the only success.  x: carried before.       *)
Gained == world.bag > Here.x

\* Mutant: a round is not counted.
_collect_inventory_delta_uncounted ==
    /\ In("_collect_inventory_delta")
    /\ \/ At("begin") /\ Call("_poll_inventory_delta", Here.x, "polled")
       \/ At("polled") /\ ret = "failed" /\ Fail
       \/ At("polled") /\ ret # "failed" /\ (IF Gained THEN Ok ELSE Goto("scan"))
       \/ At("scan") /\ Call("_scan_candidates", 0, "scanned")
       \/ At("scanned") /\ (Fail \/ Deal("navigate_to", 0, "walked"))
       \/ At("walked") /\ (IF ret = "failed" THEN Goto("scan") ELSE Goto("begin"))

_collect_inventory_delta ==
    /\ In("_collect_inventory_delta")
    /\ \/ At("begin") /\ Call("_poll_inventory_delta", Here.x, "polled")
       \/ At("polled") /\ ret = "failed" /\ Fail
       \/ At("polled") /\ ret # "failed" /\ (IF Gained THEN Ok ELSE (Goto("scan") \/ Fail))
       \/ At("scan") /\ Here.n < MaxPolls /\ Call("_scan_candidates", 0, "scanned")
       \/ At("scan") /\ Here.n = MaxPolls /\ Fail
       \/ At("scanned") /\ (Fail \/ Deal("navigate_to", 0, "walked"))
       \/ At("walked") /\ (Fail \/ Count("moved"))
       \/ At("moved") /\ (IF ret = "failed" THEN Goto("scan") ELSE Goto("begin"))

_scan_candidates == In("_scan_candidates") /\ At("begin") /\ (Ok \/ Fail)

_poll_inventory_delta ==
    /\ In("_poll_inventory_delta")
    /\ At("begin")
    /\ Read(IF ~Gained /\ Here.n < MaxPolls THEN Count("begin") ELSE Ok)

\* ----- combat ------------------------------------------------------------

resolve_entity_target == In("resolve_entity_target") /\ At("begin") /\ Read(Ok)

(* One native fight or volley against one entity; an end reported for      *)
(* another one, or under another generation, is a failure.                 *)
engage_entity ==
    /\ In("engage_entity")
    /\ \/ At("begin") /\ (Fail \/ Call("resolve_entity_target", 0, "found"))
       \/ At("found") /\ Then(Native(<<"eat", "foe">>, "fought"))
       \/ At("fought") /\ (Fail \/ Return(ret))

ranged_attack ==
    /\ In("ranged_attack")
    /\ \/ At("begin") /\ (Fail \/ Call("resolve_entity_target", 0, "found"))
       \/ At("found") /\ Then(Native(<<"eat", "foe">>, "fought"))
       \/ At("fought") /\ (Fail \/ Return(ret))

\* ----- getting to a block ------------------------------------------------

(* Search, stand points, walk, and a look at the block from there: it must *)
(* still be the block, within reach and not hidden.                        *)
get_to_block ==
    /\ In("get_to_block")
    /\ \/ At("begin") /\ Here.n = MaxPolls /\ Fail
       \/ At("begin") /\ Here.n < MaxPolls /\ Read(\/ Call("_verify_target", 0, "already")
                                                  \/ Call("block_reach_domains", 0, "domain"))
       \/ At("already") /\ ret = "ok" /\ Ok
       \/ At("already") /\ ret # "ok" /\ (Fail \/ Count("begin") \/ Call("block_reach_domains", 0, "domain"))
       \/ At("domain") /\ Then(Count("begin") \/ Deal("navigate_to", 0, "walked"))
       \/ At("walked") /\ ret # "ok" /\ (Fail \/ Count("begin"))
       \/ At("walked") /\ ret = "ok" /\ Call("_verify_target", 0, "verified")
       \/ At("verified") /\ ret = "ok" /\ Ok
       \/ At("verified") /\ ret # "ok" /\ (Fail \/ Count("begin"))

_verify_target ==
    /\ In("_verify_target")
    /\ At("begin") /\ Read(world.cell /\ world.near /\ Ok)

(* Stand points from the cells around the target, read in pages.           *)
block_reach_domains ==
    /\ In("block_reach_domains")
    /\ \/ At("begin") /\ Call("read_block_facts", 0, "read")
       \/ At("read") /\ Return(ret)

(* Tile after tile, page after page: a page must be well formed, its       *)
(* cursor must move on, the last must be complete and nothing missing.     *)
read_block_facts ==
    /\ In("read_block_facts")
    /\ At("begin")
    /\ Read((Here.n < MaxPolls /\ Count("begin")) \/ Ok)

\* ----- collecting --------------------------------------------------------

(* The wait for a native mining action, a little at a time: cancellation   *)
(* is looked at every time, and an action that brings nothing is           *)
(* interrupted and then waited for.                                        *)
_await_with_progress ==
    /\ In("_await_with_progress")
    /\ \/ At("begin") /\ Checkpoint(Goto("wait"))
       \/ At("wait") /\ Awaited /\ Return(client.term)
       \/ At("wait") /\ ~Awaited /\ Here.n < MaxPolls /\ (Count("begin") \/ Goto("stop"))
       \/ At("wait") /\ ~Awaited /\ Here.n = MaxPolls /\ Raise("timeout") /\ Outside
       \/ At("stop") /\ Awaited /\ Return("stalled")
       \/ At("stop") /\ ~Awaited /\ Raise("timeout") /\ Outside

(* Native mining until as much has been gained as was asked for, the rest  *)
(* of a cluster included where it is small.  x: carried before.            *)
Enough(before) == world.bag - before >= Asked

collect_native_cluster ==
    /\ In("collect_native_cluster")
    /\ \/ At("begin") /\ Keep("turn", world.bag)
       \/ At("turn") /\ Here.n = MaxPolls /\ (IF Enough(Here.x) THEN Ok ELSE Fail)
       \/ At("turn") /\ Here.n < MaxPolls /\ Checkpoint(Fail \/ Goto("choose"))
       \/ At("choose") /\ Enough(Here.x) /\ Ok
       \/ At("choose") /\ (Fail \/ Execute(<<"mine", "cell">>, "mining"))
       \/ At("mining") /\ Call("_await_with_progress", 0, "mined")
       \/ At("mined") /\ (IF ret = "ok" THEN Count("turn") ELSE Fail)

NewDomain(w) == [first |-> w.bag, last |-> w.bag, got |-> 0, up |-> FALSE, down |-> FALSE]

\* Mutant: what the inventory shows is counted again at every reading.
reconcile_collected_again(s, reported) ==
    [s EXCEPT !.got = @ + (world.bag - s.first), !.last = world.bag]

(* What was collected, by what the last call gained or by the inventory,   *)
(* whichever says more.                                                    *)
reconcile_collected(s, reported) ==
    LET told == s.got + reported
        seen == world.bag - s.first
    IN  [s EXCEPT !.got = IF told > seen THEN told ELSE seen, !.last = world.bag]

(* The native collector where there is one; else dry land first, by digging*)
(* up where that is allowed.  n: candidates and mutations spent.           *)
collect_block_domain_begin ==
    /\ In("collect_block_domain")
    /\ \/ At("begin") /\ (Call("collect_native_cluster", 0, "batched") \/ Goto("dry"))
       \/ At("batched") /\ Return(ret)
       \/ At("dry") /\ Deal("egress_to_dry", 0, "egress")
       \/ At("egress") /\ ret = "ok" /\ Goto("loop")
       \/ At("egress") /\ ret # "ok" /\ (Fail \/ Deal("go_to_surface", 0, "surfaced"))
       \/ At("surfaced") /\ (IF ret = "ok" THEN Keep("loop", [Here.x EXCEPT !.up = TRUE]) ELSE Fail)

(* Enough, a budget spent, nothing left to try, or stand points around the *)
(* candidates.                                                             *)
collect_block_domain_select ==
    /\ In("collect_block_domain")
    /\ At("loop")
    /\ \/ Here.x.got >= Asked /\ Ok
       \/ Here.x.got < Asked /\ Fail
       \/ Here.x.got < Asked /\ Here.n < MaxPolls /\ Call("read_block_facts", 0, "stands")

(* A walk, and once more with more means where it found no way; the target *)
(* is looked at from where the walk ended.                                 *)
collect_block_domain_navigate ==
    /\ In("collect_block_domain")
    /\ \/ At("stands") /\ Then(Deal("navigate_to", 0, "walked"))
       \/ At("walked") /\ ret = "failed" /\ Deal("navigate_to", 0, "arrived")
       \/ At("walked") /\ Goto("arrived")
       \/ At("arrived") /\ ret = "ok" /\ (Fail \/ IF world.cell /\ world.near THEN Goto("mine") ELSE Count("loop"))
       \/ At("arrived") /\ ret = "paused" /\ Fail
       \/ At("arrived") /\ ret = "failed" /\ (Fail \/ Goto("recover"))

(* No way to the target: mine towards it, dig up once, or down once; a dig *)
(* that succeeded without bringing the target nearer is the end.           *)
collect_block_domain_recover ==
    /\ In("collect_block_domain")
    /\ \/ At("recover") /\ (Goto("blocked") \/ Call("_run_designated_target", 0, "designated"))
       \/ At("designated") /\ ret = "ok" /\ KeepCount("loop", reconcile_collected(Here.x, world.bag - Here.x.last), Here.n + 1)
       \/ At("designated") /\ ret # "ok" /\ (Fail \/ Goto("blocked"))
       \/ At("blocked") /\ ~Here.x.up /\ Deal("go_to_surface", 0, "risen")
       \/ At("risen") /\ ret = "ok" /\ (Fail \/ KeepCount("loop", [Here.x EXCEPT !.up = TRUE], Here.n + 1))
       \/ At("risen") /\ ret # "ok" /\ Keep("deeper", [Here.x EXCEPT !.up = TRUE])
       \/ At("blocked") /\ Goto("deeper")
       \/ At("deeper") /\ ~Here.x.down /\ Deal("dig_down_to_y", 0, "sunk")
       \/ At("sunk") /\ ret = "ok" /\ (Fail \/ KeepCount("loop", [Here.x EXCEPT !.down = TRUE], Here.n + 1))
       \/ At("sunk") /\ ret # "ok" /\ Keep("rejected", [Here.x EXCEPT !.down = TRUE])
       \/ At("deeper") /\ Goto("rejected")
       \/ At("rejected") /\ (Fail \/ Count("loop"))

(* The target in reach is mined and gathered; what was gained counts even  *)
(* if the mining says it failed.                                           *)
collect_block_domain_mine ==
    /\ In("collect_block_domain")
    /\ \/ At("mine") /\ (Deal("mine_block_collect", "cell", "mined") \/ Call("_run_designated_target", 0, "mined"))
       \/ At("mined") /\ ret = "ok" /\ KeepCount("loop", reconcile_collected(Here.x, world.bag - Here.x.last), Here.n + 1)
       \/ At("mined") /\ ret # "ok" /\ (Fail \/ KeepCount("loop", reconcile_collected(Here.x, 0), Here.n + 1))

(* The same target again while the segment timed out but broke something.  *)
_run_designated_target ==
    /\ In("_run_designated_target")
    /\ \/ At("begin") /\ (Fail \/ (Here.n < MaxPolls /\ Deal("mine_block_collect", "cell", "mined")))
       \/ At("mined") /\ Return(ret)
       \/ At("mined") /\ ret # "ok" /\ world.cell /\ Count("begin")

\* ----- exploring ---------------------------------------------------------

(* What is within the scan: page after page of blocks, then entities.      *)
_scan_targets ==
    /\ In("_scan_targets")
    /\ At("begin")
    /\ \/ Fail                                      \* a terminal of the scan
       \/ Here.n < MaxPolls /\ Count("begin")
       \/ Return(IF world.near /\ world.cell THEN "found" ELSE "clear")

NewSearch == [regions |-> 0, egress |-> FALSE, found |-> FALSE]

Scanned(l) ==
    /\ ret # "failed"
    /\ Keep(l, [Here.x EXCEPT !.regions = @ + 1, !.found = @ \/ ret = "found"])

(* The region the Body is in first.  x: regions covered, whether digging   *)
(* out was tried and a target seen; n: regions tried.                      *)
explore_for_begin ==
    /\ In("explore_for")
    /\ \/ At("begin") /\ (Fail \/ Goto("scan"))
       \/ At("scan") /\ Call("_scan_targets", 0, "scanned")
       \/ At("scanned") /\ ret = "failed" /\ Fail
       \/ At("scanned") /\ Scanned("loop")
       \/ At("loop") /\ Ok                 \* found, a budget or the frontier exhausted
       \/ At("loop") /\ Fail               \* blocked, dead, a confirmation required
       \/ /\ At("loop") /\ Here.x.regions < MaxPolls /\ Here.n < MaxPolls
          /\ Stand([Here EXCEPT !.at = "frontier", !.n = @ + 1])
          /\ world' = [world EXCEPT !.there = FALSE]
          /\ UNCHANGED <<ret, token, client, strays>>

(* Somewhere to stand in the next region; with nothing, the Body digs out  *)
(* once and the region is tried again.                                     *)
explore_for_frontier ==
    /\ In("explore_for")
    /\ \/ At("frontier") /\ Call("_safe_frontier_stands", 0, "stands")
       \/ At("stands") /\ ret = "ok" /\ Deal("navigate_to", 0, "walked")
       \/ At("stands") /\ ret # "ok" /\ Goto("loop")
       \/ At("stands") /\ ret # "ok" /\ ~Here.x.egress /\ Deal("go_to_surface", 0, "dugout")
       \/ At("dugout") /\ Keep("loop", [Here.x EXCEPT !.egress = TRUE])

_safe_frontier_stands ==
    /\ In("_safe_frontier_stands")
    /\ \/ At("begin") /\ Call("read_block_facts", 0, "read")
       \/ At("read") /\ Return(ret)

(* A walk that found no way is repeated with more means, after digging out *)
(* once; whether the region was reached is told by where the Body is.      *)
explore_for_fallback ==
    /\ In("explore_for")
    /\ \/ At("walked") /\ (Fail \/ Ok \/ Goto("arrived"))          \* dead; preempted
       \/ At("walked") /\ ret = "failed" /\ Deal("navigate_to", 0, "arrived")
       \/ At("walked") /\ ret = "failed" /\ ~Here.x.egress /\ Deal("go_to_surface", 0, "egressed")
       \/ At("egressed") /\ (Fail \/ Ok \/ Keep("again", [Here.x EXCEPT !.egress = TRUE]))
       \/ At("again") /\ Deal("navigate_to", 0, "arrived")
       \/ At("arrived") /\ (Fail \/ Goto("reached"))
       \/ At("arrived") /\ ret = "failed" /\ Goto("loop")       \* survival_reflex_recovered

(* Not there: back to where the attempt began, unless it got closer; a     *)
(* failed return ends the exploration, with what it has found.             *)
explore_for_reached ==
    /\ In("explore_for")
    /\ \/ At("reached") /\ world.there /\ Call("_scan_targets", 0, "scanned")
       \/ At("reached") /\ ~world.there /\ (Goto("loop") \/ Deal("navigate_to", 0, "returned"))
       \/ At("returned") /\ (Fail \/ Goto("loop"))
       \/ At("returned") /\ ret = "failed" /\ Here.x.found /\ Ok

\* ----- coming back -------------------------------------------------------

(* lever: the Body is in the world.  The answer to the spawn, and the      *)
(* event that tells of it, may be lost although the Body has appeared.     *)
recover_after_death ==
    /\ In("recover_after_death")
    /\ \/ At("begin") /\ Call("_state_recheck_with_retry", 0, "before")
       \/ At("before") /\ ret = "ok" /\ (IF world.lever THEN Fail ELSE Native(<<"spawn", "body">>, "spawned"))
       \/ At("spawned") /\ ret = "ok" /\ Call("_wait_for_event", 0, "event")
       \/ At("spawned") /\ ret = "refused" /\ Fail
       \/ At("spawned") /\ ret \in {"failed", "timeout"} /\ Call("_recover_from_transport_recheck", 0, "rechecked")
       \/ At("event") /\ ret = "timeout" /\ Call("_recover_from_transport_recheck", 0, "rechecked")
       \/ At("rechecked") /\ ret = "ok" /\ Ok
       \/ At("event") /\ ret = "none" /\ (Fail \/ (world.lever /\ Ok))
       \/ At("event") /\ ret = "ok" /\ Call("_state_recheck_with_retry", 0, "final")
       \/ At("final") /\ ret = "ok" /\ (Fail \/ (world.lever /\ Ok))
       \/ At("before") /\ ret = "failed" /\ Raise("timeout") /\ Outside
       \/ At("rechecked") /\ ret = "failed" /\ Raise("timeout") /\ Outside
       \/ At("final") /\ ret = "failed" /\ Raise("timeout") /\ Outside

_recover_from_transport_recheck ==
    /\ In("_recover_from_transport_recheck")
    /\ \/ At("begin") /\ (Fail \/ Call("_state_recheck_with_retry", 0, "state"))
       \/ At("state") /\ (Fail \/ (ret = "ok" /\ world.lever /\ Ok))

_state_recheck_with_retry ==
    /\ In("_state_recheck_with_retry")
    /\ At("begin")
    /\ Ok \/ (IF Here.n < MaxPolls THEN Count("begin") ELSE Fail)

_wait_for_event ==
    /\ In("_wait_for_event")
    /\ At("begin")
    /\ \/ world.lever /\ Ok
       \/ IF Here.n < MaxPolls THEN Count("begin") ELSE Return("none")
       \/ Raise("timeout") /\ Outside

FieldStep ==
    \/ _wait_for_survival_reflex_idle \/ navigate_to_prepare \/ _recover_survival_hazard
    \/ navigate_to_segment \/ _answer_navigation_mutation \/ navigate_to_ended
    \/ _wait_for_reflex_completion \/ _run_navigation_recovery \/ follow_entity \/ move_away
    \/ _prepare_survival \/ navigate_objective \/ _execute_objective \/ follow_objective
    \/ pickup_items \/ _collect_inventory_delta \/ _scan_candidates \/ _poll_inventory_delta
    \/ resolve_entity_target \/ engage_entity \/ ranged_attack
    \/ get_to_block \/ _verify_target \/ block_reach_domains \/ read_block_facts
    \/ _await_with_progress \/ collect_native_cluster
    \/ collect_block_domain_begin \/ collect_block_domain_select \/ collect_block_domain_navigate
    \/ collect_block_domain_recover \/ collect_block_domain_mine \/ _run_designated_target
    \/ _scan_targets \/ explore_for_begin \/ explore_for_frontier \/ _safe_frontier_stands
    \/ explore_for_fallback \/ explore_for_reached
    \/ recover_after_death \/ _recover_from_transport_recheck \/ _state_recheck_with_retry
    \/ _wait_for_event

============================================================================
