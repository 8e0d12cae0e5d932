----------------------------- MODULE BlockWork -----------------------------
(***************************************************************************)
(* Breaking and placing blocks (src/minebot/body/block_work.py): mining,   *)
(* mining next to a liquid, mining and gathering, digging down and up, the *)
(* way to the surface, and placing.                                        *)
(*                                                                         *)
(* site is the floor under the Body when it digs, and what is in the way   *)
(* when it places; near is standing where the work can be done, in the     *)
(* middle of the shaft when digging; there is standing on the surface;     *)
(* hazard is a liquid at the target's faces; lever is being in the air.    *)
(***************************************************************************)
EXTENDS Transaction

Tool == <<"ready", "tool">>

\* ----- mining ------------------------------------------------------------

(* The block is read and governance asked about it; then the approach; the *)
(* break carries the decision made before it.  x: the block.               *)
mine_block ==
    /\ In("mine_block")
    /\ \/ At("begin") /\ Read(Goto("approach"))               \* or break_denied
       \/ At("approach") /\ Call("_approach_mining_target", 0, "close")
       \/ At("approach") /\ (IF world.near THEN Goto("break") ELSE Fail)   \* prepositioned
       \/ At("close") /\ Then(Goto("break"))
       \/ At("break") /\ Native(<<"break", Here.x>>, "broken")
       \/ At("broken") /\ (IF ret = "ok" THEN Ok ELSE Fail)

(* Within reach after the walk is enough, even if the walk says it failed, *)
(* as long as it failed of itself; a paused walk is not enough.            *)
_approach_mining_target ==
    /\ In("_approach_mining_target")
    /\ \/ At("begin") /\ world.near /\ Ok
       \/ At("begin") /\ ~world.near /\ Read(Deal("navigate_to", 0, "walked"))
       \/ At("walked") /\ ret = "ok" /\ (IF world.near THEN Ok ELSE Fail)
       \/ At("walked") /\ ret = "failed" /\ (Fail \/ (world.near /\ Ok))
       \/ At("walked") /\ ret = "paused" /\ Fail

(* An ore with a liquid at its faces is mined only once they are sealed,   *)
(* and looked at again.  n: faces sealed.                                  *)
mine_block_dry ==
    /\ In("mine_block_dry")
    /\ \/ At("begin") /\ Read(IF world.hazard THEN Goto("seal") ELSE Goto("mine"))
       \/ At("seal") /\ (Fail \/ Goto("face"))        \* too many faces, nothing to seal with
       \/ At("face") /\ Here.n < MaxPolls /\ (Goto("place") \/ Call("_approach_seal_face", 0, "faced"))
       \/ At("faced") /\ OkThen("place")
       \/ At("place") /\ Call("_place_first_available_seal_block", 0, "placed")
       \/ At("placed") /\ Then(Count("face"))
       \/ At("face") /\ Here.n > 0 /\ Goto("recheck")
       \/ At("recheck") /\ Read(IF world.hazard THEN Fail ELSE Goto("mine"))
       \/ At("mine") /\ Call("mine_block", Here.x, "end")
       \/ At("end") /\ Return(ret)

_approach_seal_face ==
    /\ In("_approach_seal_face")
    /\ \/ At("begin") /\ (Fail \/ Deal("navigate_to", 0, "walked"))
       \/ At("walked") /\ (IF ret = "failed" THEN Fail ELSE Ok)

(* One kind of block after another, while the failure may be retried.      *)
_place_first_available_seal_block ==
    /\ In("_place_first_available_seal_block")
    /\ \/ At("begin") /\ (IF Here.n < MaxPolls THEN Call("place_block", "seal", "placed") ELSE Fail)
       \/ At("placed") /\ ret = "ok" /\ Ok
       \/ At("placed") /\ ret # "ok" /\ (Fail \/ Count("begin"))

(* The inventory before and after decides, not the mining.  x: the block,  *)
(* n: carried before.                                                      *)
mine_block_collect ==
    /\ In("mine_block_collect")
    /\ \/ At("begin") /\ Read(Call("_ensure_collect_pickaxe", 0, "tool"))
       \/ At("tool") /\ Then(Read(KeepCount("mine", Here.x, world.bag)))
       \/ At("mine") /\ (Call("mine_block", Here.x, "mined") \/ Call("mine_block_dry", Here.x, "mined"))
       \/ At("mined") /\ Then(Deal("pickup", 0, "gathered"))
       \/ At("gathered") /\ Read(IF world.bag > Here.n THEN Ok ELSE Fail)

_ensure_collect_pickaxe ==
    /\ In("_ensure_collect_pickaxe")
    /\ \/ At("begin") /\ Read(Ok \/ Native(Tool, "held"))
       \/ At("held") /\ (IF ret = "ok" THEN Ok ELSE Fail)

\* ----- digging down ------------------------------------------------------

\* Mutant: only a liquid is looked for, not the depth of the fall.
BearableDry == world.under # "lava"

(* The Body's own cells, the floor, and what lies under it, read before    *)
(* the floor is broken: not into a liquid, and not into a long fall.       *)
Bearable == world.under \in {"rock", "gap"}

dig_down_one ==
    /\ In("dig_down_one")
    /\ \/ At("begin") /\ Read(Call("_fall_probe_after_opening", 0, "probed"))
       \/ At("probed") /\ Then(IF world.site THEN Call("mine_block", "site", "mined") ELSE Ok)
       \/ At("mined") /\ Return(ret)

(* In one reading of the whole column, or cell by cell where that fails.   *)
_fall_probe_after_opening ==
    /\ In("_fall_probe_after_opening")
    /\ At("begin")
    /\ \/ Here.n = 0 /\ Count("begin")
       \/ Read(IF Bearable THEN Ok ELSE Fail)

(* Floor after floor: opened, the Body moved over the opening, its fall    *)
(* waited for.  x: the height to reach, and that of this floor; n:         *)
(* descents.                                                               *)
dig_down_to_y ==
    /\ In("dig_down_to_y")
    /\ \/ At("begin") /\ (IF world.y <= Here.x.goal THEN Ok ELSE Keep("down", [Here.x EXCEPT !.floor = world.y]))
       \/ /\ At("down") /\ Here.x.floor > Here.x.goal /\ Here.n < Asked
          /\ Call("dig_down_one", 0, "opened")
       \/ At("opened") /\ Then(Call("_align_for_descent", Here.x.floor, "aligned"))
       \/ At("aligned") /\ Then(Call("_wait_for_descent", Here.x.floor - 1, "descended"))
       \/ At("descended") /\ Then(KeepCount("down", [Here.x EXCEPT !.floor = world.y], Here.n + 1))
       \/ At("down") /\ Here.x.floor <= Here.x.goal /\ Ok
       \/ At("down") /\ Here.x.floor > Here.x.goal /\ Here.n = Asked /\ Fail

(* x: the height above the shaft.  A timeout of the move is answered by    *)
(* interrupting it, which does not wait for it to have stopped.            *)
_align_for_descent ==
    /\ In("_align_for_descent")
    /\ \/ At("begin") /\ (IF world.y < Here.x \/ world.near THEN Ok ELSE Native(<<"go", "centre">>, "moved"))
       \/ At("moved") /\ ret = "timeout" /\ Fail
       \/ At("moved") /\ ret # "timeout" /\ world.y < Here.x /\ Ok
       \/ /\ At("moved") /\ ret # "timeout" /\ world.y >= Here.x
          /\ IF ret = "ok" /\ world.near THEN Ok ELSE Fail

\* x: the height to have fallen to.
_wait_for_descent ==
    /\ In("_wait_for_descent")
    /\ At("begin")
    /\ \/ world.y <= Here.x /\ Ok
       \/ world.y > Here.x /\ (IF Here.n < MaxPolls THEN Count("begin") ELSE Fail)

\* ----- digging up --------------------------------------------------------

(* Head room cleared, a jump, and a block put where the feet were while    *)
(* the Body is in the air.  n: cells cleared; x: the height before.        *)
dig_up_one ==
    /\ In("dig_up_one")
    /\ \/ At("begin") /\ Read(KeepCount("clear", world.y, 0))        \* or no scaffold
       \/ At("clear") /\ Here.n < 2 /\ Read(Count("clear") \/ Call("mine_block", "cell", "cleared"))
       \/ At("cleared") /\ Then(Count("clear"))
       \/ At("clear") /\ Here.n = 2 /\ Native(<<"rise", "jump">>, "jumped")
       \/ At("jumped") /\ Then(IF world.lever THEN Call("place_block", "pillar", "placed") ELSE Fail)
       \/ At("placed") /\ Then(IF world.y > Here.x THEN Ok ELSE Fail)

dig_up_to_y ==
    /\ In("dig_up_to_y")
    /\ \/ At("begin") /\ world.y >= Here.x /\ Ok
       \/ At("begin") /\ world.y < Here.x /\ (IF Here.n < Asked THEN Call("dig_up_one", 0, "up") ELSE Fail)
       \/ At("up") /\ Then(Count("begin"))

\* ----- to the surface ----------------------------------------------------

(* Cells in one reading or one by one; whether one can stand there.        *)
_standable_feet_at ==
    /\ In("_standable_feet_at")
    /\ At("begin")
    /\ \/ Here.n = 0 /\ Count("begin")
       \/ Read(Return(IF world.near THEN "yes" ELSE "no"))

_surface_candidate_at ==
    /\ In("_surface_candidate_at")
    /\ At("begin")
    /\ \/ Here.n = 0 /\ Count("begin")
       \/ Read(Return(IF world.there THEN "yes" ELSE "no"))

(* Out of a liquid onto a dry stand, verified where the walk ended.        *)
egress_to_dry ==
    /\ In("egress_to_dry")
    /\ \/ At("begin") /\ Call("_standable_feet_at", 0, "stand")
       \/ At("stand") /\ ret = "yes" /\ Ok
       \/ At("stand") /\ ret = "no" /\ (Fail \/ Deal("navigate_to", 0, "walked"))
       \/ At("stand") /\ ret = "failed" /\ Fail
       \/ At("walked") /\ (IF ret = "failed" THEN Fail ELSE Call("_standable_feet_at", 0, "verify"))
       \/ At("verify") /\ (IF ret = "yes" THEN Ok ELSE Fail)

(* Already there; out of a liquid first; then one of the stands under the  *)
(* open sky, walked to with what may be broken and placed on the way, and  *)
(* looked at again.  x: leaving here is asked for even from the surface.   *)
go_to_surface_begin ==
    /\ In("go_to_surface")
    /\ \/ At("begin") /\ Call("_surface_candidate_at", 0, "initial")
       \/ At("initial") /\ ret = "yes" /\ ~Here.x /\ Ok
       \/ At("initial") /\ ret = "failed" /\ Fail
       \/ /\ At("initial") /\ ret # "failed" /\ (ret = "no" \/ Here.x)
          /\ (Goto("domain") \/ Call("egress_to_dry", 0, "egress"))
       \/ At("egress") /\ ret = "ok" /\ Call("_surface_candidate_at", 0, "dry")
       \/ At("egress") /\ ret # "ok" /\ (Fail \/ Goto("domain"))
       \/ At("dry") /\ ret = "yes" /\ ~Here.x /\ Ok
       \/ At("dry") /\ ret = "failed" /\ Fail
       \/ At("dry") /\ ret # "failed" /\ (ret = "no" \/ Here.x) /\ Goto("domain")

go_to_surface_walk ==
    /\ In("go_to_surface")
    /\ \/ At("domain") /\ Read(Call("_find_surface_domain", 0, "found"))
       \/ At("found") /\ Then(Fail \/ Deal("navigate_to", 0, "walked"))
       \/ At("walked") /\ (IF ret = "failed" THEN Fail ELSE Call("_surface_candidate_at", 0, "verify"))
       \/ At("verify") /\ (IF ret = "yes" THEN Ok ELSE Fail)

(* Upwards through the cells around, natural stands and such as could be   *)
(* built.                                                                  *)
_find_surface_domain ==
    /\ In("_find_surface_domain")
    /\ \/ At("begin") /\ Here.n < MaxPolls /\ Call("_surface_candidate_at", 0, "cell")
       \/ At("cell") /\ (IF ret = "failed" THEN Fail ELSE Count("next"))
       \/ At("next") /\ (Ok \/ Goto("begin") \/ Call("_constructible_surface_column_at", 0, "column"))
       \/ At("column") /\ (IF ret = "failed" THEN Fail ELSE Goto("begin"))
       \/ At("begin") /\ Here.n = MaxPolls /\ Ok

_constructible_surface_column_at ==
    /\ In("_constructible_surface_column_at")
    /\ \/ At("begin") /\ Call("_standable_feet_at", 0, "stand")
       \/ At("stand") /\ (IF ret = "yes" THEN Goto("column") ELSE Return(ret))
       \/ At("column") /\ Read(Return("yes") \/ Return("no"))

search_for_block == In("search_for_block") /\ At("begin") /\ Read(Ok)

\* ----- placing -----------------------------------------------------------

(* The cell must be free (or a liquid, for a seal), the Body out of it,    *)
(* and governance agree.  x: what is placed.                               *)
Free == CASE Here.x = "pillar" -> world.lever
          [] Here.x = "seal" -> TRUE
          [] OTHER -> ~world[Here.x]

PlaceKind(x) == IF x \in {"pillar", "seal"} THEN <<x, "block">> ELSE <<"place", x>>

place_block ==
    /\ In("place_block")
    /\ \/ At("begin") /\ Read(IF Free THEN Native(PlaceKind(Here.x), "placed") ELSE Fail)
       \/ At("placed") /\ Return(ret)

(* Spots around the Body; where there is nothing to stand on, a pocket or  *)
(* head room is dug first, and the spots looked for again.  n: spots tried.*)
place_here_prepare ==
    /\ In("place_here")
    /\ \/ At("begin") /\ Read(Goto("spots") \/ Call("_recover_place_here_stand_position", 0, "pocket"))
       \/ At("pocket") /\ ret = "ok" /\ Read(Goto("spots") \/ Call("_recover_place_here_headroom", 0, "room"))
       \/ At("pocket") /\ ret = "none" /\ Call("_recover_place_here_headroom", 0, "room")
       \/ At("pocket") /\ ret = "failed" /\ Fail
       \/ At("room") /\ (IF ret = "ok" THEN Read(Goto("spots")) ELSE Fail)

place_here_spots ==
    /\ In("place_here")
    /\ \/ At("spots") /\ (IF Here.n < MaxPolls THEN Call("_approach_place_candidate", 0, "close") ELSE Fail)
       \/ At("close") /\ (IF ret = "ok" THEN Call("place_block", Here.x, "placed") ELSE Count("spots"))
       \/ At("placed") /\ ret = "ok" /\ Ok
       \/ At("placed") /\ ret # "ok" /\ (Return(ret) \/ Count("spots"))     \* retryable reasons

_approach_place_candidate ==
    /\ In("_approach_place_candidate")
    /\ \/ At("begin") /\ world.near /\ Ok
       \/ At("begin") /\ ~world.near /\ Here.n < MaxPolls /\ Deal("navigate_to", 0, "walked")
       \/ At("begin") /\ ~world.near /\ Here.n = MaxPolls /\ Fail
       \/ At("walked") /\ ret # "failed" /\ world.near /\ Ok
       \/ At("walked") /\ (ret # "failed" => ~world.near) /\ Count("begin")

\* Stands whose head room, or which themselves, may be dug free.
_recover_place_here_headroom ==
    /\ In("_recover_place_here_headroom")
    /\ \/ At("begin") /\ Read(Return("none") \/ (Here.n < MaxPolls /\ Call("mine_block", "site", "cleared")))
       \/ At("cleared") /\ (IF ret = "ok" THEN Ok ELSE Count("begin"))

_recover_place_here_stand_position ==
    /\ In("_recover_place_here_stand_position")
    /\ \/ At("begin") /\ Read(Return("none") \/ (Here.n < MaxPolls /\ Call("mine_block", "site", "cleared")))
       \/ At("cleared") /\ (IF ret = "ok" THEN Ok ELSE Count("begin"))

BlockStep ==
    \/ mine_block \/ _approach_mining_target \/ mine_block_dry \/ _approach_seal_face
    \/ _place_first_available_seal_block \/ mine_block_collect \/ _ensure_collect_pickaxe
    \/ dig_down_one \/ _fall_probe_after_opening \/ dig_down_to_y \/ _align_for_descent
    \/ _wait_for_descent \/ dig_up_one \/ dig_up_to_y
    \/ _standable_feet_at \/ _surface_candidate_at \/ egress_to_dry
    \/ go_to_surface_begin \/ go_to_surface_walk \/ _find_surface_domain
    \/ _constructible_surface_column_at \/ search_for_block
    \/ place_block \/ place_here_prepare \/ place_here_spots \/ _approach_place_candidate
    \/ _recover_place_here_headroom \/ _recover_place_here_stand_position

============================================================================
