------------------------------ MODULE UseWork ------------------------------
(***************************************************************************)
(* Getting within reach of a block or an entity                            *)
(* (src/minebot/body/interaction_support.py), using an item on it (use.py),*)
(* and what is made of that: doors, switches, beds, fields, players        *)
(* (interaction.py).                                                       *)
(***************************************************************************)
EXTENDS Transaction

Control0 == <<"ready", "controls">>   \* selecting, looking, stopping

\* ----- looking for targets -----------------------------------------------

(* Page after page of findBlocks until the scan is complete, its budget or *)
(* its pages are spent; a cursor that comes back is a failure.             *)
_read_find_blocks_pages ==
    /\ In("_read_find_blocks_pages")
    /\ At("begin")
    /\ \/ Read(Ok)
       \/ Here.n < MaxPolls /\ Count("begin")

\* Kind after kind; the nearest of all matches is the target.
find_nearby_block_search ==
    /\ In("find_nearby_block_search")
    /\ \/ At("begin") /\ Here.n < MaxPolls /\ Call("_read_find_blocks_pages", 0, "page")
       \/ At("page") /\ Then(Count("begin"))
       \/ At("begin") /\ Here.n > 0 /\ (Ok \/ Fail)

find_entity_target == In("find_entity_target") /\ At("begin") /\ Read(Ok)

\* The entity found again must be the one the approach was made to.
refresh_entity_target ==
    /\ In("refresh_entity_target")
    /\ \/ At("begin") /\ Call("find_entity_target", 0, "found")
       \/ At("found") /\ Then(Ok \/ Fail)

\* ----- getting within reach ----------------------------------------------

\* Mutant: the walk's word is taken for being within reach.
ensure_interaction_range_unmeasured ==
    /\ In("ensure_interaction_range")
    /\ \/ At("begin") /\ world.near /\ Ok
       \/ At("begin") /\ Read(Deal("navigate_to", 0, "walked"))
       \/ At("walked") /\ (IF ret = "failed" THEN Fail ELSE Ok)

(* A stand point around the target, walked to, centred on where asked;     *)
(* then the distance is measured again: arriving, or pausing on the way,   *)
(* is not being within reach.                                              *)
ensure_interaction_range ==
    /\ In("ensure_interaction_range")
    /\ \/ At("begin") /\ world.near /\ Ok
       \/ At("begin") /\ Read(Deal("navigate_to", 0, "walked"))
       \/ At("walked") /\ ret = "failed" /\ Fail
       \/ At("walked") /\ ret # "failed" /\ (Goto("check") \/ Call("move_to_block_center", 0, "centred"))
       \/ At("centred") /\ (IF ret = "ok" THEN Goto("check") ELSE Fail)
       \/ At("check") /\ (IF world.near THEN Ok ELSE Fail)

move_to_block_center ==
    /\ In("move_to_block_center")
    /\ \/ At("begin") /\ Native(<<"go", "centre">>, "moved")
       \/ At("moved") /\ Then(Ok \/ Call("_stop_body_controls", 0, "stopped"))
       \/ At("stopped") /\ Return(ret)

_stop_body_controls ==
    /\ In("_stop_body_controls")
    /\ \/ At("begin") /\ Native(Control0, "stopped")
       \/ At("stopped") /\ Return(ret)

(* The same for an entity, between a least and a greatest distance.        *)
ensure_entity_range ==
    /\ In("ensure_entity_range")
    /\ \/ At("begin") /\ world.near /\ Ok
       \/ At("begin") /\ ~world.near /\ Read(Deal("navigate_to", 0, "walked"))
       \/ At("walked") /\ (IF ret # "failed" /\ world.near THEN Ok ELSE Fail)

\* ----- using an item -----------------------------------------------------

(* n: what had been brought about before the use.  A full stomach is a     *)
(* success without an effect.                                              *)
consume_item ==
    /\ In("consume_item")
    /\ \/ At("begin") /\ Read(Native(Control0, "held"))
       \/ At("held") /\ Then(Native(<<"eat", "item">>, "used"))
       \/ At("used") /\ Read(IF world.did > 0 THEN Ok ELSE Return("already"))

use_item ==
    /\ In("use_item")
    /\ \/ At("begin") /\ Read(Native(Control0, "held"))
       \/ At("held") /\ Then(Goto("use") \/ Native(Control0, "looked"))
       \/ At("looked") /\ Then(Goto("use"))
       \/ At("use") /\ Native(<<"eat", "item">>, "used")
       \/ At("used") /\ (IF ret = "ok" THEN Call("_await_position_delta", 0, "settled") ELSE Goto("settled"))
       \/ At("settled") /\ Read(world.did > 0 /\ Ok)

_await_position_delta ==
    /\ In("_await_position_delta")
    /\ At("begin")
    /\ IF world.did = 0 /\ Here.n < MaxPolls THEN Count("begin") ELSE Ok

(* A use whose effect was not seen is looked for once more in the          *)
(* properties of the entity.                                               *)
use_on_entity ==
    /\ In("use_on_entity")
    /\ \/ At("begin") /\ Call("find_entity_target", 0, "found")
       \/ At("found") /\ Then(Call("ensure_entity_range", 0, "near"))
       \/ At("near") /\ Then(Call("refresh_entity_target", 0, "fresh"))
       \/ At("fresh") /\ Then(Call("use_item", 0, "used"))
       \/ At("used") /\ Return(IF ret = "failed" /\ world.did > 0 THEN "ok" ELSE ret)

(* Controls stopped, the look turned, the item used, the target read: "on" *)
(* as wanted, "off" unchanged after a click that counted or had no effect, *)
(* "bad" unchanged after one that failed.                                  *)
Observed == IF world.lever THEN "on" ELSE IF ret \in {"ok", "refused"} THEN "off" ELSE "bad"

_attempt_block_use ==
    /\ In("_attempt_block_use")
    /\ \/ At("begin") /\ Call("_stop_body_controls", 0, "still")
       \/ At("still") /\ Then(Native(Control0, "looked"))
       \/ At("looked") /\ Then(Native(<<"use", "block">>, "used"))
       \/ At("used") /\ Read(Return(Observed))

_attempt_fire_ignite ==
    /\ In("_attempt_fire_ignite")
    /\ \/ At("begin") /\ Native(<<"use", "fire">>, "used")
       \/ At("used") /\ Read(Return(Observed))

(* The server may show the new properties a moment after the click.        *)
_settle_expected_block_properties ==
    /\ In("_settle_expected_block_properties")
    /\ At("begin")
    /\ \/ Here.n < MaxPolls /\ Read(IF world.lever THEN Return("on") ELSE Count("begin"))
       \/ Here.n = MaxPolls /\ Return("off")

use_on_block_prepare ==
    /\ In("use_on_block")
    /\ \/ At("begin") /\ Read(\/ world.lever /\ Ok             \* already_in_expected_state
                              \/ ~world.lever /\ (Native(Control0, "held") \/ Goto("approach")))
       \/ At("held") /\ OkThen("approach")
       \/ At("approach") /\ Call("ensure_interaction_range", 0, "close")
       \/ At("close") /\ Then(Read(Goto("try")))

(* One more try from another stand point when the click changed nothing.   *)
MayRetry == Here.n = 0

use_on_block_attempt ==
    /\ In("use_on_block")
    /\ \/ At("try") /\ (Call("_attempt_block_use", 0, "tried") \/ Call("_attempt_fire_ignite", 0, "tried"))
       \/ At("tried") /\ ret = "on" /\ Read(Ok)
       \/ At("tried") /\ ret = "off" /\ Call("_settle_expected_block_properties", 0, "settled")
       \/ At("tried") /\ ret \notin {"on", "off"} /\ Fail
       \/ At("settled") /\ ret = "on" /\ Read(Ok)
       \/ At("settled") /\ ret = "off" /\ MayRetry /\ Call("_recover_line_of_sight", 0, "moved")
       \/ At("settled") /\ (ret = "off" => ~MayRetry) /\ Fail
       \/ At("moved") /\ (IF ret = "ok" THEN Count("try") ELSE Fail)

_recover_line_of_sight ==
    /\ In("_recover_line_of_sight")
    /\ \/ At("begin") /\ Read(Deal("navigate_to", 0, "walked"))
       \/ At("walked") /\ ret = "failed" /\ Fail
       \/ At("walked") /\ ret # "failed" /\ (Ok \/ Call("_move_to_stand_center", 0, "centred"))
       \/ At("centred") /\ Return(ret)

_move_to_stand_center ==
    /\ In("_move_to_stand_center")
    /\ \/ At("begin") /\ Native(<<"go", "centre">>, "moved")
       \/ At("moved") /\ Then(Call("_stop_body_controls", 0, "stopped"))
       \/ At("stopped") /\ Return(ret)

(* The crop stands and one seed is gone, or it is no success.              *)
_sow_crop_on_farmland ==
    /\ In("_sow_crop_on_farmland")
    /\ \/ At("begin") /\ Read(Native(<<"place", "cell">>, "sown"))
       \/ At("sown") /\ Read(world.cell /\ Ok)

\* ----- doors, switches, beds ---------------------------------------------

_resolve_block_target ==
    /\ In("_resolve_block_target")
    /\ \/ At("begin") /\ (Read(Ok) \/ Call("find_nearby_block_search", 0, "found"))
       \/ At("found") /\ Return(ret)

_approach_openable_target ==
    /\ In("_approach_openable_target")
    /\ \/ At("begin") /\ world.near /\ Ok                 \* no navigator
       \/ At("begin") /\ Read(Deal("navigate_to", 0, "walked"))
       \/ At("walked") /\ ret = "failed" /\ Fail
       \/ At("walked") /\ ret # "failed" /\ (Goto("check") \/ Call("_move_to_bed_use_stance", 0, "centred"))
       \/ At("centred") /\ OkThen("check")
       \/ At("check") /\ (IF world.near THEN Ok ELSE Fail)

set_openable_state ==
    /\ In("set_openable_state")
    /\ \/ At("begin") /\ Call("_resolve_block_target", 0, "target")
       \/ At("target") /\ Then(\/ world.lever /\ Ok
                               \/ ~world.lever /\ Read(Call("_approach_openable_target", 0, "near")))
       \/ At("near") /\ Then(Call("use_on_block", 0, "used"))
       \/ At("used") /\ Return(ret)

(* A button goes out by itself; it is waited for, not pressed.             *)
set_switch_state ==
    /\ In("set_switch_state")
    /\ \/ At("begin") /\ Call("_resolve_block_target", 0, "target")
       \/ At("target") /\ Then(\/ world.lever /\ Ok
                               \/ ~world.lever /\ Read(\/ Call("use_on_block", 0, "used")
                                                       \/ Call("_wait_for_switch_state", 0, "used")))
       \/ At("used") /\ Return(ret)

_wait_for_switch_state ==
    /\ In("_wait_for_switch_state")
    /\ At("begin")
    /\ Read(Here.n < MaxPolls /\ (IF world.lever THEN Ok ELSE Count("begin")))

(* The distance is not measured again after the walk to a bed.             *)
_approach_bed_target ==
    /\ In("_approach_bed_target")
    /\ \/ At("begin") /\ world.near /\ Ok
       \/ At("begin") /\ Read(Deal("navigate_to", 0, "walked"))
       \/ At("walked") /\ ret = "failed" /\ Fail
       \/ At("walked") /\ ret # "failed" /\ (Ok \/ Call("_move_to_bed_use_stance", 0, "centred"))
       \/ At("centred") /\ Return(ret)

_move_to_bed_use_stance ==
    /\ In("_move_to_bed_use_stance")
    /\ \/ At("begin") /\ Native(<<"go", "centre">>, "moved")
       \/ At("moved") /\ Return(ret)

go_to_bed ==
    /\ In("go_to_bed")
    /\ \/ At("begin") /\ world.lever /\ Ok                 \* already_sleeping
       \/ At("begin") /\ ~world.lever /\ Call("find_nearby_block_search", 0, "found")
       \/ At("found") /\ Then(Read(Call("_approach_bed_target", 0, "near")))
       \/ At("near") /\ Then(Read(Native(Control0, "looked")))
       \/ At("looked") /\ Then(Native(<<"use", "bed">>, "used"))
       \/ At("used") /\ (IF world.lever THEN Ok ELSE Fail)

\* ----- fields ------------------------------------------------------------

till_farmland ==
    /\ In("till_farmland")
    /\ \/ At("begin") /\ Read((world.lever /\ Ok) \/ Call("_resolve_block_target", 0, "target"))
       \/ At("target") /\ Then(Read(Call("use_on_block", 0, "used")))
       \/ At("used") /\ Return(ret)

sow_crop ==
    /\ In("sow_crop")
    /\ \/ At("begin") /\ Read(Native(Control0, "held"))
       \/ At("held") /\ Then(Read(Call("ensure_interaction_range", 0, "near")))
       \/ At("near") /\ Then(Call("_sow_crop_on_farmland", 0, "sown"))
       \/ At("sown") /\ Return(ret)

harvest_and_resow ==
    /\ In("harvest_and_resow")
    /\ \/ At("begin") /\ Read(world.cell /\ Deal("mine_block_collect", "cell", "harvested"))
       \/ At("harvested") /\ Then(Read(Goto("sow") \/ Deal("navigate_to", 0, "back")))
       \/ At("back") /\ (IF ret = "failed" THEN Fail ELSE Goto("sow"))
       \/ At("sow") /\ Call("sow_crop", 0, "sown")
       \/ At("sown") /\ Return(ret)

\* ----- players and other entities ----------------------------------------

(* Up to the player, found again, closer if they went off, then the item   *)
(* handed over and its pick-up waited for.                                 *)
give_player ==
    /\ In("give_player")
    /\ \/ At("begin") /\ Call("find_entity_target", 0, "found")
       \/ At("found") /\ Then(Call("ensure_entity_range", 0, "near"))
       \/ At("near") /\ Then(Call("refresh_entity_target", 0, "fresh"))
       \/ At("fresh") /\ Then(IF world.near THEN Goto("look") ELSE Call("ensure_entity_range", 0, "nearer"))
       \/ At("nearer") /\ Then(Call("refresh_entity_target", 0, "fresher"))
       \/ At("fresher") /\ Then(Goto("look"))
       \/ At("look") /\ Native(Control0, "looked")
       \/ At("looked") /\ Then(Native(<<"shift", "receiver">>, "handed"))
       \/ At("handed") /\ Then(Ok \/ Call("_await_pickup", 0, "taken"))
       \/ At("taken") /\ Return(ret)

_await_pickup ==
    /\ In("_await_pickup")
    /\ At("begin")
    /\ \/ Here.n < MaxPolls /\ (Ok \/ Count("begin"))
       \/ Here.n = MaxPolls /\ Return("unconfirmed")

(* The band is entered and kept for a number of checks; the last of them   *)
(* decides.  x: whether it found the player in the band.                   *)
_enter_player_distance_band ==
    /\ In("_enter_player_distance_band")
    /\ \/ At("begin") /\ Here.n < MaxPolls /\ Call("find_entity_target", 0, "found")
       \/ At("found") /\ Then(Call("ensure_entity_range", 0, "near"))
       \/ At("near") /\ Then(Call("refresh_entity_target", 0, "fresh"))
       \/ At("fresh") /\ Then(KeepCount("begin", world.near, Here.n + 1))
       \/ At("begin") /\ Here.n = MaxPolls /\ (IF Here.x THEN Ok ELSE Fail)

search_for_entity ==
    /\ In("search_for_entity")
    /\ \/ At("begin") /\ Call("find_entity_target", 0, "found")
       \/ At("found") /\ Then(Call("ensure_entity_range", 0, "near"))
       \/ At("near") /\ Then(Call("refresh_entity_target", 0, "fresh"))
       \/ At("fresh") /\ Then(IF world.near THEN Ok ELSE Fail)

UseStep ==
    \/ _read_find_blocks_pages \/ find_nearby_block_search \/ find_entity_target
    \/ refresh_entity_target \/ ensure_interaction_range \/ move_to_block_center
    \/ _stop_body_controls \/ ensure_entity_range
    \/ consume_item \/ use_item \/ _await_position_delta \/ use_on_entity
    \/ _attempt_block_use \/ _attempt_fire_ignite \/ _settle_expected_block_properties
    \/ use_on_block_prepare \/ use_on_block_attempt \/ _recover_line_of_sight
    \/ _move_to_stand_center \/ _sow_crop_on_farmland
    \/ _resolve_block_target \/ _approach_openable_target \/ set_openable_state
    \/ set_switch_state \/ _wait_for_switch_state \/ _approach_bed_target
    \/ _move_to_bed_use_stance \/ go_to_bed
    \/ till_farmland \/ sow_crop \/ harvest_and_resow
    \/ give_player \/ _await_pickup \/ _enter_player_distance_band \/ search_for_entity

============================================================================
