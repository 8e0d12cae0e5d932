----------------------------- MODULE ItemWork ------------------------------
(***************************************************************************)
(* The transactions on items: the inventory (src/minebot/body/inventory.py *)
(* discarding, equipping, crafting with a workstation that is found or put *)
(* up for the purpose), containers (container.py) and furnaces             *)
(* (furnace.py: clearing, smelting, a temporary furnace).                  *)
(***************************************************************************)
EXTENDS Transaction

Hand == <<"ready", "hand">>   \* selectItem, or moving a stack aside

\* ----- inventory ---------------------------------------------------------

(* Dropping a unit at a time, or the whole slot, staged in the hotbar      *)
(* first where it has to be.  x: moves left, n: the total reported.        *)
discard_item ==
    /\ In("discard_item")
    /\ \/ At("begin") /\ Read(Fail \/ \E m \in 1..Asked : KeepCount("move", m, 0))
       \/ At("move") /\ Here.x > 0 /\ (Native(Hand, "staged") \/ Native(<<"dump", "slot">>, "dropped"))
       \/ At("staged") /\ Then(Native(<<"dump", "slot">>, "dropped"))
       \/ At("dropped") /\ Then(KeepCount("move", Here.x - 1, world.did))
       \/ At("move") /\ Here.x = 0 /\ Return(IF Here.n >= Asked THEN "ok" ELSE "partial")

(* To the main hand by selecting; to an armour slot by moving what is worn *)
(* aside and the item in, then looking whether it is there.                *)
equip_item ==
    /\ In("equip_item")
    /\ \/ /\ At("begin")
          /\ Read(\/ Native(<<"wear", "hand">>, "selected")
                  \/ (world.lever /\ Ok)            \* already_equipped
                  \/ Fail                           \* not available, no_swap_space
                  \/ Native(Hand, "staged") \/ Native(<<"wear", "armour">>, "moved"))
       \/ At("selected") /\ Return(ret)
       \/ At("staged") /\ Then(Native(<<"wear", "armour">>, "moved"))
       \/ At("moved") /\ Then(Read(IF world.lever THEN Ok ELSE Fail))

(* One native craft between two readings of the whole inventory; any slot  *)
(* that is not as planned afterwards leaves it unverified.  n: what a      *)
(* stray had put in before.                                                *)
craft_exact ==
    /\ In("craft_exact")
    /\ \/ At("begin") /\ Read(KeepCount("craft", Here.x, world.extra))
       \/ At("craft") /\ Native(<<"shift", "grid">>, "crafted")
       \/ At("crafted") /\ Then(Read(IF world.extra = Here.n THEN Ok ELSE Fail))

cleanup_crafting_residue ==
    /\ In("cleanup_crafting_residue")
    /\ \/ At("begin") /\ Read(\/ Ok                            \* already_clean, completed
                              \/ Fail                          \* crafting_residue_no_space
                              \/ (Here.n < MaxPolls /\ Native(Hand, "moved")))
       \/ At("moved") /\ Then(Count("begin"))

NewCraft(m) == [times |-> m, ws |-> "none", made |-> FALSE, fine |-> TRUE]

\* What the last call returned, noted with the rest.
Noted == [Here.x EXCEPT !.fine = @ /\ ret = "ok"]

(* Residue, inventory and recipe first; more than a batch is crafted by    *)
(* calls of craft_recipe itself.  x: batches and the results so far; n:    *)
(* batches done, or plans tried.                                           *)
craft_recipe_prepare ==
    /\ In("craft_recipe")
    /\ \/ At("begin") /\ Call("cleanup_crafting_residue", 0, "clean")
       \/ At("clean") /\ Then(Read(IF Here.x.times > 1 THEN Goto("batch") ELSE Goto("plan")))
       \/ At("batch") /\ (IF Here.n < Here.x.times THEN Call("craft_recipe", NewCraft(1), "batched") ELSE Ok)
       \/ At("batched") /\ Then(Count("batch"))
       \/ At("plan") /\ (Fail \/ Goto("craft") \/ Call("_resolve_crafting_workspace", 0, "space"))
       \/ At("space") /\ ret \in {"old", "temp"} /\ Keep("craft", [Here.x EXCEPT !.ws = ret])
       \/ At("space") /\ ret \notin {"old", "temp"} /\ Return(ret)

\* Mutant: any failed craft is planned anew, also one that may have happened.
PlanDriftedOrFailed == ret # "ok" /\ Here.n = 0

(* A craft that the client turned down because the inventory had drifted   *)
(* is planned anew, once.                                                  *)
PlanDrifted == ret = "refused" /\ Here.n = 0

(* Whatever came of the craft, the residue is moved, the table reclaimed   *)
(* unless it is to stay, and the product worn; if one of the four failed,  *)
(* that is the result.                                                     *)
craft_recipe_finish ==
    /\ In("craft_recipe")
    /\ \/ At("craft") /\ Call("craft_exact", 0, "crafted")
       \/ At("crafted") /\ PlanDrifted /\ (Count("craft") \/ Keep("tidy", Noted))
       \/ At("crafted") /\ ~PlanDrifted /\ Keep("tidy", [Noted EXCEPT !.made = (ret = "ok")])
       \/ At("tidy") /\ Call("cleanup_crafting_residue", 0, "tidied")
       \/ At("tidied") /\ Keep("reclaim", Noted)
       \/ At("reclaim") /\ Here.x.ws = "temp" /\ Keep("wear", [Here.x EXCEPT !.ws = "kept"])
       \/ At("reclaim") /\ Here.x.ws \in {"none", "old"} /\ Goto("wear")
       \/ At("reclaim") /\ Here.x.ws \in {"temp", "old"} /\ Deal("mine_block_collect", "site", "reclaimed")
       \/ At("reclaimed") /\ Keep("wear", Noted)
       \/ At("wear") /\ Goto("end")
       \/ At("wear") /\ Here.x.made /\ Call("equip_item", 0, "worn")
       \/ At("worn") /\ Keep("end", Noted)
       \/ At("end") /\ (IF Here.x.fine THEN Ok ELSE Fail)

(* A table that may be used and can be reached, or one put up here.        *)
_resolve_crafting_workspace ==
    /\ In("_resolve_crafting_workspace")
    /\ \/ At("begin") /\ (Goto("own") \/ (Here.n < MaxPolls /\ Deal("ensure_interaction_range", 0, "near")))
       \/ At("near") /\ ret = "ok" /\ Return("old")
       \/ At("near") /\ ret # "ok" /\ Count("begin")
       \/ At("own") /\ (Fail \/ Call("_prepare_hotbar_slot_for_item", 0, "slot"))
       \/ At("slot") /\ Then(Native(Hand, "held"))
       \/ At("held") /\ Then(Deal("place_here", "site", "placed"))
       \/ At("placed") /\ Then(Return("temp") \/ Fail)    \* crafting_table_place_unverified

_prepare_hotbar_slot_for_item ==
    /\ In("_prepare_hotbar_slot_for_item")
    /\ \/ At("begin") /\ Read(Ok \/ Native(Hand, "moved"))   \* not in inventory, hotbar or carry full
       \/ At("moved") /\ Return(ret)

\* ----- containers --------------------------------------------------------

(* As much of what is asked for as there is and as fits.                   *)
transfer_item ==
    /\ In("transfer_item")
    /\ \/ At("begin") /\ Read(\E m \in 1..Asked : KeepCount("move", m, 0))
       \/ At("move") /\ Here.x > 0 /\ Native(<<"shift", "container">>, "moved")
       \/ At("moved") /\ Then(KeepCount("move", Here.x - 1, world.did))
       \/ At("move") /\ Here.x = 0 /\ Return(IF Here.n >= Asked THEN "ok" ELSE "partial")

(* The nearest container that can be reached; a refusal by governance or   *)
(* no navigator ends it, a failed approach goes on to the next.            *)
transfer_nearest_container ==
    /\ In("transfer_nearest_container")
    /\ \/ At("begin") /\ Read(Goto("each"))
       \/ At("each") /\ (Fail \/ (Here.n < MaxPolls /\ Deal("ensure_interaction_range", 0, "near")))
       \/ At("near") /\ ret = "ok" /\ Call("transfer_item", 0, "end")
       \/ At("near") /\ ret # "ok" /\ (Return(ret) \/ Count("each"))
       \/ At("end") /\ Return(ret)

\* ----- furnaces ----------------------------------------------------------

(* Whether the two readings of furnace and inventory differ by the move:   *)
(* fuel may burn at once, so only the bot's side of it is compared.        *)
Verified(k) ==
    CASE k[1] = "load" -> world.oven # "empty"
      [] k[1] = "stoke" -> TRUE
      [] k[1] \in {"take", "unload"} -> world.oven = "empty" /\ world.extra = Here.n

transfer_slot ==
    /\ In("transfer_slot")
    /\ \/ At("begin") /\ Read(KeepCount("move", Here.x, world.extra))
       \/ At("move") /\ Native(Here.x, "moved")
       \/ At("moved") /\ Then(Read(IF Verified(Here.x) THEN Ok ELSE Fail))

clear_furnace ==
    /\ In("clear_furnace")
    /\ \/ At("begin") /\ Read(IF world.oven = "empty" THEN Ok
                              ELSE Call("transfer_slot", <<IF world.oven = "baked" THEN "take" ELSE "unload", "oven">>,
                                        "moved"))
       \/ At("moved") /\ Return(ret)

_smelt_preflight ==
    /\ In("_smelt_preflight")
    /\ At("begin") /\ Read(world.oven = "empty" /\ Ok)   \* not empty, no input, fuel or space

(* Input, fuel, then looking at the furnace until the product is there or  *)
(* the time is up; whatever goes wrong before, what was put in is taken    *)
(* back out.  Looking and sleeping never look at the cancellation.         *)
smelt_once ==
    /\ In("smelt_once")
    /\ \/ At("begin") /\ Call("_smelt_preflight", 0, "checked")
       \/ At("checked") /\ Then(Call("transfer_slot", <<"load", "oven">>, "loaded"))
       \/ At("loaded") /\ Then(Call("transfer_slot", <<"stoke", "oven">>, "stoked"))
       \/ At("stoked") /\ ret = "ok" /\ Goto("poll")
       \/ At("stoked") /\ ret # "ok" /\ Call("_reclaim_smelt_slots", 0, "undone")
       \/ At("poll") /\ Here.n < MaxPolls /\ (IF world.oven = "baked" THEN Goto("collect") ELSE Count("poll"))
       \/ At("poll") /\ Call("_reclaim_smelt_slots", 0, "undone")          \* smelt_poll_failed
       \/ At("poll") /\ Here.n = MaxPolls /\ Call("_collect_partial_output", 0, "partial")
       \/ At("partial") /\ Call("_reclaim_smelt_slots", 0, "undone")       \* smelt_timeout
       \/ At("undone") /\ Fail
       \/ At("collect") /\ Read(Call("transfer_slot", <<"take", "oven">>, "collected"))
       \/ At("collected") /\ Return(ret)

(* Each of the two slots on its own: what fails for one is noted, and the  *)
(* other is tried.                                                         *)
_reclaim_smelt_slots ==
    /\ In("_reclaim_smelt_slots")
    /\ \/ At("begin") /\ Here.n < 2 /\ Count("begin")
       \/ /\ At("begin") /\ Here.n < 2 /\ world.oven \in {"input", "lit"}
          /\ Call("transfer_slot", <<"unload", "oven">>, "moved")
       \/ At("moved") /\ Count("begin")
       \/ At("begin") /\ Here.n = 2 /\ Ok

_collect_partial_output ==
    /\ In("_collect_partial_output")
    /\ \/ At("begin") /\ Ok
       \/ At("begin") /\ world.oven = "baked" /\ Call("transfer_slot", <<"take", "oven">>, "moved")
       \/ At("moved") /\ Ok

(* The nearest furnace that can be reached, for what x says.               *)
nearest_furnace ==
    /\ In("nearest_furnace")
    /\ \/ At("begin") /\ Read(Goto("each"))
       \/ At("each") /\ (Fail \/ (Here.n < MaxPolls /\ Deal("ensure_interaction_range", 0, "near")))
       \/ At("near") /\ ret = "ok" /\ Call(Here.x, 0, "end")
       \/ At("near") /\ ret # "ok" /\ (Return(ret) \/ Count("each"))
       \/ At("end") /\ Return(ret)

(* Put up, used and mined again.  x: what came of the smelting.            *)
smelt_with_temporary_furnace ==
    /\ In("smelt_with_temporary_furnace")
    /\ \/ At("begin") /\ (Fail \/ Native(Hand, "held"))
       \/ At("held") /\ Then(Deal("place_block", "site", "placed"))
       \/ At("placed") /\ ret = "ok" /\ Call("smelt_once", 0, "smelted")
       \/ At("placed") /\ ret # "ok" /\ (Return("unplaced") \/ Fail)
       \/ At("smelted") /\ (Keep("reclaim", ret) \/ Keep("tool", ret))
       \/ At("tool") /\ Native(Hand, "tooled")
       \/ At("tooled") /\ Then(Goto("reclaim"))
       \/ At("reclaim") /\ Call("_reclaim_temporary_furnace", 0, "end")
       \/ At("end") /\ Return(IF Here.x = "ok" THEN "ok" ELSE "failed")

_reclaim_temporary_furnace ==
    /\ In("_reclaim_temporary_furnace")
    /\ \/ At("begin") /\ Deal("mine_block", "site", "mined")
       \/ At("mined") /\ ret # "ok" /\ Here.n = 0 /\ Count("begin")
       \/ At("mined") /\ Return(ret)

(* Sites around the Body in turn, while the furnace cannot be put down     *)
(* there; a placement that timed out counts as such.                       *)
smelt_with_nearby_temporary_furnace ==
    /\ In("smelt_with_nearby_temporary_furnace")
    /\ \/ At("begin") /\ Read(Goto("each"))
       \/ At("each") /\ Call("smelt_with_temporary_furnace", "none", "smelted")
       \/ At("smelted") /\ ret = "unplaced" /\ Here.n < MaxPolls /\ Count("each")
       \/ At("smelted") /\ (ret = "unplaced" => Here.n = MaxPolls) /\ Return(ret)

ItemStep ==
    \/ discard_item \/ equip_item \/ craft_exact \/ cleanup_crafting_residue
    \/ craft_recipe_prepare \/ craft_recipe_finish \/ _resolve_crafting_workspace
    \/ _prepare_hotbar_slot_for_item
    \/ transfer_item \/ transfer_nearest_container
    \/ transfer_slot \/ clear_furnace \/ _smelt_preflight \/ smelt_once
    \/ _reclaim_smelt_slots \/ _collect_partial_output \/ nearest_furnace
    \/ smelt_with_temporary_furnace \/ _reclaim_temporary_furnace
    \/ smelt_with_nearby_temporary_furnace

============================================================================
