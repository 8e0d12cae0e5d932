-------------------------- MODULE BodyTransactions -------------------------
(***************************************************************************)
(* One Body transaction from its call to its end, whichever it is, against *)
(* a client that may fail in every way it can and a world that moves on.   *)
(*                                                                         *)
(* A behaviour runs one transaction.  Within its own family of modules it  *)
(* runs to the last native action; what it asks of another family it takes *)
(* as Promise says, and PromisesKept checks that promise on the behaviours *)
(* in which the other one is the transaction that runs.                    *)
(***************************************************************************)
EXTENDS ItemWork, UseWork, FieldWork, BlockWork

VARIABLE entry   \* the transaction that runs: its name, argument and first world

allVars == <<vars, entry>>

\* ----- transactions and the worlds they start in -------------------------

Plain == [near |-> FALSE, there |-> FALSE, lever |-> FALSE, cell |-> FALSE, site |-> FALSE,
          drop |-> 0, bag |-> 0, did |-> 0, extra |-> 0, oven |-> "empty",
          under |-> "rock", hurt |-> FALSE, y |-> 2, hazard |-> FALSE, tried |-> FALSE]

Somewhere(b) == [Plain EXCEPT !.near = b]
Standing == [Plain EXCEPT !.cell = TRUE]
Floor == [Plain EXCEPT !.site = TRUE]

Anywhere(f) == {<<f, 0, Somewhere(b)>> : b \in BOOLEAN}
From(w, f) == {<<f, 0, w>>}

(* What a call of a tool starts: name, argument, first world.              *)
_discard_item_tool == From(Plain, "discard_item")
_equip_tool == From(Plain, "equip_item")
_craft_tool == {<<"craft_recipe", NewCraft(Asked), Plain>>}
_transfer_container_tool == From(Plain, "transfer_item") \cup From(Plain, "transfer_nearest_container")
_clear_furnace_tool ==
    {<<"clear_furnace", 0, [Plain EXCEPT !.oven = o]>> : o \in {"input", "baked"}} \cup
    {<<"nearest_furnace", "clear_furnace", Plain>>}

_consume_item_tool == Anywhere("consume_item")
_use_item_tool == Anywhere("use_item")
_use_on_entity_tool == Anywhere("use_on_entity")
_use_on_block_tool == Anywhere("use_on_block")
_set_openable_state_tool == Anywhere("set_openable_state")
_set_switch_state_tool == Anywhere("set_switch_state")
_go_to_bed_tool == Anywhere("go_to_bed")
_till_farmland_tool == Anywhere("till_farmland")
_sow_crop_tool == Anywhere("sow_crop")
_harvest_and_resow_tool == From(Standing, "harvest_and_resow")
_give_player_tool == Anywhere("give_player")
_search_for_entity_tool == Anywhere("search_for_entity")

_follow_tool == From(Plain, "follow_entity")
_engage_tool == From(Plain, "engage_entity")
_ranged_tool == From(Plain, "ranged_attack")
_move_away_tool == {<<"move_away", FALSE, [Plain EXCEPT !.there = b]>> : b \in BOOLEAN}
_get_to_block_tool == From(Standing, "get_to_block")
_pickup_items_tool == From([Plain EXCEPT !.drop = 1], "pickup_items")
_collect_block_domain_tool == {<<"collect_block_domain", NewDomain(Standing), Standing>>}
_explore_for_tool == {<<"explore_for", NewSearch, [Standing EXCEPT !.near = b]>> : b \in BOOLEAN}

_mine_collect_tool == {<<"mine_block_collect", "cell", Standing>>}
_place_block_tool == {<<"place_block", "cell", Plain>>}
_place_here_tool == {<<"place_here", "cell", Floor>>}
_search_tool == From(Plain, "search_for_block")
_dig_down_tool ==
    {<<"dig_down_to_y", [goal |-> 2 - Asked, floor |-> 2], [Floor EXCEPT !.near = TRUE, !.under = u]>> : u \in Strata} \cup
    {<<"dig_down_to_y", [goal |-> 2 - Asked, floor |-> h], [Plain EXCEPT !.y = h, !.site = (h > 2)]>> : h \in {0, 2, 3}}
_dig_up_tool == {<<"dig_up_to_y", 2 + Asked, [Standing EXCEPT !.y = h]>> : h \in 1..2}
_go_to_surface_tool == {<<"go_to_surface", b, [Plain EXCEPT !.there = c]>> : b \in BOOLEAN, c \in BOOLEAN}

(* What other transactions and the composed tools start.                   *)
Smelting ==
    {<<f, 0, Plain>> : f \in {"smelt_once", "smelt_with_nearby_temporary_furnace", "cleanup_crafting_residue"}} \cup
    {<<"nearest_furnace", "smelt_once", Plain>>}
Approaching ==
    Anywhere("ensure_interaction_range") \cup Anywhere("ensure_entity_range") \cup {<<"_enter_player_distance_band", FALSE, Plain>>}
Travelling ==
    {<<f, "free", [Plain EXCEPT !.hazard = b, !.tried = b /\ c]>> :
        b \in BOOLEAN, c \in BOOLEAN, f \in {"navigate_to", "navigate_objective", "follow_objective"}}
Recovering ==
    {<<"recover_after_death", 0, [Plain EXCEPT !.lever = b]>> : b \in BOOLEAN} \cup Anywhere("egress_to_dry")
Mining ==
    {<<"mine_block", "cell", Standing>>} \cup
    {<<"mine_block_dry", "cell", [Standing EXCEPT !.hazard = b]>> : b \in BOOLEAN}

ItemEntries ==
    _discard_item_tool \cup _equip_tool \cup _craft_tool \cup _transfer_container_tool \cup _clear_furnace_tool
    \cup Smelting
UseEntries ==
    _consume_item_tool \cup _use_item_tool \cup _use_on_entity_tool \cup _use_on_block_tool
    \cup _set_openable_state_tool \cup _set_switch_state_tool \cup _go_to_bed_tool \cup _till_farmland_tool
    \cup _sow_crop_tool \cup _harvest_and_resow_tool \cup _give_player_tool \cup _search_for_entity_tool
    \cup Approaching
FieldEntries ==
    _follow_tool \cup _engage_tool \cup _ranged_tool \cup _move_away_tool \cup _get_to_block_tool
    \cup _pickup_items_tool \cup _collect_block_domain_tool \cup _explore_for_tool
    \cup Travelling \cup {e \in Recovering : e[1] = "recover_after_death"}
BlockEntries ==
    _mine_collect_tool \cup _place_block_tool \cup _place_here_tool \cup _search_tool \cup _dig_down_tool
    \cup _dig_up_tool \cup _go_to_surface_tool \cup Mining \cup {e \in Recovering : e[1] = "egress_to_dry"}

Entries == [item |-> ItemEntries, use |-> UseEntries, field |-> FieldEntries, block |-> BlockEntries]

Init ==
    /\ \E k \in DOMAIN Entries : \E e \in Entries[k] :
          /\ entry = [family |-> k, fn |-> e[1], x |-> e[2], world |-> e[3]]
          /\ stack = <<Frame(e[1], e[2])>>
          /\ world = e[3]
    /\ ret = "none" /\ token = "live" /\ client = ClientStart /\ strays = 0

\* ----- the game and the others in it -------------------------------------

(* What the game does of itself: it bakes, an item near the Body is        *)
(* picked up, the Body falls through an open floor or back after a jump.   *)
Bake(w) == {[w EXCEPT !.oven = "baked"] : o \in {w.oven} \cap {"lit"}}
PickUp(w) == {[w EXCEPT !.bag = @ + 1, !.drop = 0] : d \in {w.drop} \cap {1}}
FallDown(w) ==
    IF entry.fn = "dig_down_to_y" /\ ~w.site /\ w.near
    THEN {[w EXCEPT !.y = @ - 1, !.site = TRUE, !.under = u, !.hurt = @ \/ w.under \in {"deep", "lava"}] : u \in Strata}
    ELSE {}
Land(w) == {[w EXCEPT !.lever = FALSE] : b \in {entry.fn = "dig_up_to_y" /\ w.lever} \cap {TRUE}}

Game ==
    /\ world' \in Bake(world) \cup FallDown(world) \cup Land(world) \cup
                  (IF world.near THEN PickUp(world) ELSE {})
    /\ UNCHANGED <<stack, ret, token, client, strays>>

(* What others do: put something into a slot or the furnace, push the Body *)
(* away or throw the switch, take the block or the drop, let lava in.      *)
Moved(w) ==
    CASE entry.family = "item" -> {[w EXCEPT !.extra = 1], [w EXCEPT !.oven = "empty"], [w EXCEPT !.lever = FALSE]}
      [] entry.family = "use" -> {[w EXCEPT !.near = FALSE], [w EXCEPT !.lever = ~@], [w EXCEPT !.cell = FALSE]}
      [] entry.family = "field" -> {[w EXCEPT !.near = FALSE], [w EXCEPT !.cell = FALSE], [w EXCEPT !.drop = 0],
                                   [w EXCEPT !.hazard = TRUE], [w EXCEPT !.there = FALSE]}
      [] OTHER -> {[w EXCEPT !.near = FALSE], [w EXCEPT !.cell = FALSE], [w EXCEPT !.under = "lava"],
                   [w EXCEPT !.there = FALSE]}

Stray ==
    /\ strays < MaxStrays /\ stack # <<>>
    /\ world' \in Moved(world) \ {world}
    /\ strays' = strays + 1
    /\ UNCHANGED <<stack, ret, token, client>>

\* The transaction has ended and nothing it started is left.
Ended == stack = <<>> /\ UNCHANGED vars

Transact ==
    \/ entry.family = "item" /\ ItemStep
    \/ entry.family = "use" /\ UseStep
    \/ entry.family = "field" /\ FieldStep
    \/ entry.family = "block" /\ BlockStep
    \/ _dispatch

Client == _run_action \/ LateEffect \/ confirm_control_idle

Next ==
    /\ Transact \/ Client \/ Game \/ Stray \/ cancel \/ Ended
    /\ UNCHANGED entry

(* The transaction's thread goes on.  Nothing makes the client, the game,  *)
(* the others or the supervisor do anything.                               *)
Spec == Init /\ [][Next]_allVars /\ WF_allVars(Transact /\ UNCHANGED entry)

\* ----- properties --------------------------------------------------------

Raised == {"timeout", "cancelled"}

\* The step in which the transaction returns, and what.
Returns(r) == stack # <<>> /\ stack' = <<>> /\ ret' = r /\ r \notin Raised

\* Nothing but the transaction has touched the world.
Alone == strays = 0

(* What the other families rely on when they call this one: under which    *)
(* name, and which part of the world it is about.                          *)
Contract ==
    [navigate_to |-> <<"navigate_to", {"near", "there"}>>,
     navigate_objective |-> <<"navigate_to", {"near", "there"}>>,
     ensure_interaction_range |-> <<"ensure_interaction_range", {"near"}>>,
     ensure_entity_range |-> <<"ensure_entity_range", {"near"}>>,
     place_block |-> <<"place_block", {"cell"}>>,
     place_here |-> <<"place_here", {"cell"}>>,
     mine_block |-> <<"mine_block", {"cell"}>>,
     mine_block_collect |-> <<"mine_block_collect", {"cell", "bag"}>>,
     pickup_items |-> <<"pickup", {"bag"}>>]

(* A transaction that returns leaves the world as Promise says for its     *)
(* result, which is all the transactions that call it know of it.          *)
PromisesKept ==
    [][\A r \in {"ok", "failed", "refused", "paused"} :
          Returns(r) /\ Alone /\ entry.fn \in DOMAIN Contract =>
             \E o \in Promise(Contract[entry.fn][1], entry.x, entry.world) :
                /\ o[2] = r
                /\ \A f \in Contract[entry.fn][2] : o[1][f] = world'[f]]_allVars

(* What the result "ok" of a transaction says about the world.             *)
Achieved(f, w) ==
    CASE f \in {"discard_item", "transfer_item", "transfer_nearest_container"} -> w.did >= Asked
      [] f = "craft_recipe" -> w.did >= entry.x.times
      [] f \in {"smelt_once", "smelt_with_nearby_temporary_furnace", "consume_item", "use_item",
                "use_on_entity", "give_player"} -> w.did >= 1
      [] f = "nearest_furnace" -> entry.x = "smelt_once" => w.did >= 1
      [] f = "clear_furnace" -> w.oven = "empty"
      [] f \in {"equip_item", "use_on_block", "set_openable_state", "set_switch_state", "go_to_bed",
                "till_farmland", "recover_after_death"} -> w.lever
      [] f \in {"sow_crop", "harvest_and_resow"} -> w.cell
      [] f \in {"search_for_entity", "_enter_player_distance_band", "egress_to_dry"} -> w.near
      [] f \in {"move_away", "follow_entity", "follow_objective", "go_to_surface"} -> w.there
      [] f = "get_to_block" -> w.cell /\ w.near
      [] f = "collect_block_domain" -> w.bag - entry.world.bag >= Asked
      [] f = "mine_block_dry" -> ~w.cell
      [] f = "dig_down_to_y" -> w.y <= entry.x.goal
      [] f = "dig_up_to_y" -> w.y >= entry.x
      [] OTHER -> TRUE

(* A transaction that reports success has brought about what it was asked  *)
(* for, whatever failed, was repeated or came late on the way.             *)
SuccessIsReal == [][Returns("ok") /\ Alone => Achieved(entry.fn, world')]_allVars

(* Nothing is handed over, dropped, crafted or smelted more often than was *)
(* asked for, but for what others put in: a failed step is not repeated    *)
(* when it may have had its effect.                                        *)
NeverMoreThanAsked == world.did <= Asked + strays

(* The client never runs two native actions: after a broken link or a      *)
(* timeout nothing new is started until the old one is known to have ended.*)
OneActionInClient ==
    ~ /\ client.run # Idle /\ ~Control(client.run)
      /\ client.late # Idle /\ ~Control(client.late)

(* Digging and mining do the Body no harm as long as nobody changes the    *)
(* ground between the look at it and the break.                            *)
SafeDigging == Alone => ~world.hurt

(* Every transaction ends, by a result or by raising, even if the client   *)
(* never answers: every wait and every loop has a bound of its own.        *)
TransactionsEnd == <>(stack = <<>>)

(* The scope a supervisor relies on.                                       *)
Due == (IF client.run # Idle THEN 1 ELSE 0) + (IF client.late # Idle THEN 1 ELSE 0)

Scope == INSTANCE TransactionScope WITH
            phase <- IF stack # <<>> THEN "running" ELSE IF ret \in Raised THEN "raised" ELSE "returned",
            cancelled <- (token = "cancelled"),
            due <- Due

(* The transactions implement TransactionScope: no native action is begun  *)
(* after the cancellation or the end, and a transaction ends once.         *)
ScopeKept == Scope!ScopeSpec

============================================================================
