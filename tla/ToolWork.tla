----------------------------- MODULE ToolWork ------------------------------
(***************************************************************************)
(* The tools that are more than one Body transaction: the compositions     *)
(* collect_resource, ensure_item and ensure_tool_for                       *)
(* (src/minebot/brain/composition.py), the smelting, travelling and digging*)
(* tools and the recovery of the Body after a death                        *)
(* (src/minebot/app/phase1_runtime.py, body_capability_tools.py).          *)
(*                                                                         *)
(* They run on the call stack of Transaction.  Of the transactions they    *)
(* call they know the result; what may have become of the pack and of the  *)
(* workstations by then is said by the operators below.  world.pack counts *)
(* the items carried; world.table is "near" or "left" while a crafting     *)
(* table the Body put up stands; world.site: a furnace stands within       *)
(* reach; world.there: the Body is on the surface; world.lever: it is      *)
(* spawned; world.hazard: where it stands it cannot stay.                  *)
(***************************************************************************)
EXTENDS Transaction, Acquisition

CONSTANT MaxDepth   \* how deep ensure_item lets the planner go

ASSUME DepthAssumption == MaxDepth \in Nat

\* ----- what the transactions do to pack and workstations -----------------

(* Collecting walks away from where the Body was.  What asks for a better  *)
(* pickaxe than there is does not drop, and what the process reports need  *)
(* not be what has come into the pack.                                     *)
Collected(item, n, w) ==
    LET route == COLLECT_ROUTES[item]
        most == IF best_owned_pickaxe(w.pack) >= route.tier THEN n ELSE 0
        Off(p) == [w EXCEPT !.pack = p, !.table = IF @ = "near" THEN "left" ELSE @, !.site = FALSE,
                            !.there = (item \notin {"raw_iron"})]
    IN  {<<Off(Gain(w.pack, d, c)), r>> : d \in route.drops, c \in {0, most}, r \in {"ok", "failed"}}

(* What may be left of the pack once the ingredients are taken, unit by    *)
(* unit, each time from the largest stack that will do: no stack gives     *)
(* while another of its group is larger.  Of two as large the one in the   *)
(* lower slot gives, which may be either.  Nothing is left to choose when  *)
(* the ingredients do not suffice.                                         *)
_allocate_recipe_inputs(variant, crafts, pack) ==
    LET groups == Range(variant.groups)
        units == [g \in groups |-> crafts * Cardinality({i \in 1..Len(variant.groups) : variant.groups[i] = g})]
        Fair(t, g) ==
            /\ FoldFunctionOnSet(+, 0, t, g) = units[g]
            /\ \A i, j \in g : t[i] > 0 => pack[i] - t[i] + 1 >= pack[j] - t[j]
        takes == {t \in [UNION groups -> 0..crafts * Len(variant.groups)] :
                     (\A i \in UNION groups : t[i] <= pack[i]) /\ \A g \in groups : Fair(t, g)}
    IN  {[i \in Items |-> pack[i] - Get(t, i)] : t \in takes}

(* Crafting: at a table that stands near, or at one that is carried and    *)
(* put up.  The table is taken up again unless it is to be kept; one that  *)
(* stood there only when it is to be cleaned up.                           *)
Crafted(item, n, keep, clean, w) ==
    LET variant == Recipes[item][1]
        crafts == Ceil(n, variant.out)
        made == {Gain(p, item, crafts * variant.out) : p \in _allocate_recipe_inputs(variant, crafts, w.pack)}
        tabled == w.table = "near"
        Standing(p) == [w EXCEPT !.pack = Gain(p, "crafting_table", IF tabled THEN 0 ELSE -1), !.table = "near"]
        Cleared(p) == [w EXCEPT !.pack = Gain(p, "crafting_table", IF tabled THEN 1 ELSE 0),
                                !.table = IF tabled THEN "none" ELSE @]
        cleared == IF tabled THEN clean ELSE ~keep
    IN  {<<w, "failed">>} \cup
        (CASE made = {} \/ (variant.table /\ ~tabled /\ w.pack["crafting_table"] = 0) -> {}
           [] ~variant.table -> {<<[w EXCEPT !.pack = p], "ok">> : p \in made}
           [] OTHER -> {<<IF cleared THEN Cleared(p) ELSE Standing(p), "ok">> : p \in made} \cup
                       {<<Standing(p), "failed">> : p \in made \cup {w.pack}})

(* Smelting at a furnace that stands near, or at one that is carried, put  *)
(* up and taken up again; that it could not be taken up is no failure.     *)
Smelted(x, up, w) ==
    LET after == Gain(Gain(Gain(w.pack, x.input, -x.n), x.fuel[1], -x.fuel[2]),
                      CHOOSE i \in DOMAIN SMELT_ROUTES : SMELT_ROUTES[i] = x.input, x.n)
        enough == Get(w.pack, x.input) >= x.n + (IF x.fuel[1] = x.input THEN x.fuel[2] ELSE 0)
    IN  CASE ~up -> {<<w, "failed">>} \cup {<<[w EXCEPT !.pack = after], "ok">> : b \in {w.site /\ enough} \cap {TRUE}}
          [] up /\ ~w.there -> {<<w, "no_site">>, <<w, "failed">>}
          [] OTHER -> {<<w, "failed">>, <<[w EXCEPT !.pack = Gain(@, "furnace", -1), !.site = TRUE], "failed">>} \cup
                      {<<v, "ok">> : v \in IF enough THEN {[w EXCEPT !.pack = after],
                                                           [w EXCEPT !.pack = Gain(after, "furnace", -1), !.site = TRUE]}
                                           ELSE {}}

Equipped(item, w) == {<<w, "failed">>} \cup {<<w, "ok">> : b \in {w.pack[item] > 0} \cap {TRUE}}

Surfaced(w) == {<<[w EXCEPT !.there = TRUE], "ok">>, <<w, "failed">>}

\* ----- smelt_item --------------------------------------------------------

NewSmelt(input, n) == [input |-> input, n |-> n, fuel |-> <<"none", 0>>]

(* The fuel is chosen from what is carried; a furnace near, and if that    *)
(* fails for now and one is carried, that one.                             *)
_run_smelt_tool ==
    /\ In("smelt_item")
    /\ \/ At("begin") /\ Here.x.n > 16 /\ Fail
       \/ /\ At("begin") /\ Here.x.n <= 16
          /\ Read(LET fuel == _select_fuel(world.pack, Here.x.n * SMELT_SECONDS_PER_ITEM)
                  IN  IF fuel[1] = "none" THEN Fail
                      ELSE KeepCount("near", [Here.x EXCEPT !.fuel = fuel], world.pack["furnace"]))
       \/ At("near") /\ Contracted(Smelted(Here.x, FALSE, world), "smelted")
       \/ At("smelted") /\ ret # "ok" /\ Here.n > 0 /\ Contracted(Smelted(Here.x, TRUE, world), "end")
       \/ At("smelted") /\ Return(ret)
       \/ At("end") /\ Return(ret)

\* ----- collect_resource --------------------------------------------------

NewCollect(item, count, auto) == [item |-> item, count |-> count, auto |-> auto]

_read_count(items, w) ==
    FoldLeft(+, 0, [i \in 1..Cardinality(items) |-> Get(w.pack, SetToSeq(items)[i])])

_resource_plan(item) == COLLECT_ROUTES[item]

_collect_prerequisite_tool(plan, pack) ==
    IF best_owned_pickaxe(pack) >= plan.tier THEN "none" ELSE PICKAXE_BY_TIER[plan.tier]

CollectedEnough(x) == _read_count(_resource_plan(x.item).drops, world) >= x.count

(* Mutant: what the resource process reports is taken for the count.       *)
CollectedAsReported(x) == ret = "ok"

(* Whether the pack holds what was asked for; a native process must also   *)
(* have said so.                                                           *)
CollectionComplete(x) == CollectedEnough(x)

NewEnsure(item, n, equip) == [item |-> item, count |-> n, equip |-> equip, plan |-> <<>>, i |-> 0, before |-> 0]

(* The tool the resource asks for first, whose making may bring enough in; *)
(* then one bounded resource process for what is missing.  The pack has    *)
(* the last word.                                                          *)
collect_resource ==
    /\ In("collect_resource")
    /\ LET x == Here.x   tool == _collect_prerequisite_tool(_resource_plan(x.item), world.pack)
       IN  \/ /\ At("begin")
              /\ Read(IF CollectedEnough(x) THEN Ok
                      ELSE IF x.auto /\ tool # "none" THEN Call("ensure_item", NewEnsure(tool, 1, FALSE), "armed")
                      ELSE Goto("work"))
           \/ At("armed") /\ Then(Read(IF CollectedEnough(x) THEN Ok ELSE Goto("work")))
           \/ At("work") /\ Contracted(Collected(x.item,
                              x.count - _read_count(_resource_plan(x.item).drops, world), world), "worked")
           \/ At("worked") /\ Read(IF CollectionComplete(x) THEN Ok \/ (ret # "ok" /\ Fail) ELSE Fail)

\* ----- ensure_item -------------------------------------------------------

TableCraft(s) == s.kind = "craft" /\ s.table

_last_table_craft_index(plan) ==
    LET at == {i \in 1..Len(plan) : TableCraft(plan[i])}
    IN  IF at = {} THEN 0 ELSE CHOOSE i \in at : \A j \in at : j <= i

\* Mutant: the table stays up as long as another craft at a table follows.
KeptWhileNeeded(plan, i) == TableCraft(plan[i]) /\ i <= _last_table_craft_index(plan)

(* The table stays up when the next craft at a table follows without the   *)
(* Body having to go anywhere.                                             *)
_should_keep_workstation(plan, i) ==
    /\ TableCraft(plan[i]) /\ i < _last_table_craft_index(plan)
    /\ LET next == CHOOSE j \in i+1..Len(plan) : TableCraft(plan[j]) /\ \A k \in i+1..j-1 : ~TableCraft(plan[k])
       IN  \A k \in i+1..next-1 : plan[k].kind \in {"craft", "equip"}

_should_cleanup_workstation(plan, i) == TableCraft(plan[i]) /\ ~_should_keep_workstation(plan, i)

(* What a step's success is measured by.                                   *)
_acquisition_step_inventory_count(s, w) ==
    CASE s.kind = "equip" -> s.count
      [] s.kind = "collect" -> _read_count(COLLECT_ROUTES[s.item].drops, w)
      [] OTHER -> w.pack[s.item]

NewStep(x) ==
    [step |-> x.plan[x.i], before |-> x.before,
     keep |-> _should_keep_workstation(x.plan, x.i), clean |-> _should_cleanup_workstation(x.plan, x.i)]

(* A furnace without a place to stand: up to the surface and once again.   *)
_execute_acquisition_step ==
    /\ In("_execute_acquisition_step")
    /\ LET s == Here.x.step
       IN  \/ /\ At("begin") /\ s.kind = "collect"
              /\ Call("collect_resource", NewCollect(s.item, Here.x.before + s.count, FALSE), "end")
           \/ /\ At("begin") /\ s.kind = "craft"
              /\ Contracted(Crafted(s.item, s.count, Here.x.keep, Here.x.clean, world), "end")
           \/ At("begin") /\ s.kind = "equip" /\ Contracted(Equipped(s.item, world), "end")
           \/ At("begin") /\ s.kind = "smelt" /\ Call("smelt_item", NewSmelt(s.input, s.inputs), "smelted")
           \/ At("smelted") /\ ret # "no_site" /\ Return(ret)
           \/ At("smelted") /\ ret = "no_site" /\ Contracted(Surfaced(world), "surfaced")
           \/ At("surfaced") /\ Then(Call("smelt_item", NewSmelt(s.input, s.inputs), "end"))
           \/ At("end") /\ Return(ret)

\* The plan, and equipping at its end when that was asked for.
Planned(x) ==
    LET p == resolve_acquisition(x.item, x.count, world.pack, MaxDepth)
        last == <<Step("equip", x.item, 1)>>
    IN  [error |-> p.error,
         steps |-> IF x.equip /\ ~(\E i \in 1..Len(p.steps) : p.steps[i].replan) THEN p.steps \o last ELSE p.steps]

(* Mutant: the rest is planned anew after every step.                      *)
ReplannedAlways(s) == TRUE

ReplanAfter(s) == s.replan

(* Planning from what is carried; it fails when there is no plan, when the *)
(* pack cannot be read, or when max_wall_s has passed.                     *)
ensure_item_plan ==
    /\ In("ensure_item") /\ At("begin")
    /\ \/ Fail
       \/ \E plan \in {Planned(Here.x)} :
             /\ plan.error = "none"
             /\ IF plan.steps = <<>> THEN Ok
                ELSE Keep("step", [Here.x EXCEPT !.plan = plan.steps, !.i = 1])

(* A step counts as done only if the pack shows it.                        *)
StepShown(x) ==
    LET s == x.plan[x.i]
    IN  _acquisition_step_inventory_count(s, world) >= x.before + (IF s.kind = "equip" THEN 0 ELSE s.count)

(* The steps in turn, each between two readings of the pack.               *)
ensure_item_steps ==
    /\ In("ensure_item")
    /\ LET x == Here.x   s == x.plan[x.i]
       IN  \/ /\ At("step") /\ x.i <= Len(x.plan)
              /\ Read(Keep("act", [x EXCEPT !.before = _acquisition_step_inventory_count(s, world)]))
           \/ At("act") /\ Call("_execute_acquisition_step", NewStep(x), "acted")
           \/ /\ At("acted")
              /\ Then(Read(IF ~StepShown(x) THEN Fail
                           ELSE IF ReplanAfter(s) THEN Keep("begin", [x EXCEPT !.i = 0])
                           ELSE Keep("step", [x EXCEPT !.i = @ + 1])))
           \/ /\ At("step") /\ x.i > Len(x.plan)
              /\ Read(IF Get(world.pack, x.item) >= x.count THEN Ok ELSE Fail)

(* The pickaxe a resource asks for, or the item itself; held at the end if *)
(* it is a pickaxe.                                                        *)
_ensure_target_for(resource) ==
    IF resource \in DOMAIN COLLECT_ROUTES /\ COLLECT_ROUTES[resource].tier > 0
    THEN PICKAXE_BY_TIER[COLLECT_ROUTES[resource].tier]
    ELSE resource

ensure_tool_for ==
    /\ In("ensure_tool_for")
    /\ LET target == _ensure_target_for(Here.x)
       IN  \/ At("begin") /\ Call("ensure_item", NewEnsure(target, 1, target \in Range(PICKAXE_BY_TIER)), "end")
           \/ At("end") /\ Return(ret)

\* ----- travelling and digging --------------------------------------------

(* An objective of the client: whatever goes wrong with it is a failure of *)
(* the tool, a timeout too.                                                *)
_move_to_tool ==
    /\ In("move_to")
    /\ \/ At("begin") /\ Native(<<"go", "goal">>, "gone")
       \/ At("gone") /\ Return(IF ret = "ok" THEN "ok" ELSE "failed")

_java_ascend ==
    /\ In("_java_ascend")
    /\ \/ At("begin") /\ Native(<<"ascend", "surface">>, "risen")
       \/ At("risen") /\ Return(IF ret = "ok" THEN "ok" ELSE "failed")

_java_dig_down ==
    /\ In("_java_dig_down")
    /\ \/ At("begin") /\ Native(<<"sink", "shaft">>, "dug")
       \/ At("dug") /\ Return(IF ret = "ok" THEN "ok" ELSE "failed")

_dig_up_tool ==
    /\ In("dig_up")
    /\ \/ At("begin") /\ Native(<<"climb", "shaft">>, "dug")
       \/ At("dug") /\ Return(ret)

\* ----- recovery ----------------------------------------------------------

(* Reading the state, again after a transport error; the last one is       *)
(* raised.                                                                 *)
_body_state_with_transport_retry ==
    /\ In("_body_state_with_transport_retry")
    /\ \/ Ok
       \/ Here.n < MaxPolls /\ Count("begin")
       \/ Here.n = MaxPolls /\ Raise("timeout") /\ UNCHANGED <<token, client, world, strays>>

(* recover_after_death: there already, spawned, or not.                    *)
Respawned(dry, w) ==
    IF w.lever THEN {<<w, "present">>, <<w, "failed">>}
    ELSE {<<[w EXCEPT !.lever = TRUE, !.hazard = b], "ok">> : b \in IF dry THEN {FALSE} ELSE BOOLEAN} \cup {<<w, "failed">>}

Despawned(w) == {<<[w EXCEPT !.lever = FALSE], "ok">>, <<w, "failed">>}

_state_requires_safe_respawn == ~world.lever \/ world.hazard

(* The Body is spawned, or found to be there; where it cannot stay it is   *)
(* taken out and spawned again on dry ground.                              *)
recover ==
    /\ In("recover")
    /\ \/ At("begin") /\ Call("_body_state_with_transport_retry", 0, "read")
       \/ At("read") /\ Contracted(Respawned(FALSE, world), "spawned")
       \/ At("spawned") /\ ret \notin {"ok", "present"} /\ Fail
       \/ At("spawned") /\ ret \in {"ok", "present"} /\ Keep("after", ret)
       \/ At("after") /\ Call("_body_state_with_transport_retry", 0, "known")
       \/ At("known") /\ Here.x = "present" /\ ~world.lever /\ Fail
       \/ /\ At("known") /\ (Here.x = "present" => world.lever)
          /\ IF _state_requires_safe_respawn THEN Goto("unsafe") ELSE Ok

_ensure_safe_recovery_stand ==
    /\ In("recover")
    /\ \/ At("unsafe") /\ Read(Contracted(Despawned(world), "out"))       \* no dry stand
       \/ At("out") /\ Then(Contracted(Respawned(TRUE, world), "safe"))
       \/ At("safe") /\ ret = "ok" /\ Call("_body_state_with_transport_retry", 0, "end")
       \/ At("safe") /\ ret # "ok" /\ Fail
       \/ At("end") /\ Ok

ToolStep ==
    \/ _run_smelt_tool \/ collect_resource \/ _execute_acquisition_step
    \/ ensure_item_plan \/ ensure_item_steps \/ ensure_tool_for
    \/ _move_to_tool \/ _java_ascend \/ _java_dig_down \/ _dig_up_tool
    \/ _body_state_with_transport_retry \/ recover \/ _ensure_safe_recovery_stand

============================================================================
