---------------------------- MODULE Acquisition ----------------------------
(***************************************************************************)
(* The planner that turns "have this many of that item" into steps         *)
(* (src/minebot/brain/acquisition.py): collect, craft, smelt, equip.       *)
(*                                                                         *)
(* A planner is a record: the counts it believes in, which it moves along  *)
(* with every step it plans; the steps; whether it has put off the rest    *)
(* until the inventory shows which wood there is; the error it met.        *)
(* Wood comes in two species, and the items are those the ladder from an   *)
(* empty pack to an iron pickaxe goes through.                             *)
(***************************************************************************)
EXTENDS Integers, Sequences, SequencesExt

\* In the order FUEL_SELECTION_ORDER and the wood families list them.
PLANK_ITEMS == <<"oak_planks", "spruce_planks">>
LOG_ITEMS == <<"oak_log", "spruce_log">>
Planks == {"oak_planks", "spruce_planks"}
Logs == {"oak_log", "spruce_log"}

PLANK_FROM_LOG == [oak_planks |-> "oak_log", spruce_planks |-> "spruce_log"]

FUEL_BURN_SECONDS == [coal |-> 80, charcoal |-> 80, oak_planks |-> 15, spruce_planks |-> 15,
                      stick |-> 5, oak_log |-> 15, spruce_log |-> 15]
FUEL_SELECTION_ORDER == <<"coal", "charcoal", "oak_planks", "spruce_planks", "stick", "oak_log", "spruce_log">>

SMELT_SECONDS_PER_ITEM == 10

(* What is taken from the world: the item counted, what drops, and the     *)
(* pickaxe tier the blocks ask for (0: none, 1: wooden, 2: stone).         *)
COLLECT_ROUTES ==
    [logs |-> [item |-> "oak_log", drops |-> Logs, tier |-> 0],
     oak_log |-> [item |-> "oak_log", drops |-> {"oak_log"}, tier |-> 0],
     spruce_log |-> [item |-> "spruce_log", drops |-> {"spruce_log"}, tier |-> 0],
     cobblestone |-> [item |-> "cobblestone", drops |-> {"cobblestone"}, tier |-> 1],
     coal |-> [item |-> "coal", drops |-> {"coal"}, tier |-> 1],
     raw_iron |-> [item |-> "raw_iron", drops |-> {"raw_iron"}, tier |-> 2]]

SMELT_ROUTES == [iron_ingot |-> "raw_iron", charcoal |-> "oak_log", stone |-> "cobblestone"]

PICKAXE_BY_TIER == <<"wooden_pickaxe", "stone_pickaxe", "iron_pickaxe">>
PickaxeTier == [wooden_pickaxe |-> 1, stone_pickaxe |-> 2, iron_pickaxe |-> 3]

(* The recipes the game answers with: how many come of one craft, whether  *)
(* it takes a table, and the groups of interchangeable ingredients.        *)
Variant(out, table, groups) == [out |-> out, table |-> table, groups |-> groups]
Times(n, group) == [i \in 1..n |-> group]

Recipes ==
    [oak_planks |-> <<Variant(4, FALSE, <<{"oak_log"}>>)>>,
     spruce_planks |-> <<Variant(4, FALSE, <<{"spruce_log"}>>)>>,
     stick |-> <<Variant(4, FALSE, Times(2, Planks))>>,
     crafting_table |-> <<Variant(1, FALSE, Times(4, Planks))>>,
     wooden_pickaxe |-> <<Variant(1, TRUE, Times(3, Planks) \o Times(2, {"stick"}))>>,
     stone_pickaxe |-> <<Variant(1, TRUE, Times(3, {"cobblestone"}) \o Times(2, {"stick"}))>>,
     iron_pickaxe |-> <<Variant(1, TRUE, Times(3, {"iron_ingot"}) \o Times(2, {"stick"}))>>,
     furnace |-> <<Variant(1, TRUE, Times(8, {"cobblestone"}))>>]

Items == Planks \cup Logs \cup DOMAIN SMELT_ROUTES \cup DOMAIN Recipes \cup {"cobblestone", "coal", "raw_iron"}

Max0(n) == IF n > 0 THEN n ELSE 0
Ceil(n, d) == (n + d - 1) \div d

\* counts.get(item, 0): "planks" and "logs" name families, not items.
Get(counts, item) == IF item \in DOMAIN counts THEN counts[item] ELSE 0
Gain(counts, item, n) == IF item \in DOMAIN counts THEN [counts EXCEPT ![item] = Max0(@ + n)] ELSE counts

\* ----- choices -----------------------------------------------------------

best_owned_pickaxe(counts) ==
    LET owned == {PickaxeTier[i] : i \in {j \in DOMAIN PickaxeTier : Get(counts, j) > 0}}
    IN  IF owned = {} THEN 0 ELSE CHOOSE t \in owned : \A u \in owned : u <= t

(* The species there is most wood of, the first one when there is as much  *)
(* of the other; none without wood.                                        *)
_preferred_plank(counts) ==
    LET Wood(p) == Get(counts, p) + 4 * Get(counts, PLANK_FROM_LOG[p])
        oak == Wood("oak_planks")   spruce == Wood("spruce_planks")
    IN  IF oak + spruce = 0 THEN "none" ELSE IF oak >= spruce THEN "oak_planks" ELSE "spruce_planks"

_owned_plank_family(counts) == \E p \in Planks : Get(counts, p) > 0 \/ Get(counts, PLANK_FROM_LOG[p]) > 0

_material_availability(item, counts, selected, preferred) ==
    CASE Get(counts, item) > Get(selected, item) -> 0
      [] item = preferred -> 1
      [] item \in Planks /\ Get(counts, PLANK_FROM_LOG[item]) > 0 -> 2
      [] OTHER -> 3

_item_preference(item) ==
    CASE item = "cobblestone" -> -10
      [] item \in DOMAIN COLLECT_ROUTES -> -1
      [] item \in DOMAIN SMELT_ROUTES -> 0
      [] item \in Planks -> IF item = PLANK_ITEMS[1] THEN 0 ELSE 1
      [] OTHER -> 22

(* What a number of crafts takes, group by group: the material at hand     *)
(* first; the family as such while nothing tells which wood there is.      *)
_select_requirements(variant, crafts, counts, preferred) ==
    LET Rank(i, selected) == 100 * _material_availability(i, counts, selected, preferred) + _item_preference(i)
        Option(group, selected) ==
            IF Cardinality(group \cap Planks) > 1 /\ preferred = "none" /\ ~_owned_plank_family(counts)
            THEN "planks"
            ELSE CHOOSE i \in group : \A j \in group : Rank(i, selected) <= Rank(j, selected)
        Add(selected, group) ==
            LET o == Option(group, selected)
            IN  [i \in DOMAIN selected \cup {o} |-> Get(selected, i) + (IF i = o THEN crafts ELSE 0)]
    IN  FoldLeft(Add, [i \in {} |-> 0], variant.groups)

(* The variant that lacks the fewest ingredients, then one without a       *)
(* table, then the one with fewer groups.                                  *)
_choose_variant(missing, variants, counts, preferred) ==
    LET Deficit(v) ==
            LET req == _select_requirements(v, Ceil(missing, v.out), counts, preferred)
            IN  FoldLeft(+, 0, [i \in 1..Cardinality(DOMAIN req) |->
                                  LET k == SetToSeq(DOMAIN req)[i] IN Max0(req[k] - Get(counts, k))])
        Score(v) == 1000 * Deficit(v) + (IF v.table THEN 100 ELSE 0) + Len(v.groups)
    IN  CHOOSE v \in Range(variants) : \A u \in Range(variants) : Score(v) <= Score(u)

\* Mutant: one round over the ingredients is enough.
MissingNothing(required, counts) == <<>>

_missing_requirements(required, counts) ==
    LET short == {i \in DOMAIN required : Get(counts, i) < required[i]}
    IN  [i \in short |-> required[i]]

\* Sticks first, planks last, the others by name between them.
_ingredient_priority ==
    <<"stick", "cobblestone", "iron_ingot", "oak_log", "planks", "spruce_log", "oak_planks", "spruce_planks">>

(* The first fuel of which there is enough.                                *)
_select_fuel(counts, seconds) ==
    LET Needed(f) == Ceil(seconds, FUEL_BURN_SECONDS[f])
        enough == SelectSeq(FUEL_SELECTION_ORDER, LAMBDA f : Get(counts, f) >= Needed(f))
    IN  IF seconds <= 0 \/ enough = <<>> THEN <<"none", 0>> ELSE <<enough[1], Needed(enough[1])>>

\* ----- steps -------------------------------------------------------------

Step(kind, item, count) ==
    [kind |-> kind, item |-> item, count |-> count, table |-> FALSE, replan |-> FALSE,
     input |-> "none", inputs |-> 0, fuel |-> "none", fuels |-> 0]

CollectStep(item, n, replan) == [Step("collect", item, n) EXCEPT !.replan = replan]
CraftStep(item, n, table) == [Step("craft", item, n) EXCEPT !.table = table]
SmeltStep(item, n, input, fuel) ==
    [Step("smelt", item, n) EXCEPT !.input = input, !.inputs = n, !.fuel = fuel[1], !.fuels = fuel[2]]

(* Steps next to each other that do the same become one.                   *)
_step_key(s) == <<s.kind, s.item, s.table, s.input, s.fuel>>
_merge_step(a, b) == [a EXCEPT !.count = @ + b.count, !.inputs = @ + b.inputs, !.fuels = @ + b.fuels]

_compact_steps(steps) ==
    LET Put(merged, s) ==
            IF merged # <<>> /\ _step_key(Last(merged)) = _step_key(s)
            THEN [merged EXCEPT ![Len(merged)] = _merge_step(@, s)]
            ELSE Append(merged, s)
    IN  FoldLeft(Put, <<>>, steps)

\* ----- the planner -------------------------------------------------------

Planner(counts, depth) ==
    [counts |-> counts, preferred |-> _preferred_plank(counts), depth |-> depth,
     steps |-> <<>>, deferred |-> FALSE, error |-> "none"]

(* `if error is not None: return error; if self.deferred: return None`     *)
(* between one part of the planning and the next.                          *)
Stopped(p) == p.error # "none" \/ p.deferred
Unless(p, Part(_)) == IF Stopped(p) THEN p ELSE Part(p)

_error(p, reason) == [p EXCEPT !.error = reason]
_add_step(p, s) == [p EXCEPT !.steps = Append(@, s)]

RECURSIVE resolve(_, _, _, _)

(* The pickaxe the blocks ask for, then what is missing.                   *)
_resolve_collect(p, item, count, chain) ==
    LET route == COLLECT_ROUTES[item]
        owned == FoldLeft(+, 0, [i \in 1..Cardinality(route.drops) |-> Get(p.counts, SetToSeq(route.drops)[i])])
        missing == Max0(count - owned)
        tool == PICKAXE_BY_TIER[route.tier]
        Held(q) == IF best_owned_pickaxe(q.counts) < route.tier THEN _error(q, "required_tool_unavailable")
                   ELSE IF Get(p.counts, tool) = 0 THEN _add_step(q, Step("equip", tool, 1)) ELSE q
        Take(q) == IF missing = 0 THEN q
                   ELSE [_add_step(q, CollectStep(item, missing, FALSE)) EXCEPT !.counts = Gain(@, route.item, missing)]
    IN  Unless(IF best_owned_pickaxe(p.counts) >= route.tier THEN p
               ELSE Unless(resolve(p, tool, 1, Append(chain, item)), Held),
               Take)

(* Without any wood there is nothing that tells which planks to make: logs *)
(* are collected, and the rest is planned afterwards.                      *)
_resolve_plank_family(p, count, chain) ==
    LET preferred == _preferred_plank(p.counts)
        logs == Ceil(count, 4)
    IN  IF preferred # "none" THEN resolve(p, preferred, count, Append(chain, "planks"))
        ELSE [_add_step(p, CollectStep("logs", IF logs > 1 THEN logs ELSE 1, TRUE)) EXCEPT !.deferred = TRUE]

(* Input, furnace, fuel; planks are made for fuel when there is none.      *)
_resolve_smelt(p, item, count, chain) ==
    LET missing == count - Get(p.counts, item)
        input == SMELT_ROUTES[item]
        seconds == missing * SMELT_SECONDS_PER_ITEM
        Part(q, i, n) == resolve(q, i, n, Append(chain, item))
        Housed(q) == Part(q, "furnace", 1)
        Fired(q) == IF _select_fuel(q.counts, seconds)[1] # "none" THEN q
                    ELSE Part(q, "planks", Ceil(seconds, FUEL_BURN_SECONDS["oak_planks"]))
        Smelt(q) == LET fuel == _select_fuel(q.counts, seconds)
                    IN  IF fuel[1] = "none" THEN _error(q, "fuel_unavailable")
                        ELSE [_add_step(q, SmeltStep(item, missing, input, fuel)) EXCEPT
                                !.counts = Gain(Gain(Gain(@, input, -missing), fuel[1], -fuel[2]), item, missing)]
    IN  Unless(Unless(Unless(Part(p, input, missing), Housed), Fired), Smelt)

(* The ingredients, in order of priority.                                  *)
_resolve_requirements(p, required, chain) ==
    FoldLeft(LAMBDA q, i : IF Stopped(q) \/ i \notin DOMAIN required THEN q ELSE resolve(q, i, required[i], chain),
             p, _ingredient_priority)

(* The ingredients again and again until none is missing: making one may   *)
(* use up another.  What remained of them in the last round is all that is *)
(* taken off the counts in the end.                                        *)
RECURSIVE Gather(_, _, _, _)
GatherRest(got, required, left, chain, turns) ==
    IF Stopped(got) \/ left = <<>> THEN <<got, required>> ELSE Gather(got, left, chain, turns - 1)
GatherOnce(got, required, chain, turns) ==
    GatherRest(got, required, _missing_requirements(required, got.counts), chain, turns)
Gather(p, required, chain, turns) ==
    IF turns = 0 THEN <<_error(p, "ingredient_resolution_failed"), required>>
    ELSE GatherOnce(_resolve_requirements(p, required, chain), required, chain, turns)

CraftAs(p, item, made, variant, gathered) ==
    LET Spent(counts, required) ==
            FoldLeft(LAMBDA c, i : IF i \in DOMAIN required THEN Gain(c, i, -required[i]) ELSE c,
                     counts, _ingredient_priority)
    IN  IF Stopped(gathered[1]) THEN gathered[1]
        ELSE [_add_step(gathered[1], CraftStep(item, made, variant.table)) EXCEPT
                !.counts = Gain(Spent(@, gathered[2]), item, made)]

\* The table, the ingredients, the craft.
_resolve_variant(p, item, missing, variant, deeper) ==
    LET crafts == Ceil(missing, variant.out)
        Crafting(q) ==
            CraftAs(q, item, crafts * variant.out, variant,
                    Gather(q, _select_requirements(variant, crafts, q.counts, p.preferred), deeper, p.depth + 1))
    IN  Unless(IF variant.table /\ Get(p.counts, "crafting_table") < 1
               THEN resolve(p, "crafting_table", 1, deeper) ELSE p,
               Crafting)

_resolve_craft(p, item, count, chain) ==
    LET missing == count - Get(p.counts, item)
    IN  _resolve_variant(p, item, missing, _choose_variant(missing, Recipes[item], p.counts, p.preferred),
                         Append(chain, item))

(* Nothing to do, too deep, in a circle, or one of the ways to an item.    *)
resolve(p, item, count, chain) ==
    CASE count <= 0 \/ Get(p.counts, item) >= count -> p
      [] Len(chain) >= p.depth -> _error(p, "max_depth_exceeded")
      [] item \in Range(chain) -> _error(p, "recipe_cycle")
      [] item = "planks" -> _resolve_plank_family(p, count, chain)
      [] item \in DOMAIN COLLECT_ROUTES -> _resolve_collect(p, item, count, chain)
      [] item \in DOMAIN SMELT_ROUTES -> _resolve_smelt(p, item, count, chain)
      [] item \in DOMAIN Recipes -> _resolve_craft(p, item, count, chain)
      [] OTHER -> _error(p, "unplannable")

resolve_acquisition(item, count, counts, depth) ==
    LET p == resolve(Planner(counts, depth), item, count, <<>>)
    IN  [p EXCEPT !.steps = _compact_steps(@)]

============================================================================
