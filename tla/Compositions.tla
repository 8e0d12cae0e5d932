---------------------------- MODULE Compositions ---------------------------
(***************************************************************************)
(* One composed tool call from its call to its end, whichever it is, from  *)
(* the packs a player starts with or has halfway up the ladder, against    *)
(* transactions and native actions that may fail at every point            *)
(* (src/minebot/brain/composition.py, src/minebot/app/phase1_runtime.py).  *)
(***************************************************************************)
EXTENDS ToolWork, FiniteSets

CONSTANT Wanted   \* the items and resources asked for

VARIABLE entry    \* the call that runs: its name, its argument, its first world

allVars == <<vars, entry>>

\* ----- calls and the worlds they start in --------------------------------

Pack(some) == [i \in Items |-> IF i \in DOMAIN some THEN some[i] ELSE 0]

Packs ==
    {Pack(p) : p \in {[stick |-> 0], [spruce_log |-> 1], [oak_planks |-> 3, spruce_log |-> 1],
                      [spruce_planks |-> 2, oak_planks |-> 2, stick |-> 1],
                      [stick |-> 5, crafting_table |-> 1],
                      [wooden_pickaxe |-> 1, cobblestone |-> 2],
                      [stone_pickaxe |-> 1, raw_iron |-> 3, coal |-> 1],
                      [stone_pickaxe |-> 1, furnace |-> 1, iron_ingot |-> 2, oak_log |-> 3]}}

Ground(pack) ==
    [near |-> FALSE, there |-> TRUE, lever |-> TRUE, cell |-> FALSE, site |-> FALSE,
     drop |-> 0, bag |-> 0, did |-> 0, extra |-> 0, oven |-> "empty",
     under |-> "rock", hurt |-> FALSE, y |-> 2, hazard |-> FALSE, tried |-> FALSE,
     pack |-> pack, table |-> "none"]

Down == [Ground(Pack([furnace |-> 1, raw_iron |-> 1, coal |-> 1])) EXCEPT !.there = FALSE]

Entries ==
    {<<"ensure_tool_for", i, Ground(p)>> : i \in Wanted, p \in Packs} \cup
    {<<"collect_resource", NewCollect(r, 2, TRUE), Ground(p)>> : r \in {"logs", "cobblestone"}, p \in Packs} \cup
    {<<"smelt_item", NewSmelt("raw_iron", n), [w EXCEPT !.site = b]>> : n \in {1, 17}, b \in BOOLEAN, w \in {Down}} \cup
    {<<f, "none", Down>> : f \in {"move_to", "_java_ascend", "_java_dig_down", "dig_up"}} \cup
    {<<"recover", "none", [Down EXCEPT !.lever = b, !.hazard = c]>> : b \in BOOLEAN, c \in BOOLEAN}

Init ==
    /\ \E e \in Entries :
          /\ entry = [fn |-> e[1], x |-> e[2], world |-> e[3]]
          /\ stack = <<Frame(e[1], e[2])>>
          /\ world = e[3]
    /\ ret = "none" /\ token = "live" /\ client = ClientStart /\ strays = 0

\* ----- the specification -------------------------------------------------

Compose == ToolStep \/ _dispatch

Client == _run_action \/ LateEffect \/ confirm_control_idle

\* The call has ended.
Ended == stack = <<>> /\ UNCHANGED vars

Next ==
    /\ Compose \/ Client \/ cancel \/ Ended
    /\ UNCHANGED entry

(* The call's thread goes on; nothing makes client or supervisor act.      *)
Spec == Init /\ [][Next]_allVars /\ WF_allVars(Compose /\ UNCHANGED entry)

\* ----- properties --------------------------------------------------------

Returns(r) == stack # <<>> /\ stack' = <<>> /\ ret' = r

(* Both kinds of planks are carried.  The planner books planks of one kind *)
(* for a craft, which takes them from whichever stack is the larger: the   *)
(* planks meant for fuel may then be too few of either kind.               *)
MixedPlanks(w) == \A p \in Planks : w.pack[p] > 0

(* What a step needs to find in the pack: the ingredients and a table, the *)
(* input, the fuel and a furnace, the pickaxe.                             *)
Provided(s, w) ==
    CASE s.kind = "equip" -> w.pack[s.item] > 0
      [] s.kind = "collect" -> best_owned_pickaxe(w.pack) >= COLLECT_ROUTES[s.item].tier
      [] s.kind = "craft" ->
            LET v == Recipes[s.item][1]
            IN  /\ _allocate_recipe_inputs(v, Ceil(s.count, v.out), w.pack) # {}
                /\ s.table => w.pack["crafting_table"] > 0 \/ w.table = "near"
      [] s.kind = "smelt" ->
            /\ w.pack[s.input] >= s.inputs
            /\ w.site \/ w.pack["furnace"] > 0
            /\ \/ _select_fuel(w.pack, s.inputs * SMELT_SECONDS_PER_ITEM)[1] # "none"
               \/ MixedPlanks(w)

\* A furnace was put up and could not be taken up again.
FurnaceLeft == world.site

(* A plan carries through: when every step so far has been shown done, the *)
(* pack holds what the next one needs.  The planner has foreseen what each *)
(* step uses up, the wood the trees turned out to be, and the table that   *)
(* was taken along.                                                        *)
PlansCarryThrough ==
    \A k \in 1..Len(stack) :
        stack[k].fn = "ensure_item" /\ stack[k].at = "act" /\ ~FurnaceLeft =>
            Provided(stack[k].x.plan[stack[k].x.i], world)

Accomplished(w) ==
    CASE entry.fn = "ensure_tool_for" -> w.pack[_ensure_target_for(entry.x)] >= 1
      [] entry.fn = "collect_resource" -> _read_count(COLLECT_ROUTES[entry.x.item].drops, w) >= entry.x.count
      [] entry.fn = "smelt_item" -> w.pack["iron_ingot"] >= entry.x.n
      [] entry.fn \in {"move_to", "_java_ascend"} -> w.there
      [] entry.fn = "_java_dig_down" -> w.y = 0
      [] entry.fn = "dig_up" -> w.y = 4
      [] entry.fn = "recover" -> w.lever /\ ~w.hazard

(* A composed call that reports success has brought about what it is for,  *)
(* whatever the transactions under it reported.                            *)
CompositionIsReal == [][Returns("ok") => Accomplished(world')]_allVars

(* A call that succeeds leaves no crafting table behind that it put up.    *)
WorkstationsComeBack == [][Returns("ok") => world'.table = "none"]_allVars

(* Every composed call ends: planning anew happens once, for want of wood. *)
CompositionsEnd == <>(stack = <<>>)

============================================================================
