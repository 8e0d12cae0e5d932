----------------------------- MODULE ClientBody ----------------------------
(***************************************************************************)
(* The client mod (src/minecraft/client/body): one action at a time, run   *)
(* on the ticks of the Minecraft client over Baritone, with the menus, the *)
(* held keys and the Baritone settings it touches, the deaths and joins it *)
(* reports, and the socket it serves.                                      *)
(*                                                                         *)
(* A client is a record; an operator maps a client to the client after a   *)
(* call, or to the set of clients a call may leave behind where that       *)
(* depends on the game.  Requests, the loss of a connection and the replay *)
(* of events run on the client thread, in the order they were queued.      *)
(***************************************************************************)
EXTENDS Integers, Sequences

CONSTANTS
    None,         \* no action, no connection's action
    StableTicks,  \* ticks Baritone must be at rest before the terminal
    MaxMutations  \* the mutation budget of a vertical action

ASSUME TicksAssumption == StableTicks \in Nat \ {0} /\ MaxMutations \in Nat

\* ----- the state of the client -------------------------------------------

(* Kinds of Baritone's objectives that end alike: mine stands for pickup,  *)
(* get for farm, build for clear.                                          *)
Objectives == {"goal", "mine", "follow", "get", "build", "elytra", "explore"}

Structured == {"engageEntity", "useItem", "placeBlock", "collectBlocks", "rangedAttack",
               "craftItem", "builderBuildFile", "containerTransfer", "handoffItem",
               "digDown", "ascend"}

isVertical(r) == r.kind \in {"digDown", "ascend"}

\* Settings of Baritone an action changes for its own time.
Settings == {"attention", "inventory", "swim", "throwaway", "radius"}

(* The action: its number, kind and connection, the phase of its tick      *)
(* function, how it is to stop, whether its deadline has passed, the ticks *)
(* Baritone has been at rest.  saved: the settings it has put aside.       *)
(* menu: it knows its menu.                                                *)
(* sign: what it waits for was observed (the placed block, damage, the     *)
(* receiver's pickup); swim: it holds jump.  touched: cells it changed.    *)
NoRun == [id |-> None, kind |-> "none", peer |-> 0, phase |-> 0, stop |-> "no", late |-> FALSE,
          stable |-> 0, saved |-> {}, menu |-> FALSE, sign |-> FALSE,
          swim |-> FALSE, touched |-> 0]

(* peer: the connection it serves; link: the socket that is alive.  used:  *)
(* the action numbers it has seen.  bari: Baritone works, winds down or is *)
(* at rest; raw: a control set it going, outside any action.  menu: none,  *)
(* asked of the server, open.  read: a container is being read.  dying:    *)
(* the death the lifecycle has seen; screen, asked: the death screen, the  *)
(* respawn asked for.  out: messages on their way.                         *)
StartClient ==
    [run |-> NoRun, used |-> {}, bari |-> "off", raw |-> FALSE, changed |-> {}, keys |-> {},
     menu |-> "none", read |-> FALSE, peer |-> 0, link |-> 0,
     inWorld |-> TRUE, ready |-> FALSE, dead |-> FALSE, screen |-> FALSE,
     dying |-> FALSE, asked |-> FALSE, seq |-> 0, events |-> <<>>, out |-> <<>>]

Running(c) == c.run.id # None

\* ----- talking to the peer -----------------------------------------------

\* A message to a connection that is gone is dropped with its socket.
Send(c, p, m) == IF p # 0 /\ p = c.link THEN [c EXCEPT !.out = Append(@, m)] ELSE c

emitLifecycle(c, name) ==
    LET e == [type |-> "edge", seq |-> c.seq + 1, name |-> name]
    IN  Send([c EXCEPT !.seq = @ + 1, !.events = Append(@, e)], c.peer, e)

\* Mutant: the events kept are not sent again.
SendReady_alone(c, p) == Send(c, p, [type |-> "ready"])

\* Ready, and every event kept, to a connection.
SendReady(c, p) ==
    LET r == Send(c, p, [type |-> "ready"])
    IN  IF p = 0 \/ p # c.link THEN c ELSE [r EXCEPT !.out = @ \o c.events]

(* What a reading of the state says of the work under way.                 *)
State(c) == [active |-> c.run.id, still |-> c.bari = "off"]

\* ----- settings ----------------------------------------------------------

Save(c, s) == [c EXCEPT !.run.saved = @ \cup {s}, !.changed = @ \cup {s}]

Restore(c, S) ==
    LET T == S \cap c.run.saved
    IN  [c EXCEPT !.changed = @ \ T, !.run.saved = @ \ T]

beginAttention(c) == IF c.run.kind = "elytra" THEN c ELSE Save(c, "attention")

\* ----- stopping ----------------------------------------------------------

(* The first stop counts.  Baritone is told to let go, the keys the action *)
(* holds are released and the menu it knows is closed.                     *)
requestStop(c, status) ==
    IF ~Running(c) \/ c.run.stop # "no" THEN c
    ELSE LET quiet == [c EXCEPT !.run.stop = status,
                                !.bari = IF @ = "off" THEN "off" ELSE "ending",
                                !.keys = @ \ ((IF c.run.kind \in {"rangedAttack", "useItem"} THEN {"use"} ELSE {}) \cup
                                              (IF c.run.swim THEN {"jump"} ELSE {})),
                                !.menu = IF c.run.menu /\ @ = "open" THEN "none" ELSE @]
         IN  Restore(quiet, {"swim"})

Completed(c) == requestStop(c, "completed")
Failed(c) == requestStop(c, "failed")

\* Mutant: the follow radius is not put back.
terminal_keeps_radius(c, status) ==
    LET r == Restore(c, {"attention", "inventory", "throwaway"})
    IN  Send([r EXCEPT !.run = NoRun], c.run.peer, [type |-> "terminal", id |-> c.run.id, status |-> status])

(* The one terminal of an action, to the connection it came from.  A shot  *)
(* that hit after all is reported as a success.                            *)
terminal(c, status) ==
    LET r == Restore(c, {"radius", "attention", "inventory", "throwaway"})
        s == IF c.run.kind = "rangedAttack" /\ c.run.sign /\ status = "failed" THEN "completed" ELSE status
    IN  Send([r EXCEPT !.run = NoRun], c.run.peer, [type |-> "terminal", id |-> c.run.id, status |-> s])

\* ----- menus -------------------------------------------------------------

(* Another open menu, or a target out of reach, is refused.                *)
openMenu(c) == IF c.menu = "none" THEN {[c EXCEPT !.menu = "asked"]} ELSE {}

freshMenu(c) == c.menu = "open"

finishMenuRead(c, found) == [c EXCEPT !.read = FALSE, !.menu = IF found THEN "none" ELSE @]

(* A menu that opened is read and closed; one that is too late is given    *)
(* up, and stays open when it comes.                                       *)
tickMenuRead(c) ==
    IF ~c.read THEN {c}
    ELSE IF freshMenu(c) THEN {finishMenuRead(c, TRUE)} ELSE {c, finishMenuRead(c, FALSE)}

\* ----- structured actions ------------------------------------------------

Phase(c, n) == [c EXCEPT !.run.phase = n]
Bari(c) == [c EXCEPT !.bari = "on"]
Press(c, k) == [c EXCEPT !.keys = @ \cup {k}]
Release(c, k) == [c EXCEPT !.keys = @ \ {k}]

\* cancelEverything: the action goes on without Baritone.
Alone(c) == [c EXCEPT !.bari = IF @ = "off" THEN "off" ELSE "ending"]

combatTarget(c) == {"found", "gone"}

(* Walk up, then strike; the target's death is the end.                    *)
tickEngage(c) ==
    {Completed(c)} \cup
    UNION {IF t = "gone" THEN {Failed(c)}
           ELSE {Failed(c), Bari(c), Alone(c)} : t \in combatTarget(c)}

(* Shots are counted when the bow is released or the crossbow used; the    *)
(* damage seen decides, for a while after the last one.  phase 1: the use  *)
(* key is held, phase 2: enough shots.                                     *)
tickRanged(c) ==
    LET Draw == Phase(Press(Alone(c), "use"), 1)
        Shot(n) == Phase(Release(c, "use"), n)
    IN  {Completed(c), Failed(c)} \cup
        UNION {IF t = "gone" THEN {}
               ELSE CASE c.run.phase = 0 -> {c, Bari(c), Draw}
                      [] c.run.phase = 1 -> {c, Shot(0), Shot(2)}
                      [] OTHER -> {c, [c EXCEPT !.run.sign = TRUE]} : t \in combatTarget(c)}

(* One use, or holding the key until the item is used up, the time is over *)
(* or the hand holds something else.                                       *)
tickUseItem(c) ==
    CASE c.run.phase = 0 -> {Failed(c), Phase(c, 1), Phase(c, 3)}
      [] c.run.phase = 1 -> {c, Phase(c, 2)}
      [] c.run.phase = 2 -> {c, Completed(c)}
      [] OTHER -> {Completed(c), Failed(c), Press(c, "use")}

(* To the spot, a look, a click, and the server's word for the block.      *)
tickPlaceBlock(c) ==
    CASE c.run.phase = 0 -> {Failed(c), Phase(Bari(c), 1), Phase(c, 2)}
      [] c.run.phase = 1 -> {c, Failed(c), Phase(Alone(c), 2)}
      [] c.run.phase = 2 -> {c, Failed(c), Phase(c, 3)}
      [] OTHER -> IF c.run.sign THEN {Completed(c)} ELSE {c, Failed(c)}

(* The cells go, then the drops are followed; what is missing at the end   *)
(* is told by the inventory.  A tree lends its wood as footing.            *)
startCollectionGoal(c) == Bari(c)

tickCollectBlocks(c) ==
    CASE c.run.phase = 0 -> {Failed(c), Phase(startCollectionGoal(c), 1), Phase(Bari(Save(c, "throwaway")), 1)}
      [] c.run.phase = 1 -> {c, Completed(c), Phase(Bari(Save(c, "radius")), 2)} \cup
                            (IF c.bari = "off" THEN {Failed(c), startCollectionGoal(c)} ELSE {})
      [] OTHER -> {c, Completed(c)}

\* The grid is filled, or a missing input ends the action.
craftInputs(c) == {Failed(c), Phase(c, 2)}

\* What the recipe leaves is put back; a residue ends the action.
collectCraftRemainders(c) == {Failed(c), Phase(c, 3)}

(* The table's menu, the inputs, the result the server confirms as often   *)
(* as asked for, and the inventory as it was expected.                     *)
tickCraft(c) ==
    CASE c.run.phase = 0 -> {Failed(c)} \cup {Phase(d, 1) : d \in openMenu(c)} \cup craftInputs(c)
      [] c.run.phase = 1 -> IF freshMenu(c)
                            THEN {Failed(c)} \cup craftInputs([c EXCEPT !.run.menu = TRUE])
                            ELSE {c}
      [] c.run.phase = 2 -> {c, Failed(c)} \cup collectCraftRemainders(c)
      [] OTHER -> {c, Completed(c), Failed(c)}

tickBuilderFile(c) ==
    IF c.run.phase = 0
    THEN LET b == Phase(Save(c, "inventory"), 1) IN {Failed(c), Failed(b), Bari(b)}
    ELSE IF c.bari = "off" THEN {Completed(c)} ELSE {c}

\* The move itself; a source or a room that is not as expected ends it.
transferMenuSlots(c) == {Failed(c), Phase(c, 2)}

verifyMenuTransfer(c) == {Completed(c), Failed(c)}

(* The menu is opened, the stack moved, and the menu opened again to see   *)
(* what the server has.                                                    *)
tickMenuTransfer(c) ==
    LET known == [c EXCEPT !.run.menu = TRUE]
    IN  CASE c.run.phase = 0 -> {Failed(c)} \cup {Phase(d, 1) : d \in openMenu(c)}
          [] c.run.phase = 1 -> IF freshMenu(c) THEN transferMenuSlots(known) ELSE {c}
          [] c.run.phase = 2 ->
               {c, Failed(c)} \cup
               {Phase(d, 3) : d \in openMenu([c EXCEPT !.menu = "none", !.run.menu = FALSE])}
          [] OTHER -> IF freshMenu(c) THEN verifyMenuTransfer(known) ELSE {c}

(* Up to the receiver, the drop, away from it, and the receiver's pickup.  *)
tickHandoff(c) ==
    CASE c.run.phase = 0 -> {Failed(c), c, Bari(c), Phase(Alone(c), 1)}
      [] c.run.phase = 1 -> {Failed(c), c, Phase(Bari(c), 2)}
      [] OTHER -> IF c.run.sign THEN {Completed(c), Failed(c), c} ELSE {Failed(c), c, Alone(c)}

(* Up by holding jump; against a ceiling a way round is looked for, with   *)
(* breaking and placing forbidden.  An ascent that began on land comes     *)
(* here in its phase 1 and is not marked as a swim.                        *)
routeSwimToAir(c) == {Failed(c), Phase(Alone(Save(c, "swim")), 2)}

tickSwimUp(c) ==
    LET s == IF c.run.phase = 0 THEN Phase([c EXCEPT !.run.swim = TRUE], 1) ELSE c
        low == Release(s, "jump")
    IN  {Completed(low), Failed(low)} \cup routeSwimToAir(low) \cup
        IF s.run.phase = 2 THEN {low, Bari(low), Phase(Press(Alone(s), "jump"), 3)} ELSE {Press(s, "jump")}

(* Straight up or down to a height, settled there; a chosen footing is lent*)
(* to Baritone.  An ascent in water swims.                                 *)
tickVertical(c) ==
    LET saves == {c, Save(c, "throwaway")}
        dry == IF c.run.phase = 0 THEN {Failed(d) : d \in saves} \cup {Phase(Bari(d), 1) : d \in saves}
               ELSE {c, Completed(c)} \cup (IF c.bari = "off" THEN {Failed(c)} ELSE {})
    IN  {Failed(c)} \cup (IF c.run.kind = "ascend" THEN tickSwimUp(c) ELSE {}) \cup
        (IF c.run.swim THEN {} ELSE dry)

(* An exception in a tick function fails the action.                       *)
tickStructuredAction(c) ==
    IF c.run.late THEN {requestStop(c, "timeout")}
    ELSE {Failed(c)} \cup
         CASE c.run.kind = "engageEntity" -> tickEngage(c)
           [] c.run.kind = "useItem" -> tickUseItem(c)
           [] c.run.kind = "placeBlock" -> tickPlaceBlock(c)
           [] c.run.kind = "collectBlocks" -> tickCollectBlocks(c)
           [] c.run.kind = "rangedAttack" -> tickRanged(c)
           [] c.run.kind = "craftItem" -> tickCraft(c)
           [] c.run.kind = "builderBuildFile" -> tickBuilderFile(c)
           [] c.run.kind = "containerTransfer" -> tickMenuTransfer(c)
           [] c.run.kind = "handoffItem" -> tickHandoff(c)
           [] isVertical(c.run) -> tickVertical(c)

\* ----- objectives of Baritone --------------------------------------------

\* Mutant: following has no deadline.
tickFollow_endless(c) == {Bari(c)}

tickFollow(c) ==
    IF c.run.late THEN {Failed(c), Completed(c), requestStop(c, "timeout")} ELSE {Failed(c), Bari(c)}

(* What was asked for is there; or the deadline; or Baritone has stopped,  *)
(* and what it did is looked at.                                           *)
tickObjective(c) ==
    (IF c.run.kind \in {"goal", "mine"} THEN {Completed(c)} ELSE {}) \cup
    IF c.run.kind = "follow" THEN tickFollow(c)
    ELSE IF c.run.late THEN {requestStop(c, "timeout")}
    ELSE IF c.bari = "off" THEN {c, Failed(c)} \cup (IF c.run.kind \in {"goal", "mine", "explore"} THEN {} ELSE {Completed(c)})
    ELSE {c}

\* ----- the tick ----------------------------------------------------------

(* A worn-out tool, or the same step failing twice, ends the action.       *)
observeHeldTool(c) == {c, Failed(c)}
observeNavigation(c) == {c, Failed(c)}

(* A stopped action ends when Baritone has been at rest for some ticks.    *)
Settle(c) ==
    IF c.run.stop = "no" THEN c
    ELSE LET d == [c EXCEPT !.run.stable = IF c.bari = "off" THEN @ + 1 ELSE 0]
         IN  IF d.run.stable >= StableTicks THEN terminal(d, d.run.stop) ELSE d

Work(c) ==
    IF ~Running(c) THEN {c}
    ELSE IF c.run.stop # "no" THEN {Settle(c)}
    ELSE LET Step(d) == IF d.run.stop # "no" THEN {d}
                        ELSE IF d.run.kind \in Structured THEN tickStructuredAction(d) ELSE tickObjective(d)
         IN  {Settle(e) : e \in UNION {Step(d) : d \in observeHeldTool(c) \cup observeNavigation(c)}}

(* DeathRespawnProgress: a death is seen once, the respawn asked for once, *)
(* and the return reported when the Body lives in a loaded world again.    *)
observe(c) ==
    LET died == c.dead /\ ~c.dying
        asks == (c.dying \/ died) /\ c.screen /\ ~(c.asked /\ ~died)
        back == c.dying /\ ~c.dead /\ ~c.screen
        told == IF died THEN requestStop(emitLifecycle([c EXCEPT !.dying = TRUE, !.asked = FALSE, !.events = <<>>], "death"), "failed")
                ELSE c
    IN  IF back THEN emitLifecycle([told EXCEPT !.dying = FALSE, !.asked = FALSE], "respawned")
        ELSE IF asks THEN [told EXCEPT !.asked = TRUE] ELSE told

BecomeReady(c) ==
    IF c.ready THEN {c}
    ELSE {c, emitLifecycle(SendReady([c EXCEPT !.ready = TRUE], c.peer), "world_ready")}

tick(c) ==
    LET a == observe(c)
    IN  IF a.dead
        THEN {IF Running(a) /\ a.bari = "off" THEN terminal(a, "failed") ELSE a}
        ELSE UNION {UNION {Work(d) : d \in BecomeReady(b)} : b \in tickMenuRead(a)}

\* ----- requests ----------------------------------------------------------

Reject(c, m) == Send(c, m.conn, [type |-> "rejected", id |-> m.id])

(* A busy client, a number seen before and a malformed objective are       *)
(* rejected.  A structured action begins with its next tick; a process     *)
(* of Baritone that does not start ends it at once.                        *)
start(c, m) ==
    IF Running(c) \/ c.read \/ m.id \in c.used THEN {Reject(c, m)}
    ELSE LET fresh == beginAttention([c EXCEPT !.used = @ \cup {m.id},
                                               !.run = [NoRun EXCEPT !.id = m.id, !.kind = m.kind, !.peer = m.conn]])
             own == IF m.kind = "follow" THEN Save(fresh, "radius")
                    ELSE IF m.kind = "build" THEN Save(fresh, "inventory") ELSE fresh
         IN  {Reject(c, m)} \cup
             IF m.kind \in Structured THEN {fresh} ELSE {Bari(own), requestStop(own, "failed")}

(* The primitive `stop`, which does not ask whether an action runs.  The   *)
(* other primitives (jump, look, use, attack, items, blocks) are left out: *)
(* Python sends them only while it has no action in its slot, and each is  *)
(* over when it returns.                                                   *)
primitive(c) == {Alone(c)}

container_read(c) ==
    IF Running(c) \/ c.read THEN {c}
    ELSE LET r == [c EXCEPT !.read = TRUE] IN {finishMenuRead(r, FALSE)} \cup openMenu(r)

cancelAction(c, m) == IF c.run.id = m.id /\ m.id # None THEN {requestStop(c, "canceled")} ELSE {Reject(c, m)}

(* builder_open_schematic and its kin set Baritone going without an action.*)
builder_open(c) == IF Running(c) THEN {c} ELSE {c, [Bari(c) EXCEPT !.raw = TRUE]}

(* The map, the blocks and the surroundings are read where they are.       *)
worldRead(c) == {c}

close_screen(c) == {[c EXCEPT !.menu = IF @ = "open" THEN "none" ELSE @]}

(* Only the connection that is served is listened to.                      *)
handle(c, m) ==
    IF c.peer # m.conn THEN {c}
    ELSE CASE m.type = "state" -> {Send(c, m.conn, [type |-> "state", id |-> m.id, says |-> State(c)])}
           [] m.type = "cancel" -> cancelAction(c, m)
           [] m.type = "command" -> IF c.ready THEN start(c, m) ELSE {Reject(c, m)}
           [] m.type = "read" -> IF c.ready THEN container_read(c) ELSE {c}
           [] m.type = "world_read" -> worldRead(c)
           [] m.type = "builder_open" -> builder_open(c)
           [] m.type = "stop" -> IF c.ready THEN primitive(c) ELSE {c}
           [] m.type = "close_screen" -> close_screen(c)

\* A lost connection stops its action, whoever is served by then.
handle_lost(c, p) == IF Running(c) /\ c.run.peer = p THEN requestStop(c, "failed") ELSE c

\* ----- what the game tells it --------------------------------------------

\* Mutant: a vertical action that is stopping may still break and place.
allowVerticalMutation_late(c) ==
    IF c.run.touched < MaxMutations THEN {[c EXCEPT !.run.touched = @ + 1], Failed(c)} ELSE {Failed(c)}

(* Baritone asks before every break and placement of a vertical action.    *)
allowVerticalMutation(c) ==
    IF c.run.stop # "no" THEN {c}
    ELSE IF c.run.touched < MaxMutations THEN {[c EXCEPT !.run.touched = @ + 1], Failed(c)} ELSE {Failed(c)}

\* The server's word for the placed block.
observeBlockUpdate(c) == [c EXCEPT !.run.sign = @ \/ (c.run.kind = "placeBlock" /\ c.run.phase = 3)]

\* The receiver has picked the item up.
observePickup(c) ==
    [c EXCEPT !.run.sign = @ \/ (c.run.kind = "handoffItem" /\ c.run.phase = 2 /\ c.run.stop = "no")]

joinWorld(c) ==
    [c EXCEPT !.inWorld = TRUE, !.ready = FALSE, !.dead = FALSE, !.screen = FALSE,
              !.dying = FALSE, !.asked = FALSE, !.events = <<>>, !.bari = "off", !.raw = FALSE, !.menu = "none"]

(* The action is told to stop and the settings of its look and of the      *)
(* builder are put back at once; its terminal waits for the next world.    *)
leaveWorld(c) ==
    LET r == Restore(IF Running(c) THEN requestStop(c, "failed") ELSE c, {"attention", "inventory"})
    IN  emitLifecycle([r EXCEPT !.inWorld = FALSE, !.ready = FALSE, !.read = FALSE, !.bari = "off", !.raw = FALSE, !.menu = "none"], "world_disconnected")

============================================================================
