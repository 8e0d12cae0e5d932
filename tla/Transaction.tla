---------------------------- MODULE Transaction ----------------------------
(***************************************************************************)
(* The ground every Body transaction (src/minebot/body) stands on: a       *)
(* synchronous call stack, the cancellation token of its scope             *)
(* (src/minebot/contract/execution.py), the client body that runs one      *)
(* native action at a time in a thread of its own                          *)
(* (src/minebot/game/real_client_body.py, real_client_ipc.py), and the     *)
(* part of the world the transactions are about.                           *)
(*                                                                         *)
(* A transaction is a stack of frames.  A frame is the function, the point *)
(* it has reached, one local value and one counter.  A function is an      *)
(* action: the disjunction of its steps.  Reading the world does not       *)
(* change it; only a native action does, and strays do: what other         *)
(* players, mobs and the game do meanwhile.                                *)
(***************************************************************************)
EXTENDS Integers, Sequences

CONSTANTS
    Asked,      \* units asked for by a transaction that counts
    MaxStrays,  \* how often the world moves on by itself in a behaviour
    MaxPolls    \* how often a loop that polls until a deadline may look

ASSUME BoundsAssumption ==
    /\ Asked \in Nat \ {0}
    /\ MaxStrays \in Nat
    /\ MaxPolls \in Nat \ {0}

VARIABLES
    stack,   \* the frames of the running transaction, the innermost last
    ret,     \* what the last call returned or raised
    token,   \* "live", or "cancelled" once the supervisor has cancelled
    client,  \* the client body: the action it runs and how it ended
    world,   \* what the transactions read and change
    strays   \* how often the world has moved on by itself

vars == <<stack, ret, token, client, world, strays>>

\* ----- frames ------------------------------------------------------------

Frame(f, v) == [fn |-> f, at |-> "begin", x |-> v, n |-> 0]

Here == stack[Len(stack)]

In(f) == stack # <<>> /\ Here.fn = f

At(l) == Here.at = l

Outside == UNCHANGED <<token, client, world, strays>>

Stand(frame) == stack' = [stack EXCEPT ![Len(stack)] = frame]

Goto(l) == Stand([Here EXCEPT !.at = l]) /\ UNCHANGED ret /\ Outside

\* Going on with another local value, or counting one more turn of a loop.
Keep(l, v) == Stand([Here EXCEPT !.at = l, !.x = v]) /\ UNCHANGED ret /\ Outside
Count(l) == Stand([Here EXCEPT !.at = l, !.n = @ + 1]) /\ UNCHANGED ret /\ Outside
KeepCount(l, v, m) ==
    Stand([Here EXCEPT !.at = l, !.x = v, !.n = m]) /\ UNCHANGED ret /\ Outside

\* Calling f with argument v; the caller resumes at l with the result in ret.
Call(f, v, l) ==
    /\ stack' = Append([stack EXCEPT ![Len(stack)].at = l], Frame(f, v))
    /\ UNCHANGED ret /\ Outside

\* The same, when the caller changes what it remembers of the world.
CallAfter(w, f, v, l) ==
    /\ stack' = Append([stack EXCEPT ![Len(stack)].at = l], Frame(f, v))
    /\ world' = w
    /\ UNCHANGED <<ret, token, client, strays>>

Return(r) ==
    /\ stack' = SubSeq(stack, 1, Len(stack) - 1)
    /\ ret' = r
    /\ Outside

Ok == Return("ok")
Fail == Return("failed")

\* The usual `if not result.success: return result`.
Then(A) == (ret = "ok" /\ A) \/ (ret # "ok" /\ Return(ret))
OkThen(l) == Then(Goto(l))

\* A perception may fail; so does the function that asked for it.
Read(A) == Fail \/ A

(* The points that catch a TimeoutError of the call they make.  An         *)
(* ExecutionCancelled is a BaseException: nothing below the supervisor     *)
(* catches it.                                                             *)
Catching == {<<"_align_for_descent", "moved">>,
             <<"recover_after_death", "spawned">>, <<"recover_after_death", "event">>,
             <<"move_to", "gone">>, <<"_java_ascend", "risen">>, <<"_java_dig_down", "dug">>}

Catches(frame, e) == e = "timeout" /\ <<frame.fn, frame.at>> \in Catching

\* The stack unwinds to the innermost frame that catches e, or altogether.
Raise(e) ==
    /\ \E depth \in 0..Len(stack) :
          /\ depth > 0 => Catches(stack[depth], e)
          /\ \A i \in (depth + 1)..Len(stack) : ~Catches(stack[i], e)
          /\ stack' = SubSeq(stack, 1, depth)
    /\ ret' = e

\* execution_checkpoint: going on only in a scope that has not been cancelled.
Checkpoint(A) ==
    \/ token = "live" /\ A
    \/ token = "cancelled" /\ Raise("cancelled") /\ Outside

\* ----- the world ---------------------------------------------------------

(* near: the Body is within reach of the target; there: it stands on the    *)
(* goal of its walk.  lever: the target is in the state asked for (a door  *)
(* open, a bed slept in, an item worn).  cell, site: the target block, and *)
(* a workstation put up on the way, stand.  drop, bag: wanted items on the *)
(* ground and carried.  did: units of what was asked for that the          *)
(* transaction has really brought about; extra: units a stray put into a   *)
(* slot the plan names.  oven: the furnace.  under: what a dug floor gives *)
(* way to; hurt: the Body came to harm by it.  y: its height.  hazard:     *)
(* the Body stands in one, or works next to one; tried: the navigator has  *)
(* answered this hazard.                                                   *)
World == [near : BOOLEAN, there : BOOLEAN, lever : BOOLEAN, cell : BOOLEAN, site : BOOLEAN,
          drop : 0..1, bag : 0..6, did : 0..6, extra : 0..1,
          oven : {"empty", "input", "lit", "baked"},
          under : {"rock", "gap", "deep", "lava"}, hurt : BOOLEAN, y : 0..4,
          hazard : BOOLEAN, tried : BOOLEAN]

Strata == {"rock", "gap", "deep", "lava"}

(* What a native action of this kind may have done to the world once it    *)
(* has completed; with no such outcome it cannot complete.  A kind is a    *)
(* verb and what it is done to.  Arriving is not being within reach, and a *)
(* click is not an effect: these are what the transactions look for        *)
(* afterwards.                                                             *)
Effect(k, w) ==
    CASE k[1] = "ready" -> {w}
      [] k[1] = "go"    -> {[w EXCEPT !.near = b, !.there = @ \/ k[2] = "goal", !.hazard = FALSE] :
                               b \in BOOLEAN}
      [] k[1] = "spawn" -> {[w EXCEPT !.lever = TRUE]}
      [] k[1] = "wear"  -> {[w EXCEPT !.lever = TRUE]}
      [] k[1] = "use"   -> {w, [w EXCEPT !.lever = ~@]}
      [] k[1] = "eat"   -> {w, [w EXCEPT !.did = @ + 1]}
      [] k[1] = "shift" -> {[w EXCEPT !.did = @ + 1]}
      [] k[1] = "dump"  -> {[w EXCEPT !.did = @ + 1 + w.extra, !.extra = 0]}
      [] k[1] = "place" -> {[w EXCEPT ![k[2]] = TRUE]}
      [] k[1] = "break" -> {[w EXCEPT ![k[2]] = FALSE, !.drop = 1, !.hurt = @ \/ w.hazard]}
      [] k[1] = "grab"  -> {w, [w EXCEPT !.bag = @ + w.drop, !.drop = 0]}
      [] k[1] = "rise"  -> {w, [w EXCEPT !.lever = TRUE]}
      [] k[1] = "ascend" -> {[w EXCEPT !.there = TRUE]}
      [] k[1] = "sink"  -> {[w EXCEPT !.y = 0]}
      [] k[1] = "climb" -> {[w EXCEPT !.y = 4]}
      [] k[1] = "pillar" -> {[w EXCEPT !.y = IF w.lever THEN @ + 1 ELSE @, !.lever = FALSE]}
      [] k[1] = "seal"  -> {w, [w EXCEPT !.hazard = FALSE]}
      [] k[1] = "mine"  -> {w} \cup {[w EXCEPT !.cell = FALSE, !.bag = @ + c] : c \in 1..Asked}
      [] k[1] = "load"  -> {[w EXCEPT !.oven = "input"] : o \in {w.oven} \cap {"empty"}}
      [] k[1] = "stoke" -> {IF w.oven = "input" THEN [w EXCEPT !.oven = "lit"] ELSE w}
      [] k[1] = "take"  -> {[w EXCEPT !.oven = "empty", !.did = @ + 1] : o \in {w.oven} \cap {"baked"}}
      [] k[1] = "unload" -> {[w EXCEPT !.oven = "empty"] : o \in {w.oven} \cap {"input", "lit"}}

\* ----- the client body ---------------------------------------------------

(* The primitive controls (select, look, stop, jump, move or drop a stack) *)
(* do not occupy the client's one action slot.                             *)
Control(k) == k[1] \in {"ready", "wear", "dump", "rise"}

Idle == <<"none", "none">>

ClientStart == [run |-> Idle, term |-> "none", unknown |-> FALSE, late |-> Idle]

(* _active is the running action, or the one whose end is unknown.         *)
Busy == client.unknown \/ (client.run # Idle /\ ~Control(client.run))

\* Mutant: the scope is not checked before a native action.
ExecuteUnchecked(k, l) ==
    \/ Busy /\ Fail
    \/ /\ ~Busy
       /\ client' = [client EXCEPT !.run = k, !.term = "none",
                                   !.late = IF client.run = Idle THEN @ ELSE client.run]
       /\ Stand([Here EXCEPT !.at = l])
       /\ UNCHANGED <<ret, token, world, strays>>

(* Before every native action the transaction's scope is checked and its   *)
(* deadline applied; a busy or quarantined client rejects the action, an   *)
(* accepted one runs in a thread of its own.                               *)
Execute(k, l) ==
    \/ /\ token = "cancelled"
       /\ Raise("cancelled")
       /\ UNCHANGED <<token, client, world, strays>>
    \/ token = "live" /\ Busy /\ Fail
    \/ /\ token = "live" /\ ~Busy
       /\ client' = [client EXCEPT !.run = k, !.term = "none",
                                   !.late = IF client.run = Idle THEN @ ELSE client.run]
       /\ Stand([Here EXCEPT !.at = l])
       /\ UNCHANGED <<ret, token, world, strays>>

(* The wait for the terminal: it is there, or its time is up.  The action  *)
(* is then still running, and its thread will find nobody waiting.         *)
Awaited == client.term # "none"

await_action_terminal ==
    \/ Awaited /\ Return(client.term)
    \/ /\ ~Awaited
       /\ Raise("timeout")
       /\ UNCHANGED <<token, client, world, strays>>

(* One native action from dispatch to terminal, as every file of body/     *)
(* writes it.                                                              *)
Native(k, l) == Call("_dispatch", k, l)

_dispatch ==
    /\ In("_dispatch")
    /\ \/ At("begin") /\ Execute(Here.x, "wait")
       \/ At("wait") /\ await_action_terminal

(* What a transaction of another family does to the world, by its result.  *)
(* A transaction that calls it takes its word; that it keeps it is checked *)
(* where it is the transaction that runs.                                  *)
Promise(f, v, w) ==
    LET Reached(b) == [w EXCEPT !.near = b]
        Stands(b) == [w EXCEPT ![v] = b]
    IN  CASE f = "navigate_to" ->
               {<<[u EXCEPT !.there = TRUE], "ok">> : u \in {Reached(b) : b \in BOOLEAN}} \cup
               {<<[u EXCEPT !.there = @ \/ c], r>> :
                   u \in {Reached(b) : b \in BOOLEAN}, c \in BOOLEAN, r \in {"failed", "paused"}}
          [] f \in {"ensure_interaction_range", "ensure_entity_range"} ->
               {<<Reached(TRUE), "ok">>} \cup {<<Reached(b), "failed">> : b \in BOOLEAN}
          [] f = "place_block" ->
               {<<Stands(TRUE), "ok">>, <<w, "refused">>} \cup {<<Stands(b), "failed">> : b \in BOOLEAN}
          [] f = "place_here" ->           \* at one spot after another
               {<<Stands(TRUE), "ok">>} \cup {<<Stands(b), r>> : b \in BOOLEAN, r \in {"failed", "refused"}}
          [] f = "mine_block" ->
               {<<Stands(FALSE), "ok">>} \cup {<<Stands(b), "failed">> : b \in {w[v], FALSE}}
          [] f = "mine_block_collect" ->
               {<<[Stands(FALSE) EXCEPT !.bag = @ + 1], "ok">>} \cup
               {<<[u EXCEPT !.bag = @ + c], "failed">> : u \in {Stands(b) : b \in {w[v], FALSE}}, c \in 0..1}
          [] f \in {"egress_to_dry", "go_to_surface", "dig_down_to_y"} ->
               {<<Reached(b), r>> : b \in BOOLEAN, r \in {"ok", "failed"}}
          [] f = "pickup" ->
               {<<[w EXCEPT !.bag = @ + w.drop, !.drop = 0], "ok">>,
                <<[w EXCEPT !.bag = @ + w.drop, !.drop = 0], "failed">>, <<w, "failed">>}

(* Calling a transaction of another family: it keeps its promise, or it is *)
(* cut off by a timeout or by the cancellation of the scope; it may leave  *)
(* an action behind that it does not know the end of.  A busy client and a *)
(* cancelled scope let it do nothing.                                      *)
Contracted(outcomes, l) ==
    LET Left == {client, [client EXCEPT !.unknown = TRUE]}
    IN  /\ UNCHANGED strays
        /\ \/ /\ token = "live" /\ Busy
              /\ Stand([Here EXCEPT !.at = l]) /\ ret' = "failed"
              /\ UNCHANGED <<token, client, world>>
           \/ /\ token = "cancelled"
              /\ Raise("cancelled")
              /\ UNCHANGED <<token, client, world>>
           \/ /\ token = "live" /\ ~Busy
              /\ \E o \in outcomes :
                    /\ world' = o[1]
                    /\ \/ /\ Stand([Here EXCEPT !.at = l]) /\ ret' = o[2]
                          /\ client' \in IF o[2] = "ok" THEN {client} ELSE Left
                          /\ UNCHANGED token
                       \/ /\ o[2] # "ok"
                          /\ Raise("timeout") /\ client' \in Left /\ UNCHANGED token
                       \/ /\ o[2] # "ok"
                          /\ Raise("cancelled") /\ token' = "cancelled" /\ UNCHANGED client

Deal(f, v, l) == Contracted(Promise(f, v, world), l)

(* The end of the action's thread.  The client completes it, fails it      *)
(* with or without an effect, or turns it down; or the link breaks, and    *)
(* what the client does with the action is known to nobody: the Body then  *)
(* stays quarantined, unless the action was a control.                     *)
_run_action ==
    /\ client.run # Idle /\ client.term = "none"
    /\ \/ \E w \in Effect(client.run, world) :
             world' = w /\ client' = [client EXCEPT !.run = Idle, !.term = "ok"]
       \/ \E w \in Effect(client.run, world) \cup {world} :
             world' = w /\ client' = [client EXCEPT !.run = Idle, !.term = "failed"]
       \/ /\ client' = [client EXCEPT !.run = Idle, !.term = "refused"]
          /\ UNCHANGED world
       \/ /\ client' = [client EXCEPT !.run = Idle, !.term = "failed", !.late = client.run,
                                      !.unknown = ~Control(client.run)]
          /\ UNCHANGED world
    /\ UNCHANGED <<stack, ret, token, strays>>

(* An action cut off from its caller goes on in the client, and ends.      *)
LateEffect ==
    /\ client.late # Idle
    /\ world' \in Effect(client.late, world) \cup {world}
    /\ client' = [client EXCEPT !.late = Idle]
    /\ UNCHANGED <<stack, ret, token, strays>>

\* Mutant: the quarantine ends without asking the client.
confirm_control_unasked ==
    /\ client.unknown
    /\ client' = [client EXCEPT !.unknown = FALSE]
    /\ UNCHANGED <<stack, ret, token, world, strays>>

(* The quarantine ends once the client reports that nothing runs.          *)
confirm_control_idle ==
    /\ client.unknown /\ client.late = Idle
    /\ client' = [client EXCEPT !.unknown = FALSE]
    /\ UNCHANGED <<stack, ret, token, world, strays>>

(* The supervisor cancels the scope, or the scope's deadline passes.       *)
cancel ==
    /\ token = "live" /\ stack # <<>>
    /\ token' = "cancelled"
    /\ UNCHANGED <<stack, ret, client, world, strays>>

============================================================================
