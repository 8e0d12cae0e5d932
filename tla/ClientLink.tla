----------------------------- MODULE ClientLink ----------------------------
(***************************************************************************)
(* The Body of the real client (real_client_body.py) over its socket       *)
(* (real_client_ipc.py) to the client mod of ClientBody: the threads of    *)
(* the calls, the interrupt, the reading that lifts a quarantine, the      *)
(* reader of the socket, and on the other side the thread that serves the  *)
(* connection and the client thread.  The link may break, either side may  *)
(* close it, the Python process may be started again, the player may die   *)
(* or lose the world.                                                      *)
(***************************************************************************)
EXTENDS ClientBody, FiniteSets

CONSTANTS
    Ids,    \* the calls of this history
    Loads   \* what a history holds: the kind of each call, the events that may befall it once

ASSUME CallsAssumption ==
    /\ None \notin Ids
    /\ \A l \in Loads : l.kinds \in [Ids -> Objectives \cup Structured \cup {"none"}]

VARIABLES
    c,      \* the client
    wire,   \* requests on the socket
    tasks,  \* what waits for the client thread
    py,     \* the Body in Python
    told,   \* the lifecycle edges its listeners were told, in order
    load,   \* the kinds of the calls
    may     \* the events that may still befall

vars == <<c, wire, tasks, py, told, load, may>>

(* sock: the connection, 0 for none; broken: its reader has failed.  conns:*)
(* connections made.  active, unknown: the call that has the client, and   *)
(* the quarantine.  at: each call is new, begun, ready to send, waiting,   *)
(* done; how: what came of it.  got: messages nobody has taken.  ask: a    *)
(* reading of the state is under way, and for whom; asks: its number;      *)
(* since: the calls that were waiting when it was asked for.  late: calls whose terminal came    *)
(* after they had given up; early: calls canceled before they were sent.   *)
StartBody ==
    [sock |-> 0, broken |-> FALSE, conns |-> 0, ready |-> FALSE, active |-> None, unknown |-> FALSE,
     at |-> [i \in Ids |-> "new"], how |-> [i \in Ids |-> "none"], got |-> {},
     ask |-> "no", asks |-> 0, since |-> {}, late |-> {}, early |-> {}]

Init ==
    /\ c = StartClient
    /\ wire = <<>> /\ tasks = <<>> /\ py = StartBody /\ told = <<>>
    /\ \E l \in Loads : load = l.kinds /\ may = l.may

Befalls(e) == e \in may /\ may' = may \ {e}

\* ----- the socket, Python's end ------------------------------------------

Up(p) == p.sock # 0 /\ p.sock = c.link

(* A request is lost when the socket is dead and sending does not notice.  *)
send(p, m) == IF Up(p) THEN Append(wire, [m EXCEPT !.conn = p.sock]) ELSE wire

Request(type, id) == [type |-> type, conn |-> 0, id |-> id, kind |-> IF id \in Ids THEN load[id] ELSE "none"]

(* A socket that exists is kept, dead or not.                              *)
connect(p) ==
    IF p.sock # 0 THEN p
    ELSE [p EXCEPT !.sock = p.conns + 1, !.conns = @ + 1, !.broken = FALSE, !.got = {}]

Connected(p) == c' = IF p.sock = py.sock THEN c ELSE [c EXCEPT !.link = p.sock, !.out = <<>>]

(* The reader hands edges to their listeners, each once, and keeps the     *)
(* rest for who waits.                                                     *)
_on_lifecycle_event(e) ==
    told' = IF \E k \in DOMAIN told : told[k].seq = e.seq THEN told ELSE Append(told, e)

_read_loop ==
    /\ py.sock # 0 /\ ~py.broken
    /\ \/ /\ c.out # <<>>
          /\ LET m == Head(c.out)
             IN  IF m.type = "edge" THEN _on_lifecycle_event(m) /\ py' = py
                 ELSE py' = [py EXCEPT !.got = @ \cup {m}] /\ told' = told
          /\ c' = [c EXCEPT !.out = Tail(@)]
       \/ /\ c.out = <<>> /\ ~Up(py)
          /\ py' = [py EXCEPT !.broken = TRUE]
          /\ UNCHANGED <<c, told>>
    /\ UNCHANGED <<wire, tasks, load, may>>

\* ----- calls -------------------------------------------------------------

(* One call at a time, and none in quarantine.                             *)
execute(id) ==
    /\ load[id] # "none" /\ py.at[id] = "new" /\ py.active = None /\ ~py.unknown
    /\ py' = [py EXCEPT !.active = id, !.at[id] = "begun"]
    /\ UNCHANGED <<c, wire, tasks, told, load, may>>

\* Mutant: a call that failed in transport gives the client back.
Finish_forgets(p, id, how) ==
    [p EXCEPT !.at[id] = "done", !.how[id] = how, !.active = IF @ = id THEN None ELSE @]

(* An answer of the client gives it back; without one it stays taken, in   *)
(* quarantine.                                                             *)
Finish(p, id, how) ==
    LET q == [p EXCEPT !.at[id] = "done", !.how[id] = how]
    IN  IF p.active # id THEN q
        ELSE IF how = "transport" THEN [q EXCEPT !.unknown = TRUE] ELSE [q EXCEPT !.active = None]

(* _run_action, first part: the connection, and the client's ready.        *)
_ensure_connected(id) ==
    /\ py.at[id] = "begun"
    /\ LET p == connect(py)
           first == [type |-> "ready"]
       IN  \/ Connected(p) /\ py' = IF p.ready THEN [p EXCEPT !.at[id] = "send"] ELSE [p EXCEPT !.at[id] = "ready"]
           \/ p.sock # py.sock /\ c' = c /\ py' = Finish(py, id, "transport")
    /\ UNCHANGED <<wire, tasks, told, load, may>>

wait_ready(id) ==
    /\ py.at[id] = "ready"
    /\ LET first == [type |-> "ready"]
       IN  \/ first \in py.got /\ py' = [py EXCEPT !.got = @ \ {first}, !.ready = TRUE, !.at[id] = "send"]
           \/ first \notin py.got /\ py' = Finish(py, id, "transport")
    /\ UNCHANGED <<c, wire, tasks, told, load, may>>

SendCommand(id) ==
    /\ py.at[id] = "send"
    /\ \/ py.sock # 0 /\ py' = [py EXCEPT !.at[id] = "waiting"] /\ wire' = send(py, Request("command", id))
       \/ ~Up(py) /\ py' = Finish(py, id, "transport") /\ wire' = wire
    /\ UNCHANGED <<c, tasks, told, load, may>>

Answers(id) == {m \in py.got : m.type \in {"terminal", "rejected"} /\ m.id = id}

(* _wait_terminal: the terminal; a rejection, a dead socket and the        *)
(* deadline are failures of the transport.  The deadline of a call is no   *)
(* sooner than that of a reading asked for before the call was sent.       *)
_wait_terminal(id) ==
    /\ py.at[id] = "waiting"
    /\ \/ \E m \in Answers(id) :
             py' = Finish([py EXCEPT !.got = @ \ {m}], id, IF m.type = "terminal" THEN m.status ELSE "transport")
       \/ /\ Answers(id) = {}
          /\ py.broken \/ py.sock = 0 \/ py.ask = "no" \/ id \in py.since
          /\ py' = Finish(py, id, "transport")
    /\ UNCHANGED <<c, wire, tasks, told, load, may>>

\* ----- interrupt and the reading of the state ----------------------------

Waiting(p) == {i \in Ids : p.at[i] = "waiting"}

(* Asks for the client's state, for confirm_control_idle or for an         *)
(* interrupt that finds no call.                                           *)
Ask(for) ==
    /\ py.ask = "no"
    /\ LET p == connect(py)
       IN  /\ p.ready \/ [type |-> "ready"] \in p.got
           /\ Connected(p)
           /\ py' = [p EXCEPT !.ask = for, !.asks = @ + 1, !.since = Waiting(p), !.ready = TRUE, !.got = @ \ {[type |-> "ready"]}]
           /\ wire' = send(p, Request("state", -(p.asks + 1)))
    /\ UNCHANGED <<tasks, told, load>>

confirm_control_idle == Befalls("confirm") /\ Ask("confirm")

interrupt ==
    /\ Befalls("interrupt")
    /\ IF py.active = None THEN Ask("interrupt")
       ELSE /\ wire' = send(py, Request("cancel", py.active))
            /\ py' = [py EXCEPT !.early = IF py.at[py.active] \in {"begun", "ready", "send"} THEN @ \cup {py.active} ELSE @]
            /\ UNCHANGED <<c, tasks, told, load>>

(* Terminals that came after their call had given up are kept as such.     *)
take_late_terminal(p) ==
    LET late == {m \in p.got : m.type = "terminal" /\ p.how[m.id] = "transport" /\ m.id \notin p.late}
    IN  [p EXCEPT !.got = @ \ late, !.late = @ \cup {m.id : m \in late}]

(* No action and Baritone at rest lift the quarantine.                     *)
Lift(p, says) ==
    IF says.active = None /\ says.still
    THEN [p EXCEPT !.unknown = FALSE, !.active = IF @ # None /\ p.at[@] = "done" THEN None ELSE @]
    ELSE p

Reading == {m \in py.got : m.type = "state" /\ m.id = -py.asks}

StateAnswered ==
    /\ py.ask # "no"
    /\ \/ \E m \in Reading :
                LET p == [py EXCEPT !.got = @ \ {m}, !.ask = "no", !.since = {}]
                IN  IF py.ask = "confirm" THEN py' = Lift(take_late_terminal(p), m.says) /\ wire' = wire
                    ELSE py' = p /\ wire' = IF m.says.still THEN wire ELSE send(p, Request("stop", None))
       \/ /\ Reading = {}
          /\ py' = [py EXCEPT !.ask = "no", !.since = {}] /\ wire' = wire
    /\ UNCHANGED <<c, tasks, told, load, may>>

(* Controls and readings: refused while a call has the client; their       *)
(* answers change nothing.                                                 *)
Control(type) ==
    /\ Befalls(type) /\ py.ready /\ py.sock # 0
    /\ type \notin {"read", "world_read"} => py.active = None
    /\ wire' = send(py, Request(type, None))
    /\ UNCHANGED <<c, tasks, py, told, load>>

\* ----- ends of the link --------------------------------------------------

Cut == c' = [c EXCEPT !.link = 0, !.out = <<>>]

Prefixes(s) == {SubSeq(s, 1, k) : k \in 0..Len(s)}

(* What is under way is lost from some message on, each way.               *)
LinkBreaks ==
    /\ c.link # 0 /\ Befalls("break")
    /\ \E o \in Prefixes(c.out), w \in Prefixes(wire) : c' = [c EXCEPT !.link = 0, !.out = o] /\ wire' = w
    /\ UNCHANGED <<tasks, py, told, load>>

close ==
    /\ py.sock # 0 /\ Befalls("close")
    /\ Cut
    /\ py' = [py EXCEPT !.sock = 0, !.ready = FALSE, !.broken = TRUE]
    /\ UNCHANGED <<wire, tasks, told, load>>

(* A new process knows nothing of the old one's calls and edges.           *)
PythonRestarts ==
    /\ Befalls("restart")
    /\ Cut /\ told' = <<>>
    /\ py' = [StartBody EXCEPT !.conns = py.conns,
                               !.at = [i \in Ids |-> IF py.at[i] = "new" THEN "new" ELSE "done"]]
    /\ UNCHANGED <<wire, tasks, load>>

\* ----- the client's end --------------------------------------------------

(* serve, one connection after the other: accepts, passes requests on, and *)
(* notices the end when what was sent has been read.  A connection that was*)
(* closed before it was accepted is read with the next one: the client     *)
(* thread ignores its requests either way.                                 *)
ServeAccepts ==
    /\ c.peer = 0 /\ c.link # 0
    /\ c' = [c EXCEPT !.peer = c.link]
    /\ tasks' = IF c.ready THEN Append(tasks, [type |-> "replay", conn |-> c.link]) ELSE tasks
    /\ UNCHANGED <<wire, py, told, load, may>>

ServeReads ==
    /\ c.peer # 0 /\ wire # <<>> /\ Head(wire).conn <= c.peer
    /\ tasks' = Append(tasks, Head(wire)) /\ wire' = Tail(wire)
    /\ UNCHANGED <<c, py, told, load, may>>

ServeLoses ==
    /\ c.peer # 0 /\ c.link # c.peer /\ ~(wire # <<>> /\ Head(wire).conn <= c.peer)
    /\ c' = [c EXCEPT !.peer = 0]
    /\ tasks' = Append(tasks, [type |-> "lost", conn |-> c.peer])
    /\ UNCHANGED <<wire, py, told, load, may>>

ClientThread ==
    /\ tasks # <<>>
    /\ LET t == Head(tasks)
       IN  CASE t.type = "replay" -> c' = SendReady(c, t.conn)
             [] t.type = "lost" -> c' = handle_lost(c, t.conn)
             [] OTHER -> c' \in handle(c, t)
    /\ tasks' = Tail(tasks)
    /\ UNCHANGED <<wire, py, told, load, may>>

Rest == <<wire, tasks, py, told, load>>

Tick == c.inWorld /\ c' \in tick(c) /\ UNCHANGED <<Rest, may>>

DeadlinePasses == Running(c) /\ ~c.run.late /\ c' = [c EXCEPT !.run.late = TRUE] /\ UNCHANGED <<Rest, may>>

(* Baritone lets go, or has finished of itself.                            *)
BaritoneSettles ==
    c.bari \in {"on", "ending"} /\ c' = [c EXCEPT !.bari = "off", !.raw = FALSE] /\ UNCHANGED <<Rest, may>>

BaritoneMutates ==
    /\ Running(c) /\ isVertical(c.run) /\ c.bari # "off"
    /\ c' \in allowVerticalMutation(c) /\ UNCHANGED <<Rest, may>>

MenuAnswered == c.menu = "asked" /\ \E s \in {"open", "none"} : c' = [c EXCEPT !.menu = s] /\ UNCHANGED <<Rest, may>>

WorldAnswers ==
    /\ Running(c) /\ ~c.run.sign
    /\ c' \in {observeBlockUpdate(c), observePickup(c)} /\ c' # c
    /\ UNCHANGED <<Rest, may>>

PlayerDies ==
    /\ c.inWorld /\ ~c.dead /\ Befalls("die")
    /\ c' = [c EXCEPT !.dead = TRUE, !.screen = TRUE] /\ UNCHANGED Rest

PlayerReturns ==
    /\ c.inWorld /\ c.dead /\ c.asked
    /\ c' = [c EXCEPT !.dead = FALSE, !.screen = FALSE] /\ UNCHANGED <<Rest, may>>

WorldLeft == c.inWorld /\ Befalls("leave") /\ c' = leaveWorld(c) /\ UNCHANGED Rest

WorldJoined == ~c.inWorld /\ c' = joinWorld(c) /\ UNCHANGED <<Rest, may>>

Controls == {"read", "world_read", "builder_open", "close_screen"}

Call(id) == _ensure_connected(id) \/ wait_ready(id) \/ SendCommand(id) \/ _wait_terminal(id)

Serve == ServeAccepts \/ ServeReads \/ ServeLoses

Next ==
    \/ \E id \in Ids : execute(id) \/ Call(id)
    \/ interrupt \/ confirm_control_idle \/ StateAnswered \/ _read_loop
    \/ \E t \in Controls : Control(t)
    \/ LinkBreaks \/ close \/ PythonRestarts
    \/ Serve \/ ClientThread \/ Tick
    \/ DeadlinePasses \/ BaritoneSettles \/ BaritoneMutates \/ MenuAnswered \/ WorldAnswers
    \/ PlayerDies \/ PlayerReturns \/ WorldLeft \/ WorldJoined

(* The client's threads run, Baritone lets go, deadlines pass, the server  *)
(* answers a respawn, a world is joined again.                             *)
Fairness ==
    /\ WF_vars(Serve) /\ WF_vars(ClientThread) /\ WF_vars(Tick)
    /\ WF_vars(DeadlinePasses) /\ WF_vars(BaritoneSettles)
    /\ WF_vars(PlayerReturns) /\ WF_vars(WorldJoined)

Spec == Init /\ [][Next]_vars /\ Fairness

\* ----- properties --------------------------------------------------------

(* When no action is under way none has left anything behind: no setting   *)
(* of Baritone changed, the use key up, and Baritone at rest unless a      *)
(* control set it going (requestStop, terminal, the DISCONNECT handler).   *)
NothingLeftBehind ==
    ~Running(c) => c.changed = {} /\ "use" \notin c.keys /\ (c.bari # "off" => c.raw)

(* While its connection holds, an action that acts in the client is the    *)
(* one Python holds the Body for: neither a failed wait nor a reading of   *)
(* the state gives the Body away under it (execute, _run_action,           *)
(* confirm_control_idle).  The calls that were canceled before they were   *)
(* sent are left out: the client's refusal of the cancel, which carries    *)
(* the same action_id, passes for the refusal of the command that follows. *)
ActsForItsHolder ==
    Running(c) /\ c.run.stop = "no" /\ c.run.peer = c.link /\ c.link = py.sock =>
        py.active = c.run.id \/ c.run.id \in py.early

Quiet == wire = <<>> /\ tasks = <<>> /\ c.out = <<>>

(* Every edge the client keeps has been told once when a ready client and  *)
(* a connected Python have exchanged all they had to say, whatever was     *)
(* lost with earlier connections (serve, tick, _on_lifecycle_event).       *)
EdgesTold ==
    /\ \A j, k \in DOMAIN told : told[j].seq = told[k].seq => j = k
    /\ Quiet /\ c.ready /\ c.peer # 0 /\ c.peer = c.link /\ c.link = py.sock /\ ~py.broken =>
          \A k \in DOMAIN c.events : \E j \in DOMAIN told : told[j].seq = c.events[k].seq

(* An action that was told to stop does nothing more: it presses no key,   *)
(* sets Baritone to nothing, asks for no menu and changes no block before  *)
(* its terminal (requestStop, tick, allowVerticalMutation).                *)
StoppedIsQuiet ==
    [][Running(c) /\ c.run.stop # "no" /\ c'.run.id = c.run.id =>
         /\ c'.run.stop = c.run.stop /\ c'.run.touched = c.run.touched
         /\ c'.keys \subseteq c.keys /\ c'.run.saved \subseteq c.run.saved
         /\ c'.bari = "on" => c.bari = "on"
         /\ c'.menu = "asked" => c.menu = "asked"]_vars

(* The client is free again and again: every action comes to its terminal, *)
(* whatever happens to the player, the world, the link or Python.          *)
ClientFreed == []<>~Running(c)

============================================================================
