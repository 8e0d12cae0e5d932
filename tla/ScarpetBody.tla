--------------------------- MODULE ScarpetBody ---------------------------
(* The Body behind RCON (game/body.py, rcon.py, action_reconciliation.py): *)
(* a mutating action is sent once, and when its answer is lost the outcome *)
(* is found out without running the action twice.  The server's script is  *)
(* outside the repository; it is modelled from what Python relies on: it   *)
(* remembers the ids it received until it is reloaded, which starts a new  *)
(* epoch, or until its bounded ledger lets an id go, which it admits to.   *)
EXTENDS Integers, Sequences, FiniteSets

CONSTANTS
    Actions,     \* the ids of the actions that are carried out
    Kind,        \* "block": one cell shows it; "result": the answer is its outcome; "other"
    MaxEpochs,   \* server epochs
    MaxStrays    \* changes of a cell by somebody else

ASSUME ActionsAssumption == "death" \notin Actions
ASSUME KindAssumption == Kind \in [Actions -> {"block", "result", "other"}]
ASSUME BoundAssumption == MaxEpochs \in Nat /\ MaxStrays \in Nat

VARIABLES
    server,    \* epoch, ids remembered, those accepted, those whose terminal is kept, completeness
    act,       \* what the server does for an id: "none", "running", or its outcome, not yet published
    log,       \* the event log of the epoch: ids with outcome, and deaths
    cell,      \* the block an action is about: "before", "after" or "changed"
    copies,    \* requests Python has given up on and the server may still read
    starts,    \* history: how often the server began the action
    effects,   \* history: how often it did what the action is for
    excused,   \* history: forgotten by the server with a request under way, or disturbed by others
    strays,    \* changes by somebody else so far
    body,      \* the ScarpetBody
    outcome    \* what the caller was told of an action

rconVars == <<server, act, log, cell, copies, starts, effects, excused, strays, body, outcome>>
srvVars == <<server, act, starts, effects, cell>>
restVars == <<log, copies, excused, strays>>

NoEpoch == 0
Outcomes == {"ok", "failed"}
NobodyActs == [a \in Actions |-> "none"]
Fresh(e) == [epoch |-> e, got |-> {}, ok |-> {}, shown |-> {}, complete |-> TRUE]
Death == [who |-> "death", out |-> "failed"]

\* ACTION_RECONCILIATION_MAX_NOT_SEEN_RESENDS
MaxResends == 2

NoBody == [pc |-> "idle", a |-> "none", known |-> NoEpoch, sent |-> NoEpoch, match |-> FALSE,
           tries |-> 0, start |-> 0, last |-> 0, then |-> "unknown", heard |-> [a \in Actions |-> "none"]]

RconInit ==
    /\ server = Fresh(1) /\ act = NobodyActs /\ log = <<>>
    /\ cell = [a \in Actions |-> "before"]
    /\ copies = [a \in Actions |-> 0]
    /\ starts = [a \in Actions |-> 0] /\ effects = [a \in Actions |-> 0]
    /\ excused = {} /\ strays = 0
    /\ body = NoBody
    /\ outcome = [a \in Actions |-> "none"]

\* ----- the server --------------------------------------------------------

(* A request is read.  An id that is remembered is answered from memory;   *)
(* another is refused or begun.  A result action is over when it is begun. *)
Accepted(a) ==
    /\ server' = [server EXCEPT !.got = @ \cup {a}, !.ok = @ \cup {a}]
    /\ starts' = [starts EXCEPT ![a] = @ + 1]
    /\ IF Kind[a] = "result"
       THEN effects' = [effects EXCEPT ![a] = @ + 1] /\ UNCHANGED act
       ELSE act' = [act EXCEPT ![a] = "running"] /\ UNCHANGED effects
    /\ UNCHANGED cell

Refused(a) ==
    /\ server' = [server EXCEPT !.got = @ \cup {a}, !.ok = @ \ {a}]
    /\ UNCHANGED <<act, starts, effects, cell>>

Deliver(a) ==
    IF a \in server.got THEN UNCHANGED srvVars ELSE Accepted(a) \/ Refused(a)

(* A request Python has given up on is read after all.                     *)
LateRequest(a) ==
    /\ copies[a] > 0
    /\ copies' = [copies EXCEPT ![a] = @ - 1]
    /\ Deliver(a)
    /\ UNCHANGED <<log, excused, strays, body, outcome>>

(* The action ends; the owner is released before the event is published.   *)
EndAction(a) ==
    /\ act[a] = "running"
    /\ \E out \in Outcomes :
         /\ act' = [act EXCEPT ![a] = out]
         /\ IF out = "ok"
            THEN effects' = [effects EXCEPT ![a] = @ + 1] /\ cell' = [cell EXCEPT ![a] = "after"]
            ELSE UNCHANGED <<effects, cell>>
    /\ UNCHANGED <<server, starts, restVars, body, outcome>>

Publish(a) ==
    /\ act[a] \in Outcomes
    /\ log' = Append(log, [who |-> a, out |-> act[a]])
    /\ server' = [server EXCEPT !.shown = @ \cup {a}]
    /\ act' = [act EXCEPT ![a] = "none"]
    /\ UNCHANGED <<cell, copies, starts, effects, excused, strays, body, outcome>>

(* A death ends every wait for a terminal and is an event of no action.    *)
Die ==
    /\ log = <<>> /\ body.pc = "await"
    /\ log' = Append(log, Death)
    /\ UNCHANGED <<srvVars, copies, excused, strays, body, outcome>>

\* A request for the action is under way, or is about to be.
Resending == {"resend", "probed"}
UnderWay(a) == copies[a] > 0 \/ (body.a = a /\ body.pc \in Resending)

(* The script is reloaded: what it was doing is cut off, and its memory    *)
(* and its log begin anew.                                                 *)
Reload ==
    /\ server.epoch < MaxEpochs
    /\ server' = Fresh(server.epoch + 1) /\ act' = NobodyActs /\ log' = <<>>
    /\ excused' = excused \cup {a \in Actions : UnderWay(a)}
    /\ UNCHANGED <<cell, copies, starts, effects, strays, body, outcome>>

(* The bounded ledger lets an id go that is done with.                     *)
Evict(a) ==
    /\ a \in server.got /\ act[a] = "none"
    /\ server' = [server EXCEPT !.got = @ \ {a}, !.ok = @ \ {a}, !.shown = @ \ {a}, !.complete = FALSE]
    /\ excused' = excused \cup {b \in {a} : UnderWay(b)}
    /\ UNCHANGED <<act, log, cell, copies, starts, effects, strays, body, outcome>>

(* Somebody else changes the block.                                        *)
StrayBlock(a) ==
    /\ Kind[a] = "block" /\ strays < MaxStrays
    /\ strays' = strays + 1
    /\ \E v \in {"before", "after", "changed"} \ {cell[a]} : cell' = [cell EXCEPT ![a] = v]
    /\ excused' = excused \cup {a}
    /\ UNCHANGED <<server, act, log, copies, starts, effects, body, outcome>>

\* ----- the Body ----------------------------------------------------------

Tell(b, what) ==
    /\ body' = [b EXCEPT !.pc = "idle", !.a = "none"]
    /\ outcome' = [outcome EXCEPT ![b.a] = what]

To(b) == body' = b /\ UNCHANGED outcome

(* execute of a mutating action: the epoch is asked for when none is known, which may fail, and *)
(* the action is sent under the one that is known.                         *)
execute_mutation(a) ==
    /\ body.pc = "idle" /\ outcome[a] = "none"
    /\ \E e \in IF body.known = NoEpoch THEN {NoEpoch, server.epoch} ELSE {body.known} :
         To([body EXCEPT !.pc = "dispatch", !.a = a, !.known = e, !.sent = e, !.match = FALSE,
                         !.tries = 0, !.start = body.last])
    /\ UNCHANGED <<srvVars, restVars>>

\* Mutant: an action that is accepted counts as done.
AnswerAcceptedIsDone(b, ok) == Tell(b, IF ok THEN "ok" ELSE "refused")

(* The answer to a request: refused, over at once, or to be awaited.       *)
Answer(b, ok) ==
    IF ~ok THEN Tell(b, "refused")
    ELSE IF Kind[b.a] = "result" THEN Tell(b, "ok")
    ELSE To([b EXCEPT !.pc = "await"])

Sending == {"dispatch"} \cup Resending

Answered ==
    /\ body.pc \in Sending
    /\ Deliver(body.a)
    /\ Answer(body, body.a \in server'.ok)
    /\ UNCHANGED restVars

(* The answer is lost, or the request is still on its way when Python      *)
(* gives up.  Only the first request and the resend after "not seen" are   *)
(* followed up.                                                            *)
AfterLoss(pc) ==
    CASE pc = "dispatch" -> "status" [] pc = "resend" -> "restatus" [] OTHER -> "unknown"

RequestFails ==
    /\ body.pc \in Sending
    /\ \/ Deliver(body.a) /\ UNCHANGED copies
       \/ copies' = [copies EXCEPT ![body.a] = @ + 1] /\ UNCHANGED srvVars
    /\ To([body EXCEPT !.pc = AfterLoss(body.pc)])
    /\ UNCHANGED <<log, excused, strays>>

\* Mutant: any epoch will do.
NotSeenAnyEpoch(b) ==
    b.sent # NoEpoch /\ b.a \notin server.got /\ server.complete

(* The server says in the epoch of the dispatch, with a complete ledger,   *)
(* that it has not received the id.                                        *)
_status_proves_not_seen(b) ==
    /\ b.sent # NoEpoch /\ server.epoch = b.sent
    /\ b.a \notin server.got /\ server.complete

\* What the server remembers settles the action without an event.
Remembered(b) == b.a \in server.got /\ (b.a \notin server.ok \/ Kind[b.a] = "result")

Unknown(b) == Tell(b, "unknown")

(* The first status read after a lost answer (_reconcile_mutation_dispatch)*)
ReadStatus ==
    /\ body.pc = "status"
    /\ LET b == [body EXCEPT !.match = (body.sent # NoEpoch /\ server.epoch = body.sent)]
       IN  \/ Unknown(body)
           \/ Remembered(b) /\ Answer(b, b.a \in server.ok)
           \/ /\ ~Remembered(b)
              /\ IF _status_proves_not_seen(b) THEN To([b EXCEPT !.pc = "resend", !.tries = 1])
                 ELSE To([b EXCEPT !.pc = "wait", !.then = "probe"])
    /\ UNCHANGED <<srvVars, restVars>>

(* poll_events: what lies after the last number read.                      *)
Unread(b) == {n \in 1..Len(log) : n > b.last}
TerminalIn(ns, a) == {log[n].out : n \in {m \in ns : log[m].who = a}}
HeardOf(b, a) ==
    IF b.heard[a] = "none" /\ TerminalIn(Unread(b), a) # {}
    THEN CHOOSE o \in TerminalIn(Unread(b), a) : TRUE ELSE b.heard[a]
poll_events(b) ==
    [b EXCEPT !.last = IF Len(log) > @ THEN Len(log) ELSE @,
              !.heard = [a \in Actions |-> HeardOf(b, a)]]

(* The number of a terminal that was not read from the log: its own when   *)
(* that is new, otherwise the next one.                                    *)
_register_reconciled_terminal(b, out, seq) ==
    IF b.heard[b.a] # "none" THEN b
    ELSE [b EXCEPT !.heard[b.a] = out, !.last = IF seq > @ THEN seq ELSE @ + 1]

\* The terminal the status carries: the outcome and the place in the log.
StatusTerminal(a) ==
    IF a \in server.shown THEN {n \in 1..Len(log) : log[n].who = a} ELSE {}

(* One look at the status and at the log finds the terminal.               *)
Settles(b) ==
    IF StatusTerminal(b.a) # {}
    THEN \E n \in StatusTerminal(b.a) :
            To([_register_reconciled_terminal(b, log[n].out, n) EXCEPT !.pc = "await"])
    ELSE /\ poll_events(b).heard[b.a] # "none"
         /\ To([poll_events(b) EXCEPT !.pc = "await"])

(* The status after a resend whose answer was lost.                        *)
ReadStatusAgain ==
    /\ body.pc = "restatus"
    /\ \/ Unknown(body)
       \/ Settles(body)
       \/ LET b == poll_events(body)
          IN  /\ StatusTerminal(b.a) = {} /\ b.heard[b.a] = "none"
              /\ \/ Remembered(b) /\ Answer(b, b.a \in server.ok)
                 \/ /\ ~Remembered(b)
                    /\ IF ~_status_proves_not_seen(b) THEN To([b EXCEPT !.pc = "wait", !.then = "unknown"])
                       ELSE IF b.tries < MaxResends THEN To([b EXCEPT !.pc = "resend", !.tries = @ + 1])
                       ELSE Unknown(b)
    /\ UNCHANGED <<srvVars, restVars>>

(* _wait_for_reconciled_terminal: status, log and the activity of the Body *)
(* are read again and again; reading the head of the log tells the epoch.  *)
(* It ends with the terminal, or without one: the Body is idle, a read has *)
(* failed, or the time is up.                                              *)
LookAgain ==
    /\ body.pc = "wait"
    /\ \/ Settles(body)
       \/ LET b == poll_events(body)
          IN  /\ StatusTerminal(b.a) = {} /\ b.heard[b.a] = "none"
              /\ \E e \in {b.known, server.epoch} : To([b EXCEPT !.known = e])
    /\ UNCHANGED <<srvVars, restVars>>

GiveUpWaiting ==
    /\ body.pc = "wait"
    /\ To([body EXCEPT !.pc = body.then])
    /\ UNCHANGED <<srvVars, restVars>>

(* What the cell of a block action tells of it.                            *)
classify_authoritative_block(a) ==
    CASE Kind[a] = "block" /\ cell[a] = "after" -> "applied"
      [] Kind[a] = "block" /\ cell[a] = "before" -> "not_applied"
      [] OTHER -> "unknown"

(* The state it was to bring about settles the action, the state before it *)
(* allows one more request when the first status was of the epoch of the   *)
(* dispatch.                                                               *)
ProbeBlock ==
    /\ body.pc = "probe"
    /\ \/ Unknown(body)
       \/ /\ classify_authoritative_block(body.a) = "applied"
          /\ To([_register_reconciled_terminal(body, "ok", 0) EXCEPT !.pc = "await"])
       \/ /\ classify_authoritative_block(body.a) = "not_applied" /\ body.match
          /\ To([body EXCEPT !.pc = "probed"])
    /\ UNCHANGED <<srvVars, restVars>>

SayUnknown ==
    /\ body.pc = "unknown" /\ Unknown(body)
    /\ UNCHANGED <<srvVars, restVars>>

(* await_action_terminal: the terminal of the action, a death, or the      *)
(* deadline.                                                               *)
await_action_terminal ==
    /\ body.pc = "await"
    /\ LET b == poll_events(body)
       IN  \/ b.heard[b.a] # "none" /\ Tell(b, b.heard[b.a])
           \/ (\E n \in Unread(body) : log[n] = Death) /\ Tell(b, "death")
           \/ b.heard[b.a] = "none" /\ Tell(b, "timeout")
    /\ UNCHANGED <<srvVars, restVars>>

RconServer ==
    \/ \E a \in Actions : LateRequest(a) \/ EndAction(a) \/ Publish(a) \/ Evict(a) \/ StrayBlock(a)
    \/ Die \/ Reload

RconBody ==
    \/ \E a \in Actions : execute_mutation(a)
    \/ Answered \/ RequestFails \/ ReadStatus \/ ReadStatusAgain \/ LookAgain \/ GiveUpWaiting
    \/ ProbeBlock \/ SayUnknown \/ await_action_terminal

RconNext == RconServer \/ RconBody

RconSpec == RconInit /\ [][RconNext]_rconVars

\* ----- properties --------------------------------------------------------

(* A lost answer never makes an action happen twice: an action that is not *)
(* about one block is begun once, and one that is has its effect once.     *)
(* Excepted is an action the server forgot while a request for it was      *)
(* under way, or whose block others changed.                               *)
AppliedOnce ==
    \A a \in Actions \ excused :
        effects[a] <= 1 /\ (Kind[a] # "block" => starts[a] <= 1)

(* What the caller is told is so: a refused action has done nothing, a     *)
(* successful one was carried out once, and a failed one was begun.        *)
ToldIsTrue ==
    \A a \in Actions \ excused :
        /\ outcome[a] = "refused" => effects[a] = 0
        /\ outcome[a] = "ok" => effects[a] = 1
        /\ outcome[a] = "failed" => starts[a] >= 1

(* "Preserve exactly-once across reloads: only resend when the receive     *)
(* ledger epoch also matches": a block that looks untouched is acted upon  *)
(* again only if the epoch Python was last told is that of the dispatch.   *)
ResentInEpoch == body.pc = "probed" => body.known = body.sent
==========================================================================
