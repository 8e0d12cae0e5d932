----------------------------- MODULE WorkQueue -----------------------------
(***************************************************************************)
(* One scheduler process at a time over the durable ledger: start-up and   *)
(* its reconciliation, the session loop that leases and settles intents,   *)
(* the two ingress paths (Body events, chat) with the cursor they share,   *)
(* and the wake-up flag between them.                                      *)
(*                                                                         *)
(* The session loop, the Body event pump and the chat reader run on        *)
(* different threads.  A step here is one transaction of the store or one  *)
(* write of the flag; the process can die between any two of them.         *)
(*                                                                         *)
(* An event log is "an optional backend facility": the server-side Body    *)
(* has one (event_head), the client Body none.  Without it there is no     *)
(* cursor, no start-up reconciliation and no chat, commands come from      *)
(* standard input, and the client's edges arrive as calls.                 *)
(***************************************************************************)
EXTENDS WorkLedger

CONSTANTS
    EventLogs,     \* whether the Body of the scope may and may not keep an event log
    CommandKinds,  \* the kinds of command that a line is parsed into
    Steering,      \* native_responses: messages are fed to a running turn
    MaxEvents,     \* bound: material Body events of one epoch
    MaxChats,      \* bound: chat lines of one epoch
    MaxEpochs,     \* bound: event epochs (server-side logs)
    MaxFacts,      \* bound: reflex facts, heartbeats, the client's edges and
                   \* the lines of standard input
    MaxDeaths,     \* bound: how often a running process dies or ends
    MaxFailedStarts, \* bound: how often a process dies or gives up starting
    MaxRevision    \* bound: the revision from which a lease no longer expires

ASSUME CommandAssumption == CommandKinds \subseteq Kinds /\ Steering \in BOOLEAN
ASSUME LogAssumption == EventLogs \subseteq BOOLEAN
ASSUME WorldAssumption ==
    /\ MaxEvents \in Nat /\ MaxChats \in Nat /\ MaxEpochs \in Nat
    /\ MaxFacts \in Nat /\ MaxDeaths \in Nat /\ MaxFailedStarts \in Nat
    /\ MaxRevision \in Nat

VARIABLES
    rows,     \* the ledger (durable)
    cursor,   \* the event cursor (durable); epoch 0 while there is none
    world,    \* the server's event and chat logs: epoch and length of each
    eventLog, \* the Body of this scope keeps such logs (it has event_head)
    origin,   \* where reading of the current epoch began
    boot,     \* how far the scheduler process has come
    mem,      \* Body.last_seq and last_chat_seq of the process
    orphans,  \* queue.orphaned_intents of the process
    carried,  \* events of stale intents, while they are being merged
    avail,    \* queue.available
    flag,     \* what each thread is about to do to the flag
    news,     \* notification_version has moved since it was last looked at
    loop,     \* where the session loop stands
    held,     \* the lease of the running step
    steered,  \* the lease of a message fed to the running step
    polled,   \* Body events read and not yet entered
    chat,     \* where the chat reader stands
    todo,     \* chat lines read and not yet submitted
    cmd,      \* the control command being submitted
    facts, deaths, failed

durable == <<rows, cursor>>
process == <<boot, mem, orphans, carried>>
wake == <<avail, flag, news>>
session == <<loop, held, steered, polled>>
reader == <<chat, todo, cmd>>
counts == <<facts, deaths, failed>>
vars == <<durable, world, eventLog, origin, process, wake, session, reader, counts>>

Threads == {"loop", "pump", "chat"}
NoToken == [id |-> NoId, rev |-> 0]
Tokens == [id : Ids \cup {NoId}, rev : Nat]
Position == [epoch : Nat, ev : Nat, chat : Nat]
BodyKey(n) == [stream |-> "body", epoch |-> world.epoch, seq |-> n]
ChatKey(n) == [stream |-> "chat", epoch |-> world.epoch, seq |-> n]

TypeOK ==
    /\ rows \in [Ids -> Rows]
    /\ cursor \in Position /\ world \in Position /\ mem \in Position
    /\ eventLog \in BOOLEAN
    /\ origin \in [ev : Nat, chat : Nat]
    /\ boot \in {"down", "quits", "head", "stale", "interrupt", "ack", "up"}
    /\ orphans \subseteq Ids /\ carried \subseteq Keys
    /\ avail \in BOOLEAN /\ news \in BOOLEAN
    /\ flag \in [Threads -> {"idle", "due", "some", "none"}]
    /\ loop \in {"top", "admitting", "executing", "steering", "polling"}
    /\ held \in Tokens /\ steered \in Tokens
    /\ polled \subseteq Nat /\ todo \subseteq Nat
    /\ chat \in {"idle", "submitting"}
    /\ cmd \in Kinds \cup {"none"}
    /\ facts \in 0..MaxFacts /\ deaths \in 0..MaxDeaths
    /\ failed \in 0..MaxFailedStarts

Init ==
    /\ rows = EmptyLedger
    /\ cursor = [epoch |-> 0, ev |-> 0, chat |-> 0]
    /\ world = [epoch |-> 1, ev |-> 0, chat |-> 0] /\ eventLog \in EventLogs
    /\ origin = [ev |-> 0, chat |-> 0]
    /\ boot = "down"
    /\ mem = [epoch |-> 0, ev |-> 0, chat |-> 0]
    /\ orphans = {} /\ carried = {}
    /\ avail = FALSE /\ news = FALSE
    /\ flag = [t \in Threads |-> "idle"]
    /\ loop = "top" /\ held = NoToken /\ steered = NoToken /\ polled = {}
    /\ chat = "idle" /\ todo = {} /\ cmd = "none"
    /\ facts = 0 /\ deaths = 0 /\ failed = 0
-----------------------------------------------------------------------------
(* The process and its death                                               *)

(* Everything in memory is gone; the ledger, its leases and the cursor     *)
(* stay.  The file lock of the scope goes with the process.                *)
Vanish ==
    /\ boot' = "down"
    /\ mem' = [epoch |-> 0, ev |-> 0, chat |-> 0]
    /\ orphans' = {} /\ carried' = {}
    /\ avail' = FALSE /\ news' = FALSE
    /\ flag' = [t \in Threads |-> "idle"]
    /\ loop' = "top" /\ held' = NoToken /\ steered' = NoToken /\ polled' = {}
    /\ chat' = "idle" /\ todo' = {} /\ cmd' = "none"

Dies ==
    /\ boot = "up" /\ deaths < MaxDeaths
    /\ deaths' = deaths + 1
    /\ Vanish
    /\ UNCHANGED <<durable, world, eventLog, origin, facts, failed>>

GiveUp ==
    /\ failed < MaxFailedStarts
    /\ failed' = failed + 1
    /\ Vanish
    /\ UNCHANGED <<durable, world, eventLog, origin, facts, deaths>>

DiesStarting == boot \notin {"down", "up"} /\ GiveUp
-----------------------------------------------------------------------------
(* Start-up                                                                *)

(* PersistentWorkIntentQueue.__init__: the scope lock admits one process,  *)
(* then the leases of its predecessor are abandoned, ...                   *)
OpenQueue ==
    /\ boot = "down"
    /\ rows' = Abandoned(rows)
    /\ orphans' = Reported(rows)
    /\ boot' = "quits"
    /\ UNCHANGED <<cursor, world, eventLog, origin, mem, carried, wake, session, reader,
                   counts>>

(* ... a quit left by an earlier process is superseded, the flag is set.   *)
(* Over a Body without an event log the session runs from here on: what    *)
(* earlier processes left in the queue is carried out as it stands.        *)
DropStaleQuits ==
    /\ boot = "quits"
    /\ rows' = Superseded(rows, {"quit"}, "earlier_process_quit")
    /\ avail' = (Queued(rows') # {})
    /\ boot' = IF eventLog THEN "head" ELSE "up"
    /\ UNCHANGED <<cursor, world, eventLog, origin, mem, orphans, carried, flag, news, session,
                   reader, counts>>

(* BodyEventPump.__init__: resume at the cursor when it fits the server's  *)
(* log, begin at the head the very first time, and at zero otherwise.      *)
Resumable == /\ cursor.epoch = world.epoch
             /\ cursor.ev <= world.ev /\ cursor.chat <= world.chat
PlaceCursor ==
    /\ boot = "head"
    /\ mem' = IF cursor.epoch = 0 THEN world
              ELSE IF Resumable THEN cursor
              ELSE [epoch |-> world.epoch, ev |-> 0, chat |-> 0]
    /\ cursor' = mem'
    /\ origin' = IF Resumable THEN origin ELSE [ev |-> mem'.ev, chat |-> mem'.chat]
    /\ boot' = "stale"
    /\ UNCHANGED <<rows, world, eventLog, orphans, carried, wake, session, reader, counts>>

StaleKinds == {"recovery_reconcile", "body_event", "task_continue"}
StaleReconciles == QueuedOf(rows, {"recovery_reconcile"})
StaleEvents == QueuedOf(rows, {"recovery_reconcile", "body_event"})

(* Two interrupted intents claim different budgets: start-up is refused.   *)
RefuseConflict ==
    /\ boot = "stale"
    /\ \E i, j \in orphans \cup StaleReconciles : i # j /\ rows[i].bound /\ rows[j].bound
    /\ GiveUp

(* The events of stale intents are taken over and the intents superseded,  *)
(* before the Body is interrupted.                                         *)
SupersedeStale ==
    /\ boot = "stale"
    /\ carried' = UNION {rows[i].events : i \in StaleEvents}
    /\ rows' = Superseded(rows, StaleKinds, "startup_reconcile_refreshed")
    /\ avail' = (Queued(rows') # {})
    /\ boot' = "interrupt"
    /\ UNCHANGED <<cursor, world, eventLog, origin, mem, orphans, flag, news, session, reader,
                   counts>>

(* body.interrupt refused, or its owner never released. *)
StartupFails == boot = "interrupt" /\ GiveUp

(* The bound on rows: nothing is entered into a full ledger. *)
Enter(kind, key, events, orphs) ==
    \E i \in Ids : IsNextId(rows, i) /\ rows' = Enqueued(rows, i, kind, key, events, orphs)

FreshEvents == {BodyKey(n) : n \in (mem.ev + 1)..world.ev}

(* The Body is interrupted, the log read, and one intent entered with the  *)
(* carried and the fresh events and the orphans.                           *)
EnqueueReconciliation ==
    /\ boot = "interrupt"
    /\ Enter("recovery_reconcile", NoKey, carried \cup FreshEvents, orphans)
    /\ mem' = [mem EXCEPT !.ev = world.ev]
    /\ carried' = {}
    /\ avail' = TRUE
    /\ boot' = "ack"
    /\ UNCHANGED <<cursor, world, eventLog, origin, orphans, flag, news, session, reader, counts>>

AckStartup ==
    /\ boot = "ack"
    /\ cursor' = mem
    /\ boot' = "up"
    /\ UNCHANGED <<rows, world, eventLog, origin, mem, orphans, carried, wake, session, reader,
                   counts>>
-----------------------------------------------------------------------------
(* The wake-up flag                                                        *)

(* _refresh_available counts the queued rows ... *)
CountQueued(t) ==
    /\ flag[t] = "due"
    /\ flag' = [flag EXCEPT ![t] = IF Queued(rows) # {} THEN "some" ELSE "none"]
    /\ UNCHANGED <<durable, world, eventLog, origin, process, avail, news, session, reader,
                   counts>>

(* ... and then sets or clears the flag; enqueue only sets it. *)
WriteFlag(t) ==
    /\ flag[t] \in {"some", "none"}
    /\ avail' = (flag[t] = "some")
    /\ flag' = [flag EXCEPT ![t] = "idle"]
    /\ UNCHANGED <<durable, world, eventLog, origin, process, news, session, reader, counts>>

Announce(t) == flag' = [flag EXCEPT ![t] = "some"] /\ news' = TRUE
Recount(t) == flag' = [flag EXCEPT ![t] = "due"]
-----------------------------------------------------------------------------
(* The session loop                                                        *)

LoopReady == boot = "up" /\ flag["loop"] = "idle"
LeaseInto(L, i) == [L EXCEPT ![i] = LeasedRow(L[i])]
TokenOf(L, i) == [id |-> i, rev |-> L[i].rev + 1]

(* AgentSession.step: has_pending_work looks only at the flag. *)
TakeNext ==
    /\ LoopReady /\ loop = "top" /\ avail
    /\ LET L == Requeued(rows, Kinds) IN
       \/ /\ Queued(L) = {}
          /\ rows' = L
          /\ UNCHANGED held
       \/ \E i \in Ids : /\ IsHead(L, Kinds, i)
                         /\ rows' = LeaseInto(L, i)
                         /\ held' = TokenOf(L, i)
    /\ Recount("loop")
    /\ loop' = "admitting"
    /\ UNCHANGED <<cursor, world, eventLog, origin, process, avail, news, steered, polled,
                   reader, counts>>

(* The notification version is noted once the lease is there. *)
Admitted ==
    /\ LoopReady /\ loop = "admitting"
    /\ loop' = IF held = NoToken THEN "top" ELSE "executing"
    /\ news' = FALSE
    /\ UNCHANGED <<durable, world, eventLog, origin, process, avail, flag, held, steered, polled,
                   reader, counts>>

InStep == LoopReady /\ loop = "executing"

(* A turn that tells facts reads every waiting one, lease by lease. *)
TellsWaitingFacts == {"message", "continue", "body_event", "task_continue", "task_boundary"}
DeliverFacts ==
    /\ InStep
    /\ rows[held.id].kind \in TellsWaitingFacts /\ ~ rows[held.id].bound
    /\ LET L == Requeued(rows, {"reflex_fact"})
           F == QueuedOf(L, {"reflex_fact"})
       IN  /\ F # {}
           /\ rows' = [i \in Ids |-> IF i \in F THEN [L[i] EXCEPT !.state = "completed", !.rev = @ + 2]
                                     ELSE L[i]]
    /\ Recount("loop")
    /\ UNCHANGED <<cursor, world, eventLog, origin, process, avail, news, session, reader,
                   counts>>

(* bind_admission before the turn needs a live lease.  Without one it      *)
(* raises and the step ends in fail(intent), which raises in its turn when *)
(* the lease has been taken over.                                          *)
BindAdmission ==
    /\ InStep /\ ~ rows[held.id].bound
    /\ HoldsLive(rows, held.id, held.rev)
    /\ rows' = Bound(rows, held.id)
    /\ UNCHANGED <<cursor, world, eventLog, origin, process, wake, session, reader, counts>>

BindRaises ==
    /\ InStep /\ ~ rows[held.id].bound
    /\ ~ HoldsLive(rows, held.id, held.rev)
    /\ IF Holds(rows, held.id, held.rev)
       THEN /\ rows' = Finished(rows, held.id, "failed", "step_failed")
            /\ Recount("loop")
       ELSE UNCHANGED <<rows, flag>>
    /\ held' = NoToken
    /\ loop' = "top"
    /\ UNCHANGED <<cursor, world, eventLog, origin, process, avail, news, steered, polled, reader,
                   counts>>

(* _queued_preemption: the turn gives way only to the intent that would be *)
(* leased next, and only when that one does not wait for the turn's end.   *)
WaitsForRunningTurn == {"reflex_fact", "task_continue", "task_boundary", "maintenance"}
HeadKinds == {rows[i].kind : i \in {j \in Ids : IsHead(rows, Kinds, j)}}
Preempting == HeadKinds \cap (Kinds \ WaitsForRunningTurn)
MustStop == IF Steering THEN Preempting \cap ControlKinds ELSE Preempting

Overlook ==
    /\ InStep /\ news /\ Preempting = {}
    /\ news' = FALSE
    /\ UNCHANGED <<durable, world, eventLog, origin, process, avail, flag, session, reader, counts>>

BeginSteering ==
    /\ InStep /\ news /\ Preempting # {} /\ MustStop = {}
    /\ loop' = "steering"
    /\ UNCHANGED <<durable, world, eventLog, origin, process, wake, held, steered, polled,
                   reader, counts>>

(* lease_next(kind=MESSAGE), until there is none; it also requeues every   *)
(* expired message lease, the running step's own included.                 *)
SteerNext ==
    /\ LoopReady /\ loop = "steering" /\ steered = NoToken
    /\ LET L == Requeued(rows, {"message"}) IN
       \/ /\ QueuedOf(L, {"message"}) = {}
          /\ rows' = L
          /\ loop' = "executing" /\ news' = FALSE
          /\ UNCHANGED steered
       \/ \E i \in Ids : /\ IsHead(L, {"message"}, i)
                         /\ rows' = LeaseInto(L, i)
                         /\ steered' = TokenOf(L, i)
                         /\ UNCHANGED <<loop, news>>
    /\ Recount("loop")
    /\ UNCHANGED <<cursor, world, eventLog, origin, process, avail, held, polled, reader,
                   counts>>

SteerDone ==
    /\ LoopReady /\ loop = "steering" /\ steered # NoToken
    /\ Holds(rows, steered.id, steered.rev)
    /\ rows' = Finished(rows, steered.id, "completed", "none")
    /\ steered' = NoToken
    /\ Recount("loop")
    /\ UNCHANGED <<cursor, world, eventLog, origin, process, avail, news, loop, held, polled,
                   reader, counts>>

(* The step returns and its intent is settled by its revision; when the    *)
(* lease has been taken over, settling raises RuntimeStateConflict.        *)
Settle(state, reason) ==
    /\ IF Holds(rows, held.id, held.rev)
       THEN /\ rows' = Finished(rows, held.id, state, reason)
            /\ Recount("loop")
       ELSE UNCHANGED <<rows, flag>>
    /\ held' = NoToken
    /\ loop' = "top"
    /\ UNCHANGED <<cursor, world, eventLog, origin, process, avail, news, steered, polled, reader,
                   counts>>

CompleteStep == InStep /\ rows[held.id].kind # "quit" /\ Settle("completed", "none")

PreemptStep == InStep /\ news /\ MustStop # {} /\ Settle("superseded", "preempted")

(* A quit, or a turn that failed, ends the process once it is settled. *)
EndProcess ==
    /\ InStep /\ deaths < MaxDeaths
    /\ Holds(rows, held.id, held.rev)
    /\ \/ rows' = Finished(rows, held.id, "completed", "none") /\ rows[held.id].kind = "quit"
       \/ rows' = Finished(rows, held.id, "failed", "step_failed")
    /\ deaths' = deaths + 1
    /\ Vanish
    /\ UNCHANGED <<cursor, world, eventLog, origin, facts, failed>>

(* CancelledError is no Exception: the intent stays leased until it        *)
(* expires, and the loop goes on.                                          *)
StepCancelled ==
    /\ InStep
    /\ held' = NoToken
    /\ loop' = "top"
    /\ UNCHANGED <<durable, world, eventLog, origin, process, wake, steered, polled,
                   reader, counts>>

LeaseExpires(i) ==
    /\ rows[i].state = "leased" /\ rows[i].live /\ rows[i].rev < MaxRevision
    /\ rows' = [rows EXCEPT ![i].live = FALSE]
    /\ UNCHANGED <<cursor, world, eventLog, origin, process, wake, session, reader, counts>>

(* A heartbeat, or a reflex activity that ends, or an edge of the client's *)
(* life (death, respawn, join): called on the loop thread.                 *)
CalledIn == {"reflex_fact"} \cup IF eventLog THEN {} ELSE {"body_event"}
FactArrives ==
    /\ LoopReady /\ facts < MaxFacts
    /\ facts' = facts + 1
    /\ \E kind \in CalledIn : Enter(kind, NoKey, {}, {})
    /\ Announce("loop")
    /\ UNCHANGED <<cursor, world, eventLog, origin, process, avail, session, reader, deaths,
                   failed>>
-----------------------------------------------------------------------------
(* Body events: poll_once, while the loop is idle and waits for it          *)

PollBody ==
    /\ eventLog
    /\ LoopReady /\ loop = "top" /\ ~ avail
    /\ polled' = (mem.ev + 1)..world.ev
    /\ mem' = [mem EXCEPT !.ev = world.ev]
    /\ loop' = "polling"
    /\ UNCHANGED <<durable, world, eventLog, origin, boot, orphans, carried, wake, held, steered,
                   reader, counts>>

IsFirst(n, S) == \A m \in S : n <= m
IsQueuedKey(L, key) == \E i \in Queued(L) : L[i].key = key

EnterEvent ==
    /\ boot = "up" /\ loop = "polling" /\ flag["pump"] = "idle"
    /\ \E n \in polled :
          /\ IsFirst(n, polled)
          /\ Enter("body_event", BodyKey(n), {BodyKey(n)}, {})
          /\ IF IsQueuedKey(rows', BodyKey(n)) THEN Announce("pump") ELSE UNCHANGED <<flag, news>>
          /\ polled' = polled \ {n}
    /\ UNCHANGED <<cursor, world, eventLog, origin, process, avail, loop, held, steered,
                   reader, counts>>

(* Mutant: the cursor is not written. *)
AckBodyForgotten ==
    /\ boot = "up" /\ loop = "polling" /\ flag["pump"] = "idle"
    /\ polled = {}
    /\ loop' = "top"
    /\ UNCHANGED <<durable, world, eventLog, origin, process, wake, held, steered, polled,
                   reader, counts>>

(* acknowledge_cursor writes both positions, the chat reader's too. *)
AckBody ==
    /\ boot = "up" /\ loop = "polling" /\ flag["pump"] = "idle"
    /\ polled = {}
    /\ cursor' = mem
    /\ loop' = "top"
    /\ UNCHANGED <<rows, world, eventLog, origin, process, wake, held, steered, polled,
                   reader, counts>>
-----------------------------------------------------------------------------
(* Chat: _chat_command_reader, on threads of its own                        *)

ChatReady == boot = "up" /\ flag["chat"] = "idle"

PollChat ==
    /\ eventLog
    /\ ChatReady /\ chat = "idle"
    /\ todo' = (mem.chat + 1)..world.chat
    /\ mem' = [mem EXCEPT !.chat = world.chat]
    /\ chat' = "submitting"
    /\ UNCHANGED <<durable, world, eventLog, origin, boot, orphans, carried, wake, session, cmd,
                   counts>>

Submitting(n) == ChatReady /\ chat = "submitting" /\ IsFirst(n, todo)

SubmitKnown ==
    /\ \E n \in todo : /\ Submitting(n) /\ cmd = "none" /\ Known(rows, ChatKey(n))
                      /\ todo' = todo \ {n}
    /\ UNCHANGED <<durable, world, eventLog, origin, process, wake, session, chat, cmd, counts>>

(* submit of a control command: what it voids is superseded first, ...     *)
SubmitSupersede ==
    /\ \E n \in todo : Submitting(n) /\ cmd = "none" /\ ~ Known(rows, ChatKey(n))
    /\ \E kind \in CommandKinds \cap ControlKinds :
          /\ rows' = Superseded(rows, SupersededKindsFor(kind), "control")
          /\ cmd' = kind
    /\ news' = (news \/ rows' # rows)
    /\ Recount("chat")
    /\ UNCHANGED <<cursor, world, eventLog, origin, process, avail, session, chat, todo, counts>>

(* ... then the command itself is entered. *)
SubmitEnqueue ==
    /\ \E n \in todo, kind \in CommandKinds :
          /\ Submitting(n)
          /\ IF kind \in ControlKinds THEN cmd = kind
             ELSE cmd = "none" /\ ~ Known(rows, ChatKey(n))
          /\ Enter(kind, ChatKey(n), {}, {})
          /\ todo' = todo \ {n}
    /\ Announce("chat")
    /\ cmd' = "none"
    /\ UNCHANGED <<cursor, world, eventLog, origin, process, avail, session, chat, counts>>

AckChat ==
    /\ ChatReady /\ chat = "submitting" /\ todo = {}
    /\ cursor' = mem
    /\ chat' = "idle"
    /\ UNCHANGED <<rows, world, eventLog, origin, process, wake, session, todo, cmd, counts>>
-----------------------------------------------------------------------------
(* Standard input: _stdin_command_reader, a thread of its own, which       *)
(* submits a line without a dedupe key.  It is followed where there is no  *)
(* chat reader beside it.                                                  *)

(* submit of a control command: what it voids is superseded first, ...     *)
StdinSupersede ==
    /\ ~ eventLog
    /\ ChatReady /\ cmd = "none" /\ facts < MaxFacts
    /\ \E kind \in CommandKinds \cap ControlKinds :
          /\ rows' = Superseded(rows, SupersededKindsFor(kind), "control")
          /\ cmd' = kind
    /\ news' = (news \/ rows' # rows)
    /\ Recount("chat")
    /\ UNCHANGED <<cursor, world, eventLog, origin, process, avail, session, chat, todo, counts>>

(* ... then the command itself is entered. *)
StdinEnqueue ==
    /\ ~ eventLog
    /\ ChatReady /\ facts < MaxFacts
    /\ \E kind \in CommandKinds :
          /\ cmd = IF kind \in ControlKinds THEN kind ELSE "none"
          /\ Enter(kind, NoKey, {}, {})
    /\ facts' = facts + 1
    /\ Announce("chat")
    /\ cmd' = "none"
    /\ UNCHANGED <<cursor, world, eventLog, origin, process, avail, session, chat, todo, deaths,
                   failed>>
-----------------------------------------------------------------------------
(* The server                                                              *)

EventHappens ==
    /\ world.ev < MaxEvents
    /\ world' = [world EXCEPT !.ev = @ + 1]
    /\ UNCHANGED <<durable, eventLog, origin, process, wake, session, reader, counts>>

ChatSaid ==
    /\ world.chat < MaxChats
    /\ world' = [world EXCEPT !.chat = @ + 1]
    /\ UNCHANGED <<durable, eventLog, origin, process, wake, session, reader, counts>>

(* A new log under a new epoch; a running process would refuse it. *)
ServerRestarts ==
    /\ boot = "down" /\ world.epoch < MaxEpochs
    /\ world' = [epoch |-> world.epoch + 1, ev |-> 0, chat |-> 0]
    /\ UNCHANGED <<durable, eventLog, origin, process, wake, session, reader, counts>>
-----------------------------------------------------------------------------
StartUp ==
    \/ OpenQueue \/ DropStaleQuits \/ PlaceCursor \/ RefuseConflict \/ SupersedeStale
    \/ StartupFails \/ EnqueueReconciliation \/ AckStartup

LoopStep ==
    \/ TakeNext \/ Admitted \/ DeliverFacts \/ BindAdmission \/ BindRaises
    \/ Overlook \/ BeginSteering \/ SteerNext \/ SteerDone \/ CompleteStep \/ PreemptStep
    \/ EndProcess \/ StepCancelled \/ FactArrives

PumpStep == PollBody \/ EnterEvent \/ AckBody
ChatStep == PollChat \/ SubmitKnown \/ SubmitSupersede \/ SubmitEnqueue \/ AckChat
StdinStep == StdinSupersede \/ StdinEnqueue
FlagStep(t) == CountQueued(t) \/ WriteFlag(t)

Next ==
    \/ Dies \/ DiesStarting \/ StartUp \/ LoopStep \/ PumpStep \/ ChatStep \/ StdinStep
    \/ \E t \in Threads : FlagStep(t)
    \/ \E i \in Ids : LeaseExpires(i)
    \/ EventHappens \/ ChatSaid \/ ServerRestarts

Spec == Init /\ [][Next]_vars

(* The threads of a running process keep running, a process that is down   *)
(* is started again, a step's turn ends.                                   *)
Fairness ==
    /\ WF_vars(OpenQueue \/ DropStaleQuits \/ PlaceCursor \/ SupersedeStale
               \/ EnqueueReconciliation \/ AckStartup)
    /\ WF_vars(TakeNext \/ Admitted \/ SteerNext \/ SteerDone \/ PollBody)
    /\ WF_vars(CompleteStep)
    /\ WF_vars(EnterEvent \/ AckBody)
    /\ WF_vars(ChatStep)
    /\ \A t \in Threads : WF_vars(FlagStep(t))

FairSpec == Spec /\ Fairness
-----------------------------------------------------------------------------
(* Properties                                                              *)

(* An intent whose process died while carrying it out is never forgotten.  *)
(* Every process has in queue.orphaned_intents all the unknown outcomes    *)
(* nobody has reconciled yet, those of earlier processes that died during  *)
(* start-up included; and over a Body with an event log every process that *)
(* comes up has queued a reconciliation naming them.  Over the client Body *)
(* there is no reconciliation and the session never reads that list: the   *)
(* outcomes pile up from process to process.                               *)
OrphansKept == boot # "down" => Outstanding(rows) \subseteq orphans
OrphansNamed ==
    eventLog /\ boot \in {"ack", "up"} =>
        \E j \in Ids : /\ rows[j].kind = "recovery_reconcile" /\ rows[j].state # "absent"
                       /\ Outstanding(rows) \subseteq rows[j].orphans
OrphansReported == OrphansKept /\ OrphansNamed

(* An unknown outcome is struck off only by a reconciliation that named it *)
(* and that was admitted to a turn or completed, never by one that was     *)
(* superseded unread.                                                      *)
RetiredByReconciliation ==
    \A i \in Ids : rows[i].by # NoId =>
        LET r == rows[rows[i].by] IN i \in r.orphans /\ (r.bound \/ r.state = "completed")

(* What a step settled stays settled: no later command, restart or late    *)
(* holder of the lease changes it.                                         *)
SettledIsFinal ==
    [][\A i \in Ids : rows[i].state \in Terminal =>
          rows'[i].state = rows[i].state /\ rows'[i].rev = rows[i].rev]_vars

(* A chat line or Body event is entered once, also when the process dies   *)
(* before the cursor is written and the line is read again.                *)
EnteredOnce ==
    \A i, j \in Ids : i # j /\ rows[i].state # "absent" /\ rows[j].state # "absent"
        /\ rows[i].key # NoKey => rows[i].key # rows[j].key

(* No Body event is told to the Agent by two completed intents.            *)
ToldOnce ==
    \A i, j \in Ids : i # j /\ rows[i].state = "completed" /\ rows[j].state = "completed"
        => rows[i].events \cap rows[j].events = {}

(* The durable cursor never passes a Body event that the ledger has not    *)
(* recorded: such an event would be read by nobody after a crash.          *)
CursorBehindLedger ==
    cursor.epoch = world.epoch /\ boot # "head" =>
        \A n \in (origin.ev + 1)..cursor.ev : \E i \in Ids : BodyKey(n) \in rows[i].events

(* "what is queued is taken on the next pass"                              *)
QueuedIsTaken ==
    \A i \in Ids : rows[i].state = "queued" ~> rows[i].state # "queued"
=============================================================================
