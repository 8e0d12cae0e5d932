# MineBot in TLA+

This directory specifies, model-checks and proves properties of MineBot: **who
may move the body, what becomes of the work the Agent was given, and whether
what is reported of the world is so**. The code under `minebot/` and
`minecraft/client/` is the reference; every definition that models code names
its lines in `PROJECT.json` ("map"), which also lists the components that are
left out, the hazards of the code and a mutant for every property.

    who owns the Body
      BodyControl           the single-owner record of the Body        (operators)
      BodyOwnership         calls, plans, the writer lane, stops       EXTENDS BodyControl
      MCBodyOwnership       instances for TLC
      BodyOwnershipProofs   type correctness, no Body write after a stop
      BodyOwnerProofs       claims, stops, generations, stale results  EXTENDS BodyOwnershipProofs
    work and tasks
      WorkLedger            the durable table of work intents          (operators)
      WorkQueue             scheduler process, session loop, readers   EXTENDS WorkLedger
      MCWorkQueue           instances for TLC
      WorkQueueProofs       types, keys, settled rows, unknown outcomes, Body events
      TaskStore             tasks, checkpoints, budgets, admissions    (operators)
      TaskSession           a task from process to process             EXTENDS TaskStore
      MCTaskSession         instances for TLC
      TaskSessionProofs     types, recoveries, owners, budgets
    Body transactions and what is composed of them
      TransactionScope      what the scope of a transaction promises   (abstract)
      Transaction           call stack, token, client, world
      ItemWork, UseWork, FieldWork, BlockWork   the transactions       EXTEND Transaction
      BodyTransactions      one transaction from call to end           EXTENDS the four
      TransactionProofs     the scope is kept, one native action, no harm by digging
      Acquisition           the planner                                (operators)
      ToolWork              the composed tools                         EXTENDS Transaction, Acquisition
      Compositions          one composed call from call to end         EXTENDS ToolWork
    the bodies under Python
      ClientBody            the client mod                             (operators)
      ClientLink            the real client body and its socket        EXTENDS ClientBody
      ScarpetBody           the body behind RCON
      Governance            which blocks may be broken
      JavaBody              the body behind the server mod             EXTENDS Governance
      MCClientLink, MCScarpetBody, MCBodies   instances for TLC
      ClientLinkProofs      what an action leaves, its holder, edges
      ScarpetBodyProofs     applied once, told truly
      JavaBodyProofs        told truly, broken only as confirmed
    the reflex layer
      ReflexQuestions       what Decision may be asked and answer      (operators)
      ReflexCalls, ReflexGuard, ReflexLife, ReflexPlan, ReflexLoop     the tasks of the Body loop
      MCReflexLoop          instances for TLC

## 1. The system

MineBot lets a language model play Minecraft through a *Body*: a native client
(or a server-side body) that carries out one physical action at a time. One
Python process per world runs an asyncio event loop and a handful of threads.

| Part | State it keeps | Operations | What makes it correct |
|---|---|---|---|
| Body control (`app/body_control.py`, `brain/progress.py`) | holder, claim id, generation, stop state; the authority's generation | claim, mark_stopping, settle, mark_unknown, confirm_native_stopped, owns, invalidate_generation | one owner; generations tell owners apart; the record never lags behind the authority |
| Tool admission and stop (`app/runner.py`) | per call: claim, generation; per stop: what was accepted, seen idle, probed | run_tool, cancel_active_execution_with_facts | nothing a settled stop found writes again; every stop and call ends; no claim is left behind |
| Writer lane (`app/execution_lane.py`, `contract/execution.py`) | futures in FIFO order, one cancellation token each | run, request_cancel, wait_idle, checkpoints | a cancelled callback starts no further native action |
| Direct call supervision (`app/direct_call_supervision.py`) | one record per supervised call | run, readmit, questions, handoff | a call handed to the Agent is over; a repeated call is admitted again |
| Reflex plans (`app/reflex_tools.py`, `app/work_runtime.py`) | activities, node records, status and revision | delegate, _run, the walk of the tree, control | a revoked plan admits no further write; a completed write is not replayed |
| Body loop (`app/body_loop.py`) | lifecycle edges, result slots, the protective action | protection, handoff, death, disconnect, everyday life | nothing acts for a dead Body; no slot is orphaned; the loop always turns |
| Work intents (`app/work_queue.py`, `app/runtime_state.py`) | the `work_intents` and `event_cursors` tables, a wake-up flag | enqueue, lease, bind, finish, supersede, abandon, retire | settled work stays settled; keys are used once |
| Session loop (`app/session.py`, `app/real_server_session.py`) | the running step and its lease | step, supervision, preemption, steering, submit | every intent is settled once; what is queued is taken |
| Start-up reconciliation (`app/reconciliation.py`) | orphans and stale intents of earlier processes | supersede, interrupt, merge, enqueue | no unknown outcome and no event is forgotten |
| Event pump and chat reader (`app/body_events.py`) | positions in two logs, one durable cursor | poll, enqueue, acknowledge | at least once from the log, once in the ledger |
| Recovery, tasks, budgets (`app/recovery_admission.py`, `app/tasks.py`, `app/autonomy.py`) | attempts, checkpoints, budgets | reserve, confirm, settle, issue continuation | budgets survive restarts and are never refilled by them |
| Body transactions (`body/`) | progress of one physical task | mine, craft, smelt, navigate, ... | success is real; nothing is done more often than asked; the scope is kept |
| Compositions (`brain/acquisition.py`, `brain/composition.py`, `app/phase1_runtime.py`, `app/body_capability_tools.py`) | a plan and the pack | collect_resource, ensure_item, smelt, travel, dig, recover | a plan carries through; workstations come back |
| Client body (`game/real_client_*.py`, `minecraft/client/`) | action slot, quarantine, correlation, held keys, settings | execute, interrupt, terminals, lifecycle edges | an action belongs to its holder and leaves nothing behind |
| Server bodies (`game/body.py`, `game/java_body*.py`) | receive ledger, epochs, event log, sockets | dispatch, resend, probe, await | an action is applied once and its outcome told truly |
| Governance (`game/governance.py`) | challenges, permits | question, confirm, permit | nothing is broken that was not confirmed |
| Responses kernel, conversation, skills, memory, wiki, dialogue, providers, observer bridge, camera, panel | text, documents, requests, processes | read, write, send | not modelled (section 9) |

How they interact: the session loop starts turns from durable intents, which
come from chat, stdin, Body events, finished plans and the previous process. A
turn calls tools; a mutating tool is admitted by `run_tool` against the Body
control record, its callback is queued on the single-threaded writer lane, runs
a Body transaction there, and that issues native actions over one of the
bodies. Plans, everyday life and protective actions of the Body loop use the
same `run_tool`. Any of a dozen callers may start a stop.

What is hard here: coroutines that read the record, await, and write it; a
worker thread and a client that go on while a coroutine is cancelled; three
threads around one flag and one cursor; leases that expire under a long turn; a
process that may die between any two transactions; answers that are lost after
the action was done. The hazards are listed with their lines in `PROJECT.json`.

## 2. Body ownership

**State.** `body` is the record of `BodyControl` together with the authority's
counter; its operators (`Claimed`, `Stopping`, `Settled`, `Invalidated`, ...)
are the methods of the class, each atomic under its lock. For every call:
`pc` (where the coroutine of `run_tool` stands), `cgen` (`claim_generation`),
`fut`, `token`, `result`, `ahead` (its callback on the lane). For every plan:
`plan`, `revoked`, `naps`. For every stop: `spc`, `accepted`, `idle`, and
`victims`, a history variable: the admissions that existed when the stop began.
`evidence` is what a probe of the client has just read. `native` is the
client's one action slot.

**Steps.** A coroutine runs without interruption from one await to the next, so
an action is the code between two awaits. `run_tool` is `Enter`,
`EnterStoppingLife`, `EnterWaitingThreat`, `LifeStopReturned`, `ThreatGone`,
`ThreatWaitExpired`, `ReadProbe`, `AfterProbe`, `Submit`, and at its end
`CollectDirect`, `Readmit`, `AbandonCall`, `CollectPlanCall`, `PlanCallRaises`.
The worker thread and the client are `StartCallback`, `Checkpoint`,
`StartAction`, `ActionEnds`, `ActionTimesOut`, `TransportFails`,
`CheckGeneration` (`execute_tool` compares the generations), `ReturnResult`
(the lane's future ends). A plan is `StartPlan` to `PlanUnwinds`. A stop is the part
before its first await (`BeginStop`, in every action that starts one), then
`Interrupt`, `AwaitLane`, `StopReadProbe`, `StopProbesAgain`, `FinishStop`.
Two facts of asyncio matter and are modelled: cancelling a call while it waits
for its worker task does not cancel that task (`detached`), and a stop that is
awaited by a cancelled call is cancelled with it (`dropped`).

**Left out.** Times: a timeout may fire whenever its wait is under way. Reads
(`run_read`) do not touch the record. What a tool does is a sequence of native
actions of any length (section 5 has the tools). Decision's questions are a
free choice of repeating or not (section 7 has them). The separate wait for the
client's owner (runner 2656-2667) is part of the probing. `request_cancel` from
a foreign thread is delivered at once.

**Runs.** `body_owners` has two loads (`OneLoad`): a call that makes a life
project yield under two overlapping stops, or two plans, a call of one, a nap,
an invalidation from outside and a stop. `body_liveness` has a call that is
readmitted once against a protective action and a stop. Two stops are needed
for overlapping verdicts, a call and its successor for late results, a plan
and a life project for yielding. Calls are used once (`done` is final); a call
that comes later is another member of the set. Deadlock is not checked: when
all calls and stops are used up, nothing happens.

* `StoppedWritersStaySilent`: once a stop has reported settled, no admission it
  found executes on the lane or acts through the client.
* `GenerationsIdentifyOwners`: two owners never share a generation.
* `StoppingHasStop`: a Body recorded as stopping has a stop under way.
* `RunningClaimHasOwner`: a running claim has a call or plan that will return it.
* `SweptBeforeCheckIsStale`: a callback swept up by a stop before `execute_tool`
  compares the generations (`brain/registry.py:333`) never ends in a fresh
  result. A stop that begins after the comparison finds the callback live all the
  same, and its result is delivered as fresh: the code makes no later check.
* `StopsEnd`, `CallsEnd`: stops give a verdict, calls return.

**Fairness** (`body_liveness`). Weak fairness of each coroutine, of the worker
thread and of the client's action is what the event loop and the threads give.
Strong fairness of `FinishStop` stands for the finite budget of the probing
loop, of `CheckGeneration` for the finite number of actions of a tool. Starting a
call, a plan or a stop is never forced.

## 3. Work intents

**State.** `rows` is the ledger: per row its state, revision, kind, dedupe key,
whether its lease is live, why it ended, the Body events it carries and the
orphans it names; `by` is the reconciliation that retired it. `cursor` is the
durable cursor. `world` is the server's event and chat log with its epoch.
Everything else is memory of the process and vanishes with it: how far start-up
came (`boot`), the positions in the logs (`mem`), the wake-up flag (`avail`)
and what each thread is about to do to it (`flag`), the notification counter
reduced to "has it moved" (`news`), `queue.orphaned_intents`, the running step (`loop`, `held`,
`steered`), the batches of the two readers (`polled`, `todo`, `cmd`).

The variable `eventLog`, fixed for a behaviour, says whether the Body has `event_head`, which the code
calls optional. Only a Body that has it is reconciled at start-up and polled
for events (`app/real_server_session.py:777-795`). The RCON body has it, the
real client's has not: over the latter a process is up as soon as the queue is
open, stale rows are carried out as they stand, and the orphans of earlier
processes are handed to `queue.orphaned_intents`, which nobody reads.

**Steps.** One SQLite transaction or one write of the flag each. Start-up:
`OpenQueue`, `DropStaleQuits`, `PlaceCursor`, `RefuseConflict`,
`SupersedeStale`, `StartupFails`, `EnqueueReconciliation`, `AckStartup`. The
session loop: `TakeNext`, `Admitted`, `DeliverFacts`, `BindAdmission`,
`BindRaises`, `Overlook`, `BeginSteering`, `SteerNext`, `SteerDone`,
`CompleteStep`, `PreemptStep`, `EndProcess`, `StepCancelled`. Ingress:
`FactArrives`; `PollBody`, `EnterEvent`, `AckBody`; `PollChat`, `SubmitKnown`,
`SubmitSupersede`, `SubmitEnqueue`, `AckChat`; without an event log the thread
on standard input, `StdinSupersede`, `StdinEnqueue`. The process dies in `Dies` and
`DiesStarting`; leases expire in `LeaseExpires`; the server is `EventHappens`,
`ChatSaid`, `ServerRestarts`.

**Left out.** Transactions do not fail. The server changes its epoch only while
no process runs (a running one refuses the new epoch and polls in vain). Events
are the material ones and have different names, so coalescing drops none. Rows
are available at once (`available_at`, the delay of a retry, is not modelled).
Standard input beside a chat reader: it is modelled over a Body without an
event log. The death the Body loop infers from the facts over a Body without native
lifecycle events, entered under another key (`app/body_loop.py:104-106`,
`app/session.py:1468-1480`). A step's turn is one step: what it
does to the Body is section 2, to the task section 4.

**Runs.** `work_queue` has three loads (`OneTrouble`). Over a Body with an event
log: Body events with a process that dies while running and while starting, a
second server epoch and expiring leases; or chat with facts, steering,
preemption and a crash. Over a Body without one: two facts or lines of standard
input, two deaths and a failed start. Five rows are a
reconciliation for each of three processes plus the event and its successor;
`MaxRevision` 3 is one expiry (two revisions each). Two rows and three
processes are the least for which the outcomes of two processes reach a third.
`queue_wakeup` and `queue_cursor` show findings. Deadlock is not checked: a
system with no more events or deaths to come may rest.

* `OrphansReported`: each process is handed every unknown outcome nobody has
  reconciled, those of the process before the last too (`OrphansKept`); and over
  a Body with an event log, a process that is up has queued a reconciliation that
  names them all (`OrphansNamed`). Over the client's body they go no further.
* `RetiredByReconciliation`: an unknown outcome is struck off only by a
  reconciliation that named it and was admitted to a turn or completed.
* `EnteredOnce`, `ToldOnce`: a chat line or event is entered once, and told once.
* `SettledIsFinal`: a settled row never changes again.

**Fairness** (`queue_wakeup` only). Start-up, the loop, the pump, the chat
reader and the writes of the flag are weakly fair, as threads are; a step's turn
ends. Deaths, cancellations and expiring leases are never forced.

## 4. Tasks

`TaskStore` has the tables as operators from tables to tables, one per store
method (one SQLite transaction): tasks, checkpoints, continuation budgets,
progress epochs, admissions of recoveries. `TaskSession` is the session around
them: it leases an intent, drives the recovery after a death, runs the turn and
its tool batches under the budget, lets the model write a checkpoint, settles
it, and starts again after a crash. A step is what happens between two awaits;
commands, deaths and crashes may come in between. Start-up is two transactions:
`SupersedeStale` retires the recovery work of earlier processes, `Reconcile`
enters one intent with what is carried over, and a crash may strike between
them. What the model, the Body and the terminal verifier answer is free.

**Run** `task_session`, three loads (`SmallLoads`): one task whose turns run
three tool batches and may write two checkpoints of one approach with budgets 1
and 2, and two commands of any kind with a death of the Body, both with a crash;
and one task that is cut off twice, so that a start-up intent is itself an
orphan. Two
checkpoints are the least for which an approach can be repeated. Two attempts
at recovery allow one before and one after the crash.

* `RecoveryWithinLimit`: however often the process dies, the recovery driver is
  called at most `max_recovery_attempts` times before the Body is seen alive.
* `ApproachWithinFirstBudget`: the checkpoints of one approach are together never
  debited more batches than the budget of the first. Only debits are counted.
* `OwnerKept`: work that a crash cut off is taken up under the owner it ran
  under. The owner is owed until a turn is bound to it, or until the work is over:
  a turn that fails or is refused settles its row, and then nothing is owed. It
  speaks of a Body with an event log: over the real client's there is no start-up
  reconciliation (section 3), and what was cut off is not taken up at all.

**Left out.** Campaigns, texts, times, evidence contents; failing transactions.

## 5. Body transactions

A transaction runs synchronously on the writer lane, so `Transaction` is a call
stack: a frame is the function, the point reached, one local value and one
counter. `Native(k, at)` hands the client an action and waits; it may complete,
fail, be refused, time out, or lose its link, in which case the client is
quarantined (`client.unknown`) until the action left behind (`client.late`) is
known to have ended. Every native action is preceded by the checkpoint of the
cancellation token. `Raise` unwinds to the innermost frame that catches: a
timeout is caught at a few points, a cancellation nowhere.

`ItemWork`, `UseWork`, `FieldWork` and `BlockWork` have one action per function
of `body/`, 126 in all. The world is a record of the facts the functions decide
by: being near, being there, the cell, the drop, the pack, the oven, what is
under the floor, a hazard. Strays are what players, mobs and the game do
meanwhile.

`BodyTransactions` runs one transaction of any kind. A call within the family
is run; a call of another family is taken as `Promise` says (`Deal`), and
`PromisesKept` checks each promise on the behaviours in which that transaction
is the one that runs. The argument is an induction on the depth of the calls: a
promise is used only of a call that has returned.

**Run** `body_transactions` (855 thousand states): `Asked` = 2 units, so that a
repetition after a partial result is possible; one stray; two polls per loop.

* `PromisesKept`, `SuccessIsReal`: what is returned is so, and a success has
  brought about what was asked.
* `NeverMoreThanAsked`: a failed step is not repeated when it may have had its
  effect.
* `OneActionInClient`: after a broken link or a timeout nothing new is started
  before the old action is known to have ended.
* `SafeDigging`: digging does no harm unless others change the ground.
* `ScopeKept`: the transactions implement `TransactionScope`. The mapping takes
  the empty stack for the end, the token for the cancellation, and the actions
  the client still runs for what is due.
* `TransactionsEnd`: every transaction ends, even if the client never answers.
  Weak fairness of the transaction's thread is all it needs: every wait has a
  deadline of its own.

`Acquisition` is the planner of `brain/acquisition.py` as operators (recursive:
what an item needs is planned first). Its plans were compared with those of the
Python planner on several hundred random inventories. `ToolWork` has the
composed tools on the same call stack, and `Compositions` runs one of them from
packs along the ladder from an empty pack to an iron pickaxe. A transaction is
here its result and what it may have done to pack and workstations.

**Run** `compositions`: five things that are wanted, eight packs, planning depth
18 as in the code.

* `PlansCarryThrough`: when every step so far was shown done, the pack holds what
  the next step needs. Excepted are packs with both kinds of planks
  (`MixedPlanks`): the planner books one kind and the craft takes the larger
  stack.
* `CompositionIsReal`: a composed success is in the pack.
* `WorkstationsComeBack`: a success leaves no crafting table behind.
* `CompositionsEnd`: planning anew happens once.

## 6. The bodies

`ClientBody` is the client mod as a record and operators on it: the action
slot, stops, held keys, menus, Baritone and the settings changed for an action,
lifecycle edges, peers. Of the primitives (`action.primitive`) only `stop` is
modelled: the others Python sends only while it has no action in the slot.
`ClientLink` is the Python body over its socket: the
threads of the calls, the interrupt, the reading that lifts a quarantine, the
reader of the socket, the thread that serves, the client thread. The link may
break, either side may close it, Python may be started again, the player may
die or lose the world.

`ScarpetBody` sends an action over RCON and, when the answer is lost, finds out
from the server's receive ledger, its event log and the block itself whether to
send it again. The server's script is outside the repository and is modelled
from what Python relies on: it remembers ids until it is reloaded (a new epoch)
or its ledger lets one go (and says so). `excused` is a history variable: the
actions the server forgot while a request for them was still under way, and
those whose block others changed; nothing Python could read tells these apart.

`JavaBody` sends an action over a socket to the server mod, awaits its end and
answers the mod's questions about blocks from `Governance`: challenges the
Agent confirms, and permits for one kind of block in one region, for one task,
a number of blocks and a time.

**Run** `bodies`: one body per behaviour (`via`). The client: every kind of
action with an interrupt, and those that hold keys or settings with a death and
a lost world; two calls around a quarantine with a link that breaks or closes;
a restart. RCON: one action of each kind (the constraint `OneTrouble` allows
one per behaviour), two epochs, one stray. The socket: two jobs, and either two
dropped connections or a governance that is asked twice. `epoch_resend` shows
a finding. The interleaving of two RCON actions adds nothing, as the body waits
for each.

* `NothingLeftBehind`, `ActsForItsHolder`, `EdgesTold`, `StoppedIsQuiet`,
  `ClientFreed`: what an ended or stopped action leaves, whom the acting action
  belongs to, which edges arrive, and that the client is free again and again.
  Of the keys `NothingLeftBehind` speaks of the use key only; a jump key may stay
  held. The calls cancelled before they were sent are left out of `ActsForItsHolder`:
  the refusal of the cancel passes for that of the command that follows.
* `AppliedOnce`, `ToldIsTrue`: a lost answer never makes an action happen twice,
  and what the caller is told is so.
* `EndsToldTruly`: a job is given the end it had.
* `ConfirmedOnly`: what needs a permit is broken only under one that was
  confirmed, for its kind, region, task, count and time.

**Fairness.** The client's ticks, its thread and the thread that serves run;
deadlines pass; Baritone comes to rest; a dead player returns and a lost world
is joined again.

## 7. The reflex layer

The tasks of the Body loop, each a pc between two awaits, run on one event
loop: `ReflexCalls` has the loop's record and a supervised call, `ReflexGuard`
the protection task and the equipment node between two attempts, `ReflexLife`
the lifecycle task (edges, frames, terminal questions, everyday life),
`ReflexPlan` the walk of a plan's tree and its controls, `ReflexLoop` the whole.
`ReflexQuestions` says which options a frame is compiled to; Decision may answer
any of them, or nothing. The claims of `run_tool` are those of section 2.

**Run** `reflex_loop`: the histories of `MCReflexLoop`, each a work, the facts
that may be seen and how much may befall it: ten around direct calls, nine
around plans, three of everyday life. `plan_replay` shows a finding.

* `SlotOwned`: no result slot is held by a call nobody tends. Excepted is the
  leak of the code that `hist.cut` records: a plan or equipment node cut off
  between the return of its call and its question.
* `NoActionWhileDead`: between a processed death and the respawn no worker
  starts.
* `ToldIsOver`: a direct call handed to the Agent is not attempted again.
* `PlanHearsBack`, `LifeTurns`: a plan's question is answered, and the one
  consumer of edges and questions never waits for ever.

**Fairness.** A task that can run is run; Decision answers or its time is up; a
worker ends, as its tool has a time limit. Strong fairness of `MonitorAnswered`:
the monitor looks for an answer between any two of its readings.

## 8. Findings

1. `queue_wakeup`: the wake-up flag can be cleared after a message was entered
   (`app/work_queue.py:631`), and the message stays queued.
2. `queue_cursor`: the chat reader's acknowledgement passes Body events that are
   read and not yet entered (`app/body_events.py:208`).
3. `plan_replay`: a repeated call is judged done under the record of its
   repetition only, and the next pass over the tree calls it again
   (`app/work_runtime.py:611`).
4. `epoch_resend`: the evidence that the epoch matches was read before the wait,
   and an action is sent again into another epoch (`game/body.py:629`).

`ToldOnce` and finding 2 do not contradict each other: an event the cursor has
passed before it was entered is lost, not told twice.

## 9. Not modelled

The Responses kernel (planned), conversation and compaction, skills, memory,
wiki, dialogue, providers, camera, panel, shell: documents, wording, pure I/O.
The observer bridge (planned). Path search and geometry over world data.
Failing transactions of the store. Control commands that revoke a plan from
another thread.

## 10. Proofs

TLAPS proves the theorems below for every value of the constants: any number of
calls, plans and stops, ledgers and logs of any size, any number of deaths,
restarts, lost answers and dropped connections. The assumptions are those on
the constants, named in the modules and evaluated by TLC on every run: claim
ids are the direct calls and the plans, `None` is neither, stops are disjoint
from both, kinds and regions are functions, bounds are naturals. The inductive
invariants were checked by TLC on the instances of the runs before they were
proved, but for `IsStack`: the frames of a stack hold values of different types,
which TLC does not compare.

**Body ownership**

| Theorem | States | Invariant |
|---|---|---|
| `TypeCorrect` | `Spec => []TypeOK` | |
| `StopInvHolds`, `NoWriteAfterStop` | `StoppedWritersStaySilent` | `StopInv` |
| `RecordKeepsUp` | `GenerationMirrored`: the record's generation is the authority's | part of `StopInv` |
| `SweptResultsNeverFresh` | `SweptBeforeCheckIsStale` | `StopInv`, `ResultPending` |
| `StoppingAttended` | `StoppingHasStop` | `AttendInv` |
| `RunningClaimOwned` | `RunningClaimHasOwner` | `HoldInv`, `FlightInv` |
| `GenerationsAreOwners` | `GenerationsIdentifyOwners` | `TagInv` |

`StoppedWritersStaySilent` is not inductive: a state in which a stop has
settled and one of its victims is queued under the current generation satisfies
it, and the next step starts the callback. `StopInv` adds what rules that out:
admissions never run ahead of the authority (`AdmissionsCurrent`); every
admission a stop found is of a generation the Body has left, because the stop
itself moved it on (`VictimsPast`), so `owns()` refuses its callback; and what
the stop learns, it learns after it began (`EvidenceFollowsRequest`) and it
stays true of its victims (`IdleLaneSilent`, `IdleClientSilent`). The steps of
calls, workers and plans are handled by one lemma, `QuietStepSafe`, from three
facts about them; the beginning and the steps of a stop one by one.

`SweptBeforeCheckIsStale` is a statement about a step. It needs that a callback
on the lane that has not come to the comparison has no result yet
(`ResultPending`), so that its result is the one the comparison gives it, under
a generation the Body has left.

`StoppingHasStop` could fail because a stop is lost with the call that awaits
it. `AttendInv` says why it does not: only a call that is not of a life project
waits for a stop (`WaitersYieldLife`), and whenever the Body is stopping, one of
the stops under way is awaited by no call of a plan, or by one whose plan is
not revoked while the Body has a holder (`StopAttended`). Revoking that plan
moves the generation, and the Body is then no longer stopping.

`RunningClaimHasOwner` needs what is recorded while a claim runs
(`RunningIsHeld`: a call under its own generation, or a plan nobody revoked),
and that a plan makes one call at a time and holds the Body while it waits
(`FlightInv`): otherwise a second call of the plan could return the claim of
the first.

`GenerationsIdentifyOwners` needs that the generation in force belongs to the
recorded holder (`OwnerTagged`), which is why the holder may ask again without
a new generation, and that a Body nobody is known to hold is quarantined
(`UnknownUnconfirmed`), so that `claim()` never takes it for the asker's own.

**Work intents**

| Theorem | States | Invariant |
|---|---|---|
| `QueueTypeCorrect` | `Spec => []TypeOK` | |
| `EnteredOnceAlways` | `EnteredOnce` | inductive with `TypeOK` |
| `SettledStays` | `SettledIsFinal` | `TypeOK` |
| `RetiredAlways` | `RetiredByReconciliation` | `Strikes` |
| `OrphansReportedAlways` | `OrphansReported` | inductive with `TypeOK` |
| `ToldOnceAlways` | `ToldOnce` | `ToldInv` |

One lemma per transaction of the store shows that it takes a well-formed ledger
to one, leaves settled rows alone and keeps the dedupe keys apart (`Sound`);
`SoundTwice` chains two of them, such as the requeueing and the lease of
`lease_next`. `EnteredOnce` holds because the insert looks the key up among all
rows, settled ones too.

For the outcomes a second direction is shown of every transaction but the
insert and the start of a process (`Moves`): events and orphans of a row stay,
an ended row does not come back to life, an unknown outcome does not come into
being. `Strikes` adds that rows that do not exist are not bound. `OrphansReported`
carries the orphans through a start-up: they are first in the memory of the
starting process and then, given an event log, in the intent it enters, so a
death in between loses none. `ToldOnce` needs the most: no two living intents share an
event
(`OneTeller`); the events of an intent that was taken up lie before the durable
cursor (`TakenBehindCursor`), so no later process reads them again; where a
process has read to compared with the cursor (`Reading`); what a starting
process takes over is in no living intent (`TakenOver`); what lies after the
last event read is in none either (`NotYetTold`).

**Body transactions**

| Theorem | States | Invariant |
|---|---|---|
| `OneActionAlways` | `OneActionInClient` | `ScopeInv` |
| `TransactionsKeepScope` | `ScopeKept`: `Spec` implements `TransactionScope` | `ScopeInv` |
| `DiggingIsSafe` | `SafeDigging` | `SafeInv` |

Every step of the 126 functions has one of four forms (`Shape`): it works on
its stack and leaves token and client alone, starts a native action in a live
scope on a free client, leaves one behind, or is cut off by the cancellation.
One lemma per building block and one per family show it, with `IsStack`: the
stack stays a sequence, whatever its frames hold. The first two theorems follow
from `Shape` alone. `OneActionInClient` needs `LateQuarantined`: an action left
behind that is not a mere control has the client quarantined, so `execute`
refuses the next one. For the refinement, every step is mapped to a step of
`TransactionScope` or to a stutter: `Due` rises only with a start, falls when
an action is known to have ended, and the stack never grows again once it is
empty.

`SafeDigging` needs what the frames hold. `SafeInv` has three parts. `Ground`: a
frame of any function names only a native action of a kind the client has, and
outside the block family none that breaks; so harm can come only from a break
next to a hazard, or from a fall. It is kept by each of the 126 functions, by
what another family promises, and by all 22 kinds of effect in the client.
`SealInv`: while the Body works next to a hazard only five functions may be on
the stack, `mine_block_dry` not yet past its second look, and no break is in
the client, not even a late one. `DigInv`, for `dig_down_to_y` while nobody else
interferes: which frame lies on which (`Chain`, at most four), that what lies
under an open floor is bearable, that it is known to be so once the look under
the floor is passed (`Looked`, `Armed`), and where the transaction is as long as
a break may still be going on in the client (`Broken`): at the break, returning
from it with a failure, or ended. TLC checks the three on the instance of
`body_transactions`. What a call of another family does is taken from `Promise`,
as in the model.

**Tasks**

| Theorem | States | Invariant |
|---|---|---|
| `SessionTypes` | `Spec => []TypeOK` | `TypeInv` |
| `RecoveryStaysWithinLimit` | `RecoveryWithinLimit` | `RecoveryInv` |
| `CrashKeepsOwner` | `OwnerKept` | `OwnerInv` |
| `FirstBudgetHolds` | `ApproachWithinFirstBudget` | `AccountInv` |
| `AccountsMatch` | `SpendMatches`: the account of an approach is the sum of what its checkpoints were charged | `AccountInv` |

`TypeInv` adds to the types what the store's choices need: the row in hand is
leased, a bound row has its admission, there is room for the batch under way.
That there is a free row, a head of the queue or a last admission when one is
taken is an induction over the rows. TLAPS has no induction over a formula here;
`NatSetInduction` and `SubsetInduction` state it for a set, from the theorems
on finite sets, and serve wherever a finite table is searched or added up.

`RecoveryInv`: admissions of one task are numbered apart, the last of them is
the one that counts, each is within a limit that is within
`max_recovery_attempts`, and the driver was called no more often than the last
unconfirmed admission says. The count is in the rows, so a crash changes
nothing, and a start-up row carries no admission, so it does not begin anew.

`OwnerInv`: one task at most is in the foreground (`Lone`) and a step runs for
it (`AdmittedIsCurrent`); while an owner is owed to it, a row with that owner
waits for the next process or is the start-up turn in hand (`OwnerWaits`), and
a start-up intent that may run carries it (`OwnerCarried`). Between the two
transactions of a start-up, what was interrupted has one owner and no older
recovery work is left to run (`RefreshInv`).

For the budgets every step has one of four forms: it leaves the books alone
(`BooksAside`), writes a checkpoint, settles one, or debits one. `AccountInv`
says that checkpoints are written in the order of their ids, so that the first
settled one of an approach stays the first, and that the limit of an approach is
the budget of that one and covers what has been debited. What has been debited is a
sum over checkpoints (`Total`); lemmas say how it changes when a member joins or
one term grows.

**The real client's body**

| Theorem | States | Invariant |
|---|---|---|
| `ClientIsFit` | client, socket and Body keep their types; nothing changed is without an action that answers for it | `Fitting` |
| `ActionsLeaveNothing` | `NothingLeftBehind` | `Fitting` |
| `StopIsQuiet` | `StoppedIsQuiet` | `Fitting` |
| `EdgesAreTold` | `EdgesTold` | `EdgeInv` |
| `HolderActs` | `ActsForItsHolder` | `HolderInv` |

The tick of the client is composed of many small operators on its record.
Each takes a fit client to a fit one (`Fit`) and goes on from it in a fixed way
(`Goes`: what was sent stays sent; what is new is an edge, a ready or the
terminal of the action that ended; a stopped action touches nothing more).
`Goes` is transitive, so it is shown for the small operators and follows for the
tick. `EdgeInv` says where an edge may be: told, on its way, or due with the
replay of the connection that is served; and no number is told twice.

`ActsForItsHolder` is not inductive: a call whose wait timed out is quarantined,
and the quarantine is lifted by a reading of the state that may be older than the
order it is about. `HolderInv` says why the reading can be trusted: requests of
one connection are carried out in order (`Comes`), numbers of readings only grow
(`Numbered`), so when the reading that was asked for last finds the client
free, every order still abroad was sent after it (`Behind`, `Free`); what was
answered is over (`Answered`); a cancel finds its command already sent
(`Canceled`). The assumption on the constants (`CallsAssumption`) is that every
call has a kind of action. The thread that serves reads only from connections it
has accepted (`ServeReads`), as `serve` does; without that guard a request of a
newer connection could be carried out before its edges were told.

**Server bodies**

| Theorem | States | Invariant |
|---|---|---|
| `AppliedOnceAlways` | `AppliedOnce` | `RconInv` |
| `ToldTrueAlways` | `ToldIsTrue` | `RconInv` |
| `ToldTrulyAlways` | `EndsToldTruly` | `TellInv` |
| `ConfirmedOnlyAlways` | `ConfirmedOnly` | `PermitInv` |

The heart of `RconInv` is `NotAgain`: an action that was done and is not
remembered has left the server's memory by a reload or an eviction; both show
in the next status, so it is not sent again, and no request for it is under
way. `TellInv` ties what the server keeps to how the job ended and what was
begun to the call in hand. `PermitInv` identifies a permit with the confirmation
of its number and the count of what was broken under it; the count uses the
library's theorems on the cardinality of finite sets.

**Only model-checked**

* Liveness (`StopsEnd`, `CallsEnd`, `TransactionsEnd`, `CompositionsEnd`,
  `ClientFreed`, `PlanHearsBack`, `LifeTurns`): TLAPS here reasons neither about
  fairness nor about ENABLED.
* `CompositionIsReal`, `WorkstationsComeBack`, `PlansCarryThrough`: the planner is
  recursive over items, and what a recursive definition computes for every
  input is beyond this prover; a module that declares one has no theorem.
* `PromisesKept`, `SuccessIsReal`: they relate the world to the point every
  frame of the stack has reached, one assertion per point of each of the 126
  functions.
* `NeverMoreThanAsked` counts native actions against the units left in the
  frames below, for every transaction that repeats; its invariant is a sum over
  the stack with another summand for each function.
* `SlotOwned`, `NoActionWhileDead`, `ToldIsOver`: `ReflexLoop` interleaves five
  tasks; its invariants relate the points all of them have reached.

## 11. Plan

1. Proofs: `SlotOwned` of `ReflexLoop`; `NeverMoreThanAsked` for one transaction
   at a time.
2. Models: the Responses kernel (input fed to a running turn, lost facts), the
   observer bridge, control commands from other threads, failing transactions.
3. Abstract specifications: one owner at a time for the Body as seen by tools,
   to be implemented by `BodyOwnership`; a durable inbox that delivers each
   message once, to be implemented by `WorkQueue` without the flag.
