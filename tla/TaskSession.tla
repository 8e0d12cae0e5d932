---------------------------- MODULE TaskSession ----------------------------
(***************************************************************************)
(* One task from process to process: the session that leases work intents, *)
(* drives recovery after a death, runs model turns under a continuation    *)
(* budget, settles checkpoints and starts again after a crash              *)
(* (minebot/app/session.py, tasks.py, autonomy.py, reconciliation.py,      *)
(* progress_epoch_adapter.py, the turn of runner.py and the loop of        *)
(* real_server_session.py), with the SDK kernel.                           *)
(*                                                                         *)
(* A step of the session holds no lock between its awaits, so it is a pc:  *)
(* commands, Body events, a death and a crash may come in between.  What   *)
(* the model, the Body and the terminal verifier answer is free.           *)
(***************************************************************************)
EXTENDS TaskStore

CONSTANTS MaxAttempts,   \* max_recovery_attempts of the session
          Loads          \* bounds: user commands and their kinds, deaths of the
                         \* Body, crashes, tool batches, checkpoints, intents

ASSUME SessionAssumption ==
    /\ MaxAttempts \in Nat \ {0}
    /\ Loads \subseteq [command : Nat, kinds : SUBSET UserKinds, death : Nat, crash : Nat, batch : 0..MaxEpochs,
                checkpoint : 0..MaxCheckpoints, intent : 0..MaxIntents]

VARIABLES task, cp, approach, settled, epoch, row,   \* the database
          boot, stale, pc, cur, before, lc, gen, attempts, retries, cursor, open, mourning,
          alive, left,                               \* the Body; what the bounds leave
          driven, reserved, owed                     \* history

db == <<task, cp, approach, settled, epoch, row>>
local == <<cur, before, cursor>>                        \* of the step in hand
memory == <<boot, stale, pc, cur, before, lc, gen, attempts, retries, cursor, open, mourning>>
history == <<driven, reserved, owed>>
vars == <<db, memory, alive, left, history>>

Pcs == {"down", "reconcile", "refresh", "idle", "apply", "confirm", "terminal", "admit", "reserve",
        "driving", "prepare", "turn", "finish", "stopped", "verify"}
Up == Pcs \ {"down", "reconcile", "refresh"}
Lifecycle == {"init", "idle", "active", "yielded", "resuming", "recovering"}
NoBatch == [budget |-> Unset, work |-> FALSE]
NotOwed == [task |-> None, bud |-> None]

\* What the load of the behaviour leaves room for.
CheckpointSpace == \E c \in 1..left.checkpoint : cp[c].task = None
Space == \E i \in 1..left.intent : row[i].state = "absent"

(* The type of every variable. *)
TypeOK ==
    /\ task \in [Tasks -> TaskRows] /\ cp \in [Checkpoints -> CheckpointRows]
    /\ approach \in [Tasks -> [Approaches -> Accounts]]
    /\ settled \in [Checkpoints -> Nat \cup {Unset}]
    /\ epoch \in Seq(EpochRows) /\ Len(epoch) <= MaxEpochs
    /\ row \in [Intents -> IntentRows]
    /\ boot \in Nat /\ stale \subseteq Intents /\ pc \in Pcs /\ cur \in Intents \cup {None}
    /\ before \in Checkpoints \cup {None} /\ lc \in Lifecycle
    /\ gen \in Nat /\ attempts \in Nat /\ retries \in Nat /\ cursor \in Nat
    /\ open \in EpochRows \cup {NoBatch}
    /\ mourning \in BOOLEAN /\ alive \in BOOLEAN
    /\ left \in [command : Nat, kinds : SUBSET UserKinds, death : Nat, crash : Nat, batch : 0..MaxEpochs,
                checkpoint : 0..MaxCheckpoints, intent : 0..MaxIntents]
    /\ driven \in [Tasks \cup {None} -> Nat] /\ reserved \in [Checkpoints -> Nat]
    /\ owed \in [task : Tasks \cup {None}, bud : Checkpoints \cup {None}]

Init ==
    /\ task = NoTasks /\ cp = NoCheckpoints /\ approach = NoAccounts /\ settled = NoSettlements
    /\ epoch = <<>> /\ row = NoIntents
    /\ boot = 1 /\ stale = {} /\ pc = "idle" /\ cur = None /\ before = None /\ lc = "init"
    /\ gen = 0 /\ attempts = 0 /\ retries = 0 /\ cursor = 0 /\ open = NoBatch /\ mourning = FALSE
    /\ alive = TRUE
    /\ left \in Loads
    /\ driven = [t \in Tasks \cup {None} |-> 0] /\ reserved = [c \in Checkpoints |-> 0]
    /\ owed = NotOwed

----------------------------------------------------------------------------
(* Lifecycle, as the session moves it *)

StoodDown == "idle"                                    \* _stand_down, from any state here
ResumedIfWaiting == IF lc = "yielded" THEN "resuming" ELSE lc

(* Terminal states of the row in hand *)
Ended(L, state) == LET M == [L EXCEPT ![cur].state = state]
                   IN  IF state = "completed" THEN Retired(M, cur) ELSE M

(* The step is over: the row is completed and terminal truth is looked at. *)
StepEnds(L, state) == /\ row' = Ended(L, state) /\ pc' = "verify"
                      /\ cur' = None /\ before' = None /\ cursor' = 0
Done == StepEnds(row, "completed")

(* An exception leaves the step: the row fails and the loop goes on. *)
Raised == /\ row' = Ended(row, "failed") /\ pc' = "idle"
          /\ cur' = None /\ before' = None /\ cursor' = 0

(* The process is gone, and its memory with it. *)
ProcessEnds ==
    /\ pc' = "down" /\ cur' = None /\ before' = None /\ lc' = "init" /\ gen' = 0 /\ attempts' = 0
    /\ retries' = 0 /\ cursor' = 0 /\ open' = NoBatch /\ mourning' = FALSE
    /\ stale' = {} /\ UNCHANGED boot

(* _yield_recovery_failure *)
GaveUp == /\ attempts' = 0 /\ lc' = StoodDown /\ Done

----------------------------------------------------------------------------
(* What enters the queue from outside the step *)

New(kind, t) == [AbsentIntent EXCEPT !.kind = kind, !.task = t]

(* AgentSession.submit *)
Submit(kind) ==
    /\ pc \in Up /\ left.command > 0 /\ Space
    /\ gen' = IF kind \in ControlKinds THEN gen + 1 ELSE gen
    /\ LET voided == IF kind \in ControlKinds
                     THEN {k \in Kinds : Priority[k] < Priority[kind]} ELSE {}
       IN  row' = Entered(SupersededIn(row, voided), New(kind, Current(task)))
    /\ left' = [left EXCEPT !.command = @ - 1]
    /\ UNCHANGED <<task, cp, approach, settled, epoch, boot, stale, pc, cur, before, lc, attempts,
                   retries, cursor, open, mourning, alive, history>>

(* The Body dies; the runtime's listener enters the event. *)
Die ==
    /\ alive /\ left.death > 0 /\ pc \in Up /\ Space
    /\ alive' = FALSE /\ mourning' = TRUE
    /\ row' = Entered(row, [New("body_event", None) EXCEPT !.decision = "death"])
    /\ left' = [left EXCEPT !.death = @ - 1]
    /\ UNCHANGED <<task, cp, approach, settled, epoch, boot, stale, pc, cur, before, lc, gen, attempts,
                   retries, cursor, open, history>>

(* BodyEventPump.poll_once, asked only when nothing is pending: an event   *)
(* that the checkpoint of a waiting task waits for.                        *)
WakeUp ==
    /\ pc = "idle" /\ lc # "recovering" /\ Queued(row) = {} /\ Space
    /\ Current(task) # None /\ task[Current(task)].status = "waiting_event"
    /\ row' = Entered(row, [New("body_event", Current(task)) EXCEPT !.cp = Latest(task)])
    /\ UNCHANGED <<task, cp, approach, settled, epoch, memory, alive, left, history>>

----------------------------------------------------------------------------
(* step: a recovery intent if one is needed, then the head of the queue *)

WithRecovery ==
    IF lc # "recovering" THEN row
    ELSE Entered(row, [New("lifecycle", Current(task)) EXCEPT !.key = <<boot, gen, attempts>>])

Lease ==
    /\ pc = "idle" /\ (lc = "recovering" => Space)
    /\ Queued(WithRecovery) # {}
    /\ LET i == HeadOf(WithRecovery)
       IN  /\ cur' = i
           /\ row' = [WithRecovery EXCEPT ![i].state = "leased"]
    /\ before' = Latest(task) /\ pc' = "apply"
    /\ UNCHANGED <<task, cp, approach, settled, epoch, boot, stale, lc, gen, attempts, retries, cursor,
                   open, mourning, alive, left, history>>

(* After the intent is applied: the start-up confirmation, no turn, or the *)
(* admission of one.  A recovering session goes on whatever was asked.     *)
Applied(turn) ==
    IF row[cur].kind = "startup" /\ row[cur].task # None THEN pc' = "confirm" /\ UNCHANGED <<row, local>>
    ELSE IF row[cur].kind \in RecoveryKinds /\ row[cur].decision \in {"idle", "park", "complete"}
    THEN pc' = "terminal" /\ UNCHANGED <<row, local>>
    ELSE IF turn \/ lc' = "recovering" THEN pc' = "admit" /\ UNCHANGED <<row, local>>
    ELSE Done

(* START: create_task raises when a task is in the foreground, after the   *)
(* generation and the lifecycle have moved.                                *)
ApplyStart ==
    /\ pc = "apply" /\ row[cur].kind = "start"
    /\ gen' = gen + 1 /\ retries' = 0 /\ lc' = ResumedIfWaiting
    /\ IF Current(task) # None
       THEN Raised /\ UNCHANGED task
       ELSE TaskRoom(task) /\ task' = Created(task) /\ Applied(TRUE)
    /\ UNCHANGED <<cp, approach, settled, epoch, boot, stale, attempts, open, mourning, alive, left,
                   history>>

ApplyReplace ==
    /\ pc = "apply" /\ row[cur].kind = "replace_goal" /\ TaskRoom(task)
    /\ gen' = gen + 1 /\ retries' = 0 /\ lc' = ResumedIfWaiting
    /\ task' = Replaced(task) /\ Applied(TRUE)
    /\ UNCHANGED <<cp, approach, settled, epoch, boot, stale, attempts, open, mourning, alive, left,
                   history>>

(* PAUSE, CONTINUE and MESSAGE *)
StatusAsked == [pause |-> "paused", continue |-> "running"]
ApplyTalk ==
    /\ pc = "apply" /\ row[cur].kind \in {"pause", "continue", "message"}
    /\ LET kind == row[cur].kind
           goal == Current(task) # None
           turn == kind # "continue" \/ goal
       IN  /\ task' = IF goal /\ kind # "message"
                      THEN Transitioned(task, Current(task), StatusAsked[kind]) ELSE task
           /\ lc' = CASE kind = "pause" -> lc
                      [] kind # "pause" /\ turn -> ResumedIfWaiting
                      [] OTHER -> IF lc = "yielded" THEN StoodDown ELSE lc
           /\ retries' = IF kind = "pause" THEN retries ELSE 0
           /\ Applied(turn)
    /\ UNCHANGED <<cp, approach, settled, epoch, boot, stale, gen, attempts, open, mourning, alive,
                   left, history>>

ApplyCancel ==
    /\ pc = "apply" /\ row[cur].kind = "cancel"
    /\ task' = IF Current(task) = None THEN task
               ELSE Transitioned(task, Current(task), "cancelled")
    /\ lc' = StoodDown /\ retries' = 0 /\ Done
    /\ UNCHANGED <<cp, approach, settled, epoch, boot, stale, gen, attempts, open, mourning, alive,
                   left, history>>

(* QUIT ends the process after the step has completed the row. *)
ApplyQuit ==
    /\ pc = "apply" /\ row[cur].kind = "quit"
    /\ row' = Ended(row, "completed") /\ ProcessEnds
    /\ UNCHANGED <<task, cp, approach, settled, epoch, alive, left, history>>

(* A Body event whose task or wait has changed wakes nobody. *)
EventDropped ==
    LET t == Current(task)  r == row[cur] IN
    \/ t # None /\ task[t].status \in {"paused", "yielded"} /\ r.decision # "death"
    \/ r.task # None /\ r.task # t
    \/ r.cp # None /\ (t = None \/ task[t].status # "waiting_event" \/ task[t].latest # r.cp
                       \/ cp[r.cp].disp # "wait_event")

ApplyBodyEvent ==
    /\ pc = "apply" /\ row[cur].kind = "body_event"
    /\ IF EventDropped
       THEN UNCHANGED <<task, lc>> /\ Applied(FALSE)
       ELSE /\ task' = IF Current(task) # None /\ task[Current(task)].status = "waiting_event"
                       THEN Transitioned(task, Current(task), "running") ELSE task
            /\ lc' = ResumedIfWaiting /\ Applied(TRUE)
    /\ UNCHANGED <<cp, approach, settled, epoch, boot, stale, gen, attempts, retries, open, mourning,
                   alive, left, history>>

(* Task work is dropped when the task or its checkpoint has moved on. *)
WorkDropped ==
    LET t == Current(task)  r == row[cur] IN
    \/ t = None \/ task[t].status # "running"
    \/ r.kind # "completion_review" /\ r.task # t
    \/ r.kind # "task_boundary" /\ task[t].latest # r.cp
    \/ r.kind = "task_continue" /\ cp[r.cp].disp # "continue"
    \/ r.kind = "completion_review" /\ cp[r.cp].disp # "complete"

ApplyTaskWork ==
    /\ pc = "apply" /\ row[cur].kind \in {"task_boundary", "task_continue", "completion_review"}
    /\ lc' = IF WorkDropped THEN lc ELSE ResumedIfWaiting
    /\ Applied(~ WorkDropped)
    /\ UNCHANGED <<task, cp, approach, settled, epoch, boot, stale, gen, attempts, retries, open,
                   mourning, alive, left, history>>

(* RECOVERY_RECONCILE, from each of its four sources *)
ApplyRecovery ==
    /\ pc = "apply" /\ row[cur].kind \in RecoveryKinds
    /\ LET t == Current(task)
           turn == row[cur].decision \notin {"idle", "park", "complete"}
       IN  /\ task' = IF row[cur].decision = "resume" /\ t # None /\ task[t].status = "waiting_event"
                      THEN Transitioned(task, t, "running") ELSE task
           /\ lc' = IF turn THEN ResumedIfWaiting ELSE lc
           /\ Applied(turn)
    /\ UNCHANGED <<cp, approach, settled, epoch, boot, stale, gen, attempts, retries, open, mourning,
                   alive, left, history>>

Apply == \/ ApplyStart \/ ApplyReplace \/ ApplyTalk \/ ApplyCancel \/ ApplyQuit
         \/ ApplyBodyEvent \/ ApplyTaskWork \/ ApplyRecovery

----------------------------------------------------------------------------
(* Start-up confirmation, and the decisions that need no turn *)

(* _reconcile_startup_recovery: the task changed, progress could not be    *)
(* restored, or the Body could not be read.                                *)
ConfirmFails ==
    /\ pc = "confirm" /\ GaveUp
    /\ UNCHANGED <<task, cp, approach, settled, epoch, boot, stale, gen, retries, open, mourning, alive,
                   left, history>>

(* The episode is closed on a Body that is alive, that nobody owns and     *)
(* that has nothing pending; otherwise the step goes on without that.      *)
ConfirmPasses ==
    /\ pc = "confirm" /\ Current(task) = row[cur].task
    /\ \/ /\ alive /\ row' = Reconciled(row, row[cur].task)
          /\ driven' = [driven EXCEPT ![row[cur].task] = 0]
       \/ UNCHANGED <<row, driven>>
    /\ pc' = IF row[cur].decision \in {"idle", "park", "complete"} THEN "terminal" ELSE "admit"
    /\ UNCHANGED <<task, cp, approach, settled, epoch, boot, stale, cur, before, lc, gen, attempts,
                   retries, cursor, open, mourning, alive, left, reserved, owed>>

(* TaskWorkspace.complete and what complete_current_goal supersedes *)
GoalCompleted(L) == SupersededIn(L, {"task_boundary", "task_continue"})
TaskCompleted == IF Current(task) = None THEN task
                 ELSE Transitioned(task, Current(task), "completed")

(* _runtime_intent_terminal_step *)
TerminalStep ==
    /\ pc = "terminal"
    /\ IF row[cur].decision = "complete"
       THEN task' = TaskCompleted /\ StepEnds(GoalCompleted(row), "completed")
       ELSE UNCHANGED task /\ Done
    /\ lc' = StoodDown
    /\ UNCHANGED <<cp, approach, settled, epoch, boot, stale, gen, attempts, retries, open, mourning,
                   alive, left, history>>

----------------------------------------------------------------------------
(* Admission *)

(* _continuation_budget *)
Owner ==
    LET r == row[cur] IN
    CASE r.kind = "task_continue" -> r.cp
      [] r.kind # "task_continue" /\ r.bud # Unset -> r.bud
      [] OTHER -> IF /\ r.kind \in RecoveryKinds \cup {"body_event"}
                     /\ Latest(task) # None /\ cp[Latest(task)].disp = "continue"
                  THEN Latest(task) ELSE None

EvidenceCursor ==
    LET r == row[cur] IN
    CASE r.adm # Unset -> r.adm
      [] r.adm = Unset /\ r.ev # Unset /\ r.kind \in RecoveryKinds \cup {"task_boundary"} -> r.ev
      [] OTHER -> Len(epoch)

Admit ==
    /\ pc = "admit"
    /\ IF lc = "yielded" THEN Done
       ELSE IF ~ MayBind(row[cur], Owner, EvidenceCursor, Current(task)) THEN Raised
       ELSE /\ row' = Bound(row, cur, Owner, EvidenceCursor, Current(task)) /\ UNCHANGED local
            /\ pc' = IF lc = "recovering" THEN "reserve" ELSE "prepare"
    /\ UNCHANGED <<task, cp, approach, settled, epoch, boot, stale, lc, gen, attempts, retries, open,
                   mourning, alive, left, history>>

----------------------------------------------------------------------------
(* _drive_recovery *)

(* Progress cannot be restored, the ledger refuses, or the budget of the   *)
(* episode is spent: the driver is not called.                             *)
ReserveFails ==
    /\ pc = "reserve"
    /\ attempts' = 0 /\ lc' = StoodDown
    /\ \/ Done
       \/ /\ ~ AdmissionRefused(row, cur)
          /\ LET a == NextAdmission(row, cur, MaxAttempts) IN a.attempt > a.limit
          /\ StepEnds([row EXCEPT ![cur].denied = TRUE], "completed")
    /\ UNCHANGED <<task, cp, approach, settled, epoch, boot, stale, gen, retries, open, mourning, alive,
                   left, history>>

(* The attempt is written down, then the driver is called. *)
Reserve ==
    /\ pc = "reserve" /\ ~ AdmissionRefused(row, cur)
    /\ LET a == NextAdmission(row, cur, MaxAttempts)
       IN  /\ a.attempt <= a.limit
           /\ row' = [row EXCEPT ![cur].rec = a]
           /\ attempts' = a.attempt
    /\ driven' = [driven EXCEPT ![row[cur].admTask] = @ + 1]
    /\ pc' = "driving"
    /\ UNCHANGED <<task, cp, approach, settled, epoch, boot, stale, cur, before, lc, gen, retries,
                   cursor, open, mourning, alive, left, reserved, owed>>

(* The driver fails, or succeeds and the turn that confirms it finds the   *)
(* Body dead again.  The row is completed; a retry is a new intent.        *)
RecoveryFails ==
    /\ pc = "driving"
    /\ \/ attempts < row[cur].rec.limit /\ Done /\ UNCHANGED <<attempts, lc>>
       \/ GaveUp
    /\ alive' \in {alive, TRUE}
    /\ UNCHANGED <<task, cp, approach, settled, epoch, boot, stale, gen, retries, open, mourning, left,
                   history>>

(* It succeeds, the Body is seen alive and the episode is closed. *)
RecoveryConfirmed ==
    /\ pc = "driving" /\ lc' = "resuming" /\ alive' = TRUE
    /\ row' = [row EXCEPT ![cur].rec.confirmed = TRUE]
    /\ attempts' = 0 /\ driven' = [driven EXCEPT ![row[cur].admTask] = 0]
    /\ pc' = "stopped"
    /\ UNCHANGED <<task, cp, approach, settled, epoch, boot, stale, cur, before, gen, retries, cursor,
                   open, mourning, left, reserved, owed>>

----------------------------------------------------------------------------
(* A model turn: run_turn *)

(* _prepare_turn reads the Body; a death outranks a pause. *)
Prepare ==
    /\ pc = "prepare"
    /\ \/ /\ alive /\ row[cur].kind # "pause"
          /\ lc' = "active" /\ pc' = "turn" /\ cursor' = Min({EvidenceCursor, Len(epoch)})
       \/ /\ lc' = IF alive THEN "yielded" ELSE "recovering"   \* or progress cannot be restored
          /\ pc' = "stopped" /\ UNCHANGED cursor
    /\ UNCHANGED <<task, cp, approach, settled, epoch, row, boot, stale, cur, before, gen, attempts,
                   retries, open, mourning, alive, left, history>>

(* ProgressEpochAdapter.open: work is debited when it can be; the batch    *)
(* runs either way.                                                        *)
OpenBatch(work) ==
    /\ pc = "turn" /\ open = NoBatch /\ Len(epoch) < left.batch
    /\ LET c == row[cur].bud IN
       /\ open' = [budget |-> c, work |-> work]
       /\ IF c # None /\ work /\ MayReserve(task, cp, approach, settled, c)
          THEN /\ settled' = [settled EXCEPT ![c] = @ + 1]
               /\ approach' = Debited(approach, cp, c)
               /\ reserved' = [reserved EXCEPT ![c] = @ + 1]
          ELSE UNCHANGED <<settled, approach, reserved>>
    /\ UNCHANGED <<task, cp, epoch, row, boot, stale, pc, cur, before, lc, gen, attempts, retries,
                   cursor, mourning, alive, left, driven, owed>>

(* checkpoint_task, called in a batch *)
CheckpointTool(disp, a, b) ==
    /\ pc = "turn" /\ open # NoBatch /\ Current(task) # None /\ CheckpointSpace
    /\ (disp = "continue") = (b # 0)
    /\ LET t == Current(task)  c == NextCheckpoint(cp)
       IN  /\ task' = TaskCheckpointed(task, t, c, disp)
           /\ cp' = CheckpointCreated(cp, task, t, c, disp, IF b = 0 THEN None ELSE a, b, cursor)
    /\ UNCHANGED <<approach, settled, epoch, row, memory, alive, left, history>>

(* The batch in hand is archived: _finalize, by its last member or by      *)
(* finalize_unsettled.                                                     *)
Archived == IF open = NoBatch THEN epoch ELSE Append(epoch, open)

CloseBatch ==
    /\ pc = "turn" /\ open # NoBatch
    /\ epoch' = Archived /\ open' = NoBatch
    /\ UNCHANGED <<task, cp, approach, settled, row, boot, stale, pc, cur, before, lc, gen, attempts,
                   retries, cursor, mourning, alive, left, history>>

(* The final output of the model *)
TurnCompletes ==
    /\ pc = "turn" /\ open = NoBatch
    /\ pc' = "finish" /\ mourning' = FALSE /\ retries' = 0
    /\ UNCHANGED <<db, boot, stale, cur, before, lc, gen, attempts, cursor, open, alive, left, history>>

(* A progress abort, a spent turn limit, or a tool that found the Body     *)
(* dead (_enter_recovery_from_body_fact)                                   *)
TurnStops ==
    /\ pc = "turn"
    /\ \/ lc' = "yielded" /\ UNCHANGED gen
       \/ ~ alive /\ lc' = "recovering" /\ gen' = gen + 1
    /\ epoch' = Archived /\ open' = NoBatch /\ retries' = 0 /\ pc' = "stopped"
    /\ UNCHANGED <<task, cp, approach, settled, row, boot, stale, cur, before, attempts, cursor,
                   mourning, alive, left, history>>

(* The model cannot be reached: the turn is asked for again, under the     *)
(* same owner and from the same evidence (_schedule_model_recovery).       *)
TransportFails ==
    /\ pc = "turn" /\ Space
    /\ StepEnds(Entered(row, [New("transport", Current(task)) EXCEPT
                 !.key = <<boot, gen, retries + 1>>, !.bud = Owner, !.ev = cursor]), "completed")
    /\ epoch' = Archived /\ open' = NoBatch /\ retries' = retries + 1
    /\ UNCHANGED <<task, cp, approach, settled, boot, stale, lc, gen, attempts, mourning, alive, left,
                   history>>

(* Any other exception fails the step, and a failed step ends the process. *)
TurnFails ==
    /\ pc = "turn" /\ left.crash > 0
    /\ row' = Ended(row, "failed") /\ epoch' = Archived /\ ProcessEnds
    /\ left' = [left EXCEPT !.crash = @ - 1] /\ owed' = NotOwed
    /\ UNCHANGED <<task, cp, approach, settled, alive, driven, reserved>>

(* _run_supervised gives way to the queue: recovery only to a control      *)
(* command, a turn to a head that cannot wait, the start-up confirmation   *)
(* to anything.                                                            *)
Preempted ==
    /\ Queued(row) # {}
    /\ \/ pc = "confirm"
       \/ pc \in {"reserve", "driving"} /\ \E i \in Queued(row) : row[i].kind \in ControlKinds
       \/ pc \in {"prepare", "turn"} /\ row[HeadOf(row)].kind \notin {"task_continue", "task_boundary"}
    /\ StepEnds(row, "superseded") /\ epoch' = Archived /\ open' = NoBatch
    /\ gen' = IF pc = "turn" THEN gen + 1 ELSE gen
    /\ alive' \in {alive} \cup (IF pc = "driving" THEN {TRUE} ELSE {})
    /\ UNCHANGED <<task, cp, approach, settled, boot, stale, lc, attempts, retries, mourning, left,
                   history>>

----------------------------------------------------------------------------
(* _finish_step after a final output *)

NewCheckpoint == Latest(task) # None /\ Latest(task) # before
Parked == Current(task) # None /\ task[Current(task)].status \in {"waiting_event", "paused"}

(* No checkpoint was written: the turn is closed by one more, and that one *)
(* by a yield (yield_without_continuation).                                *)
FinishOpen ==
    /\ pc = "finish" /\ ~ NewCheckpoint
    /\ LET t == Current(task)  kind == row[cur].kind
           yields == t # None /\ kind = "task_boundary" /\ task[t].status = "running"
           asks == t # None /\ kind \notin {"task_boundary", "message", "pause"}
       IN  /\ asks => Space
           /\ StepEnds(IF asks
                           THEN Entered(row, [New("task_boundary", t) EXCEPT
                                  !.key = <<t, task[t].rev, gen>>, !.bud = Owner, !.ev = cursor])
                           ELSE row, "completed")
           /\ yields => CheckpointSpace
           /\ task' = IF yields THEN TaskCheckpointed(task, t, NextCheckpoint(cp), "yield") ELSE task
           /\ cp' = IF yields THEN CheckpointCreated(cp, task, t, NextCheckpoint(cp), "yield", None, 0, 0)
                    ELSE cp
           /\ lc' = IF yields THEN "yielded" ELSE IF t = None \/ Parked THEN StoodDown ELSE lc
    /\ UNCHANGED <<approach, settled, epoch, boot, stale, gen, attempts, retries, open, mourning, alive,
                   left, history>>

(* AutonomyCoordinator.decide on a checkpoint that asks for no more work *)
FinishClosed ==
    /\ pc = "finish" /\ NewCheckpoint /\ cp[Latest(task)].disp # "continue"
    /\ lc' = IF cp[Latest(task)].disp = "yield" THEN "yielded" ELSE StoodDown
    /\ Done
    /\ UNCHANGED <<task, cp, approach, settled, epoch, boot, stale, gen, attempts, retries, open,
                   mourning, alive, left, history>>

(* A continuation is settled and its successor issued; with a quit in the  *)
(* queue it is only settled, for the next process.                         *)
FinishContinued ==
    /\ pc = "finish" /\ NewCheckpoint /\ cp[Latest(task)].disp = "continue" /\ alive
    /\ LET c == Latest(task)
           consumed == Consumed(epoch, cp[c].cursor)
           quitting == \E i \in Queued(row) : row[i].kind = "quit"
       IN  /\ approach' = ApproachSettled(approach, settled, cp, c, consumed)
           /\ settled' = CheckpointSettled(settled, c, consumed)
           /\ quitting \/ Space
           /\ StepEnds(IF quitting THEN row
                           ELSE Entered(row, [New("task_continue", cp[c].task) EXCEPT
                                  !.key = <<c, 0, 0>>, !.cp = c, !.ev = cp[c].cursor]), "completed")
    /\ UNCHANGED <<task, cp, epoch, boot, stale, lc, gen, attempts, retries, open, mourning, alive,
                   left, history>>

(* The Body or the evidence cannot be read: the continuation is parked,    *)
(* or, with a quit in the queue, rejected by a yield.                      *)
FinishParked ==
    /\ pc = "finish" /\ NewCheckpoint /\ cp[Latest(task)].disp = "continue"
    /\ LET t == Current(task)
           quitting == \E i \in Queued(row) : row[i].kind = "quit"
       IN  /\ quitting => CheckpointSpace
           /\ task' = IF quitting THEN TaskCheckpointed(task, t, NextCheckpoint(cp), "yield") ELSE task
           /\ cp' = IF quitting THEN CheckpointCreated(cp, task, t, NextCheckpoint(cp), "yield", None, 0, 0)
                    ELSE cp
           /\ lc' = IF quitting THEN "yielded" ELSE StoodDown
    /\ Done
    /\ UNCHANGED <<approach, settled, epoch, boot, stale, gen, attempts, retries, open, mourning, alive,
                   left, history>>

(* A turn that stopped short; after a recovery the work is taken up again  *)
(* (_queue_resume_successor_if_required).                                  *)
FinishStopped ==
    /\ pc = "stopped"
    /\ LET t == Current(task)
           asked == lc = "resuming" /\ Queued(row) = {}
           running == t # None /\ task[t].status = "running"
           enters == asked /\ (running \/ mourning)
       IN  /\ enters => Space
           /\ StepEnds(IF enters
                           THEN Entered(row, [New("resumed", IF running THEN t ELSE None) EXCEPT
                                  !.key = <<boot, gen, attempts>>])
                           ELSE row, "completed")
           /\ lc' = IF asked /\ ~ enters THEN StoodDown ELSE lc
    /\ UNCHANGED <<task, cp, approach, settled, epoch, boot, stale, gen, attempts, retries, open,
                   mourning, alive, left, history>>

Finish == FinishOpen \/ FinishClosed \/ FinishContinued \/ FinishParked \/ FinishStopped

----------------------------------------------------------------------------
(* The loop looks at terminal truth after every step that returned *)

CompletionRequested == /\ Current(task) # None /\ task[Current(task)].status = "waiting_event"
                       /\ Latest(task) # None /\ cp[Latest(task)].disp = "complete"

VerifySatisfied ==
    /\ pc = "verify" /\ Current(task) # None
    /\ task' = TaskCompleted /\ row' = GoalCompleted(row)
    /\ lc' = StoodDown /\ pc' = "idle" /\ owed' = NotOwed
    /\ UNCHANGED <<cp, approach, settled, epoch, boot, stale, cur, before, gen, attempts, retries,
                   cursor, open, mourning, alive, left, driven, reserved>>

(* reject_completion_request: the task runs again, then its review is      *)
(* queued, under the continuation the request interrupted.  The process    *)
(* may die between the two.                                                *)
VerifyRejected ==
    /\ pc = "verify" /\ CompletionRequested /\ Space
    /\ task' = Transitioned(task, Current(task), "running")
    /\ row' = Entered(row, [New("completion_review", Current(task)) EXCEPT
                 !.key = <<Current(task), Latest(task), 0>>, !.cp = Latest(task),
                 !.bud = IF ReviewOwner(task, cp) = None THEN Unset ELSE ReviewOwner(task, cp)])
    /\ pc' = "idle" /\ owed' = NotOwed
    /\ UNCHANGED <<cp, approach, settled, epoch, boot, stale, cur, before, lc, gen, attempts, retries,
                   cursor, open, mourning, alive, left, driven, reserved>>

VerifyRejectedCrash ==
    /\ pc = "verify" /\ CompletionRequested /\ left.crash > 0
    /\ task' = Transitioned(task, Current(task), "running")
    /\ ProcessEnds /\ left' = [left EXCEPT !.crash = @ - 1] /\ owed' = NotOwed
    /\ UNCHANGED <<cp, approach, settled, epoch, row, alive, driven, reserved>>

VerifyNothing ==
    /\ pc = "verify" /\ ~ CompletionRequested
    /\ pc' = "idle" /\ owed' = NotOwed
    /\ UNCHANGED <<db, boot, stale, cur, before, lc, gen, attempts, retries, cursor, open, mourning,
                   alive, left, driven, reserved>>

Verify == VerifySatisfied \/ VerifyRejected \/ VerifyRejectedCrash \/ VerifyNothing

----------------------------------------------------------------------------
(* Crash and start-up *)

(* The process dies, in start-up as well; owed remembers the owner the     *)
(* turn in hand was under, if the intent was not entered for an earlier    *)
(* task: the next process passes over those, as it does over the first     *)
(* turn of a replaced goal.                                                *)
(* Once the row of the step is finished, nothing is owed for it.           *)
Crash ==
    /\ pc # "down" /\ left.crash > 0
    /\ left' = [left EXCEPT !.crash = @ - 1]
    /\ ProcessEnds
    /\ owed' = IF /\ pc \in {"reserve", "driving", "prepare", "turn", "finish", "stopped"}
                  /\ row[cur].task \in {None, row[cur].admTask}
               THEN [task |-> row[cur].admTask, bud |-> row[cur].bud]
               ELSE IF pc = "verify" THEN NotOwed ELSE owed
    /\ UNCHANGED <<db, alive, driven, reserved>>

(* abandon_leased_work_intents, and the quit of an earlier process *)
Boot ==
    /\ pc = "down" /\ boot' = boot + 1 /\ pc' = "reconcile"
    /\ row' = SupersededIn([i \in Intents |-> IF row[i].state # "leased" THEN row[i]
                                               ELSE [row[i] EXCEPT !.state = "failed", !.orphan = TRUE]],
                           {"quit"})
    /\ UNCHANGED <<task, cp, approach, settled, epoch, stale, cur, before, lc, gen, attempts, retries,
                   cursor, open, mourning, alive, left, history>>

(* The admissions of interrupted work and of the stale recovery work S *)
Carrying(r) ==
    /\ Current(task) # None
    /\ r.admTask \in {Unset, Current(task)} /\ r.task \in {None, Current(task)}
    /\ r.bud # Unset /\ (r.adm # Unset \/ r.ev # Unset)
Interrupted(S) == {i \in Intents : (row[i].orphan \/ i \in S) /\ Carrying(row[i])}
CursorOf(r) == IF r.adm # Unset THEN r.adm ELSE r.ev

StaleRecovery == {i \in Queued(row) : row[i].kind \in RecoveryKinds}

(* The stale work is read, then superseded.  With two interrupted owners   *)
(* start-up is refused, and so is every later one: no step is left.        *)
SupersedeStale ==
    /\ pc = "reconcile"
    /\ Cardinality({row[i].bud : i \in Interrupted(StaleRecovery)}) <= 1
    /\ stale' = StaleRecovery
    /\ row' = SupersededIn(row, RecoveryKinds \cup {"body_event", "task_continue"})
    /\ pc' = "refresh"
    /\ UNCHANGED <<task, cp, approach, settled, epoch, boot, cur, before, lc, gen, attempts, retries,
                   cursor, open, mourning, alive, left, history>>

(* _decision; what the terminal probe and the events say is free. *)
Decisions ==
    LET t == Current(task)
        orphans == \E i \in Intents : row[i].orphan
    IN  CASE ~ alive -> {"recover"}
          [] alive /\ t = None -> {"wake"} \cup IF orphans THEN {} ELSE {"idle"}
          [] OTHER -> {"complete"} \cup
               CASE task[t].status = "running" -> {"resume"}
                 [] task[t].status = "waiting_event" -> {"resume", IF orphans THEN "wake" ELSE "park"}
                 [] OTHER -> {IF orphans THEN "wake" ELSE "park"}

(* Mutant: the start-up intent carries no admission. *)
StartupRowUnowned(decision) == [New("startup", Current(task)) EXCEPT !.decision = decision]

StartupRow(decision) ==
    LET r == [New("startup", Current(task)) EXCEPT !.decision = decision]
        I == Interrupted(stale)
    IN  IF I = {} THEN r
        ELSE [r EXCEPT !.bud = row[Min(I)].bud,
                       !.ev = Min({CursorOf(row[i]) : i \in I}),
                       !.admTask = Current(task)]

(* The Body is interrupted and read, and one intent is entered with what   *)
(* is carried over.                                                        *)
Reconcile ==
    /\ pc = "refresh" /\ Space
    /\ \E decision \in Decisions : row' = Entered(row, StartupRow(decision))
    /\ stale' = {}
    /\ pc' = "idle"
    /\ UNCHANGED <<task, cp, approach, settled, epoch, boot, cur, before, lc, gen, attempts, retries,
                   cursor, open, mourning, alive, left, history>>

----------------------------------------------------------------------------
Next ==
    \/ \E kind \in left.kinds : Submit(kind)
    \/ Die \/ WakeUp \/ Lease \/ Apply
    \/ ConfirmFails \/ ConfirmPasses \/ TerminalStep \/ Admit
    \/ ReserveFails \/ Reserve \/ RecoveryFails \/ RecoveryConfirmed
    \/ Prepare \/ (\E work \in BOOLEAN : OpenBatch(work)) \/ CloseBatch
    \/ \E disp \in Dispositions, a \in Approaches, b \in Budgets \cup {0} : CheckpointTool(disp, a, b)
    \/ TurnCompletes \/ TurnStops \/ TransportFails \/ TurnFails \/ Preempted
    \/ Finish \/ Verify \/ Crash \/ Boot \/ SupersedeStale \/ Reconcile

Spec == Init /\ [][Next]_vars

----------------------------------------------------------------------------
(* Properties *)

(* However often the process dies, the recovery driver is called at most   *)
(* max_recovery_attempts times for one task before the Body has been seen  *)
(* alive again (next_recovery_admission, recovery_admission.py).           *)
RecoveryWithinLimit == \A t \in Tasks \cup {None} : driven[t] <= MaxAttempts

(* The batches debited to the checkpoints of one approach never exceed the *)
(* budget of the first of them that was settled: repeating the approach    *)
(* under a new checkpoint buys nothing (settle_continuation_approach,      *)
(* reserve_continuation_epoch).                                            *)
ApproachWithinFirstBudget ==
    \A t \in Tasks, a \in Approaches :
       LET mine == {c \in Checkpoints : cp[c].task = t /\ cp[c].approach = a /\ settled[c] # Unset}
       IN  mine # {} => MapThenSumSet(LAMBDA c : reserved[c], mine) <= cp[Min(mine)].budget

(* The account of an approach is what its checkpoints were charged:        *)
(* settlement and reservation write both tables or neither.                *)
SpendMatches ==
    \A t \in Tasks, a \in Approaches :
       LET mine == {c \in Checkpoints : cp[c].task = t /\ cp[c].approach = a /\ settled[c] # Unset}
       IN  approach[t][a].used = MapThenSumSet(LAMBDA c : settled[c], mine)

(* Work for a task that a crash cut off is taken up by the next process    *)
(* under the budget owner it ran under, although the task may have a later *)
(* checkpoint by then (enqueue_startup_reconciliation).                    *)
OwnerKept ==
    /\ pc \in {"reserve", "driving", "prepare", "turn"} /\ row[cur].kind = "startup"
    /\ owed.task # None /\ owed.task = row[cur].admTask
    => row[cur].bud = owed.bud
=============================================================================
