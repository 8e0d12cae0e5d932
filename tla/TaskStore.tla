------------------------------ MODULE TaskStore ------------------------------
(***************************************************************************)
(* The durable tables behind a task: tasks, checkpoints, continuation      *)
(* budgets, progress epochs, and the admissions written into work intents  *)
(* (minebot/app/runtime_state.py, recovery_admission.py).                  *)
(*                                                                         *)
(* Each method of the store is one SQLite transaction, so each is an       *)
(* operator from tables to tables.  Ids are places in the order of         *)
(* creation; texts, times and evidence contents are left out.              *)
(***************************************************************************)
EXTENDS Integers, Sequences, FiniteSets, FiniteSetsExt

CONSTANTS MaxTasks,        \* bound: tasks ever created
          MaxCheckpoints,  \* bound: checkpoints ever written
          MaxEpochs,       \* bound: tool batches ever archived
          MaxIntents,      \* bound: work intents ever entered
          Approaches,      \* the approach keys a model may name
          Budgets          \* the bounded_epoch_budgets a model may ask for

ASSUME StoreAssumption ==
    /\ MaxTasks \in Nat /\ MaxCheckpoints \in Nat /\ MaxEpochs \in Nat /\ MaxIntents \in Nat
    /\ Budgets \subseteq Nat \ {0}

Tasks == 1..MaxTasks
Checkpoints == 1..MaxCheckpoints
Intents == 1..MaxIntents
None == 0          \* Python's None in a column
Unset == -1        \* a key the payload does not have

----------------------------------------------------------------------------
(* Tasks and checkpoints *)

Foreground == {"running", "waiting_event", "paused", "yielded"}
Statuses == Foreground \cup {"absent", "cancelled", "completed"}
Dispositions == {"continue", "wait_event", "yield", "complete"}

TaskRows == [status : Statuses, rev : Nat, latest : Checkpoints \cup {None}]
CheckpointRows == [task : Tasks \cup {None}, rev : Nat, disp : Dispositions,
                   approach : Approaches \cup {None}, budget : Nat, cursor : Nat]

NoTasks == [t \in Tasks |-> [status |-> "absent", rev |-> 0, latest |-> None]]
NoCheckpoints == [c \in Checkpoints |-> [task |-> None, rev |-> 0, disp |-> "yield",
                                         approach |-> None, budget |-> 0, cursor |-> 0]]

(* get_foreground_task; a partial unique index keeps it the only one. *)
Current(T) == IF \E t \in Tasks : T[t].status \in Foreground
              THEN CHOOSE t \in Tasks : T[t].status \in Foreground ELSE None

Latest(T) == IF Current(T) = None THEN None ELSE T[Current(T)].latest

NextTask(T) == CHOOSE t \in Tasks : T[t].status = "absent" /\ \A u \in 1..(t - 1) : T[u].status # "absent"
NextCheckpoint(C) == CHOOSE c \in Checkpoints : C[c].task = None /\ \A d \in 1..(c - 1) : C[d].task # None
TaskRoom(T) == \E t \in Tasks : T[t].status = "absent"

(* create_task, when no task is in the foreground *)
Created(T) == [T EXCEPT ![NextTask(T)] = [status |-> "running", rev |-> 1, latest |-> None]]

(* replace_foreground_task: one transaction cancels and creates. *)
Replaced(T) ==
    Created([t \in Tasks |-> IF T[t].status \in Foreground
                             THEN [T[t] EXCEPT !.status = "cancelled", !.rev = @ + 1] ELSE T[t]])

(* transition_task, by the caller that has just read the row *)
Transitioned(T, t, status) == [T EXCEPT ![t].status = status, ![t].rev = @ + 1]

StatusAfter == [continue |-> "running", wait_event |-> "waiting_event",
                yield |-> "yielded", complete |-> "waiting_event"]

(* create_checkpoint: the task's row, and the checkpoint's *)
TaskCheckpointed(T, t, c, disp) ==
    [T EXCEPT ![t] = [status |-> StatusAfter[disp], rev |-> T[t].rev + 1, latest |-> c]]
CheckpointCreated(C, T, t, c, disp, a, b, cursor) ==
    [C EXCEPT ![c] = [task |-> t, rev |-> T[t].rev + 1, disp |-> disp,
                      approach |-> a, budget |-> b, cursor |-> cursor]]

(* completion_review_budget_owner: the last two checkpoints of the task *)
ReviewOwner(T, C) ==
    LET t == Current(T)
        mine == {c \in Checkpoints : C[c].task = t}
        pending == Max(mine)
        owner == Max(mine \ {pending})
    IN  IF /\ t # None /\ T[t].status = "waiting_event" /\ Cardinality(mine) >= 2
           /\ C[pending].disp = "complete" /\ C[owner].disp = "continue"
        THEN owner ELSE None

----------------------------------------------------------------------------
(* Continuation budgets *)

Accounts == [limit : Nat, used : Nat]       \* continuation_approaches; limit 0: no row
NoAccounts == [t \in Tasks |-> [a \in Approaches |-> [limit |-> 0, used |-> 0]]]
NoSettlements == [c \in Checkpoints |-> Unset]
NoReservations == [c \in Checkpoints |-> 0]

(* Mutant: a later checkpoint of the same approach brings its own limit. *)
ApproachSettledAnew(A, S, C, c, consumed) ==
    LET t == C[c].task  a == C[c].approach
        opened == [A EXCEPT ![t][a].limit = C[c].budget]
    IN  IF S[c] # Unset THEN opened ELSE [opened EXCEPT ![t][a].used = @ + consumed]

(* settle_continuation_approach of a latest checkpoint: the first limit    *)
(* named for an approach stays, and a checkpoint is settled once.          *)
ApproachSettled(A, S, C, c, consumed) ==
    LET t == C[c].task  a == C[c].approach
        opened == IF A[t][a].limit = 0 THEN [A EXCEPT ![t][a].limit = C[c].budget] ELSE A
    IN  IF S[c] # Unset THEN opened ELSE [opened EXCEPT ![t][a].used = @ + consumed]
CheckpointSettled(S, c, consumed) == IF S[c] # Unset THEN S ELSE [S EXCEPT ![c] = consumed]

(* reserve_continuation_epoch: the debit of one tool batch is possible *)
MayReserve(T, C, A, S, c) ==
    LET t == C[c].task IN
    /\ t # None /\ S[c] # Unset
    /\ C[c].disp = "continue" /\ T[t].status = "running"
    /\ \/ T[t].latest = c
       \/ /\ T[t].latest # None
          /\ C[T[t].latest].disp = "complete"
          /\ C[T[t].latest].rev = C[c].rev + 1
    /\ S[c] < C[c].budget
    /\ A[t][C[c].approach].used < A[t][C[c].approach].limit

Debited(A, C, c) == [A EXCEPT ![C[c].task][C[c].approach].used = @ + 1]

(* create_progress_epoch; the place in the sequence is the evidence cursor *)
EpochRows == [budget : Checkpoints \cup {None}, work : BOOLEAN]

(* AutonomyCoordinator.decide: batches of work after the cursor that no    *)
(* checkpoint has been debited for                                         *)
Consumed(E, cursor) == Cardinality({e \in DOMAIN E : e > cursor /\ E[e].budget = None /\ E[e].work})

----------------------------------------------------------------------------
(* Work intents: what a row's payload carries of a task's admission *)

UserKinds == {"start", "replace_goal", "pause", "cancel", "continue", "message", "quit"}
RecoveryKinds == {"startup", "lifecycle", "resumed", "transport"}  \* sources of recovery_reconcile
Kinds == UserKinds \cup RecoveryKinds
         \cup {"body_event", "task_boundary", "task_continue", "completion_review"}
Priority ==
    [k \in Kinds |->
        CASE k = "quit" -> 100 [] k = "cancel" -> 95 [] k = "replace_goal" -> 90
          [] k = "pause" -> 85 [] k \in RecoveryKinds -> 80 [] k = "completion_review" -> 80
          [] k = "body_event" -> 77 [] k = "message" -> 76 [] k = "continue" -> 70
          [] k = "start" -> 65 [] k = "task_boundary" -> 55 [] OTHER -> 50]
ControlKinds == {"pause", "cancel", "replace_goal", "quit"}

Terminal == {"completed", "superseded", "failed"}
NoAdmission == [episode |-> 0, seq |-> 0, attempt |-> 0, limit |-> 0, confirmed |-> TRUE]
Admissions == [episode : Nat, seq : Nat, attempt : Nat, limit : Nat, confirmed : BOOLEAN]
NoKey == <<0, 0, 0>>

IntentRows ==
    [state : Terminal \cup {"absent", "queued", "leased"}, kind : Kinds, key : Nat \X Nat \X Nat,
     task : Tasks \cup {None}, cp : Checkpoints \cup {None},
     decision : {"resume", "recover", "wake", "idle", "park", "complete", "death"},
     bud : Checkpoints \cup {None, Unset}, ev : Nat \cup {Unset}, adm : Nat \cup {Unset},
     admTask : Tasks \cup {None, Unset}, rec : Admissions, denied : BOOLEAN, orphan : BOOLEAN]
AbsentIntent ==
    [state |-> "absent", kind |-> "message", key |-> NoKey, task |-> None, cp |-> None,
     decision |-> "resume", bud |-> Unset, ev |-> Unset, adm |-> Unset, admTask |-> Unset,
     rec |-> NoAdmission, denied |-> FALSE, orphan |-> FALSE]
NoIntents == [i \in Intents |-> AbsentIntent]

NextIntent(L) == CHOOSE i \in Intents : L[i].state = "absent" /\ \A j \in 1..(i - 1) : L[j].state # "absent"
KeyKnown(L, kind, key) == key # NoKey /\ \E i \in Intents : /\ L[i].state # "absent"
                                                            /\ L[i].kind = kind /\ L[i].key = key
Queued(L) == {i \in Intents : L[i].state = "queued"}
Entered(L, r) == IF KeyKnown(L, r.kind, r.key) THEN L
                 ELSE [L EXCEPT ![NextIntent(L)] = [r EXCEPT !.state = "queued"]]
HeadOf(L) == CHOOSE i \in Queued(L) : \A j \in Queued(L) \ {i} :
              \/ Priority[L[i].kind] > Priority[L[j].kind]
              \/ Priority[L[i].kind] = Priority[L[j].kind] /\ i < j
SupersededIn(L, ks) == [i \in Intents |-> IF L[i].state = "queued" /\ L[i].kind \in ks
                                          THEN [L[i] EXCEPT !.state = "superseded"] ELSE L[i]]

(* _retire_reconciled_orphans: a start-up intent names every unknown       *)
(* outcome that was outstanding when it was entered.                       *)
Retired(L, i) == IF L[i].kind # "startup" THEN L
                 ELSE [j \in Intents |-> [L[j] EXCEPT !.orphan = FALSE]]

(* bind_work_intent_admission: write-once; it raises on another value. *)
MayBind(r, bud, ev, t) == /\ r.bud \in {Unset, bud} /\ r.adm \in {Unset, ev}
                          /\ r.admTask \in {Unset, t}
Bound(L, i, bud, ev, t) ==
    Retired([L EXCEPT ![i].bud = bud, ![i].adm = ev, ![i].admTask = t], i)

----------------------------------------------------------------------------
(* Recovery admission *)

(* What next_recovery_admission reads of the ledger *)
Owned(L, i) == {j \in Intents \ {i} : L[j].state # "absent" /\ L[j].admTask = L[i].admTask}
Earlier(L, i) == {j \in Owned(L, i) : L[j].rec # NoAdmission}

(* It raises: no bound admission, a replay, or a lifecycle recovery that   *)
(* ended without a reservation.                                            *)
AdmissionRefused(L, i) ==
    \/ L[i].admTask = Unset
    \/ L[i].rec # NoAdmission
    \/ \E j \in Owned(L, i) \ Earlier(L, i) :
          ~ L[j].denied /\ L[j].kind = "lifecycle" /\ L[j].state \in Terminal

LastAdmission(L, js) ==
    IF js = {} THEN NoAdmission
    ELSE L[CHOOSE j \in js : \A k \in js : L[k].rec.seq <= L[j].rec.seq].rec

(* Mutant: every attempt brings a full budget of its own. *)
NextAdmissionRefilled(L, i, maxAttempts) ==
    LET last == LastAdmission(L, Earlier(L, i))
    IN  [episode |-> i, seq |-> last.seq + 1, attempt |-> last.attempt + 1,
         limit |-> last.attempt + maxAttempts, confirmed |-> FALSE]

NextAdmission(L, i, maxAttempts) ==
    LET last == LastAdmission(L, Earlier(L, i))
        limit == IF last.confirmed THEN maxAttempts ELSE Min({maxAttempts, last.limit})
    IN  [episode |-> IF last.confirmed THEN i ELSE last.episode,
         seq |-> last.seq + 1,
         attempt |-> IF last.confirmed THEN 1 ELSE last.attempt + 1,
         limit |-> limit, confirmed |-> FALSE]

(* reconciled_recovery_payload: a start-up that found the Body fit closes  *)
(* the open episode of its task.                                           *)
Reconciled(L, t) ==
    LET js == {j \in Intents : L[j].state # "absent" /\ L[j].admTask = t /\ L[j].rec # NoAdmission}
    IN  [j \in Intents |-> IF j \in js /\ L[j].rec = LastAdmission(L, js)
                           THEN [L[j] EXCEPT !.rec.confirmed = TRUE] ELSE L[j]]
=============================================================================
