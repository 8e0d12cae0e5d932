----------------------------- MODULE WorkLedger -----------------------------
(***************************************************************************)
(* The durable ledger of work intents (minebot/app/work_queue.py and the   *)
(* work_intents table of minebot/app/runtime_state.py).                    *)
(*                                                                         *)
(* Each method of the store is one SQLite transaction under one lock, so   *)
(* each is an operator from a ledger to a ledger.  A row's id is its place *)
(* in the order of creation; sources, payload texts and times are left out *)
(* except what the scheduler decides by: the dedupe key, the Body events a *)
(* row carries, the orphans it names, and whether its lease is still live. *)
(***************************************************************************)
EXTENDS Integers

CONSTANT MaxIntents   \* bound: rows the ledger can hold

ASSUME IntentsAssumption == MaxIntents \in Nat

Ids == 1..MaxIntents
NoId == 0

(* WORK_INTENT_PRIORITY *)
Priority ==
    [quit |-> 100, cancel |-> 95, replace_goal |-> 90, pause |-> 85,
     recovery_reconcile |-> 80, completion_review |-> 80, body_event |-> 77,
     message |-> 76, reflex_fact |-> 75, continue |-> 70, start |-> 65,
     task_boundary |-> 55, task_continue |-> 50, maintenance |-> 10]
Kinds == DOMAIN Priority
ControlKinds == {"pause", "cancel", "replace_goal", "quit"}

(* superseded_kinds_for: a control command voids all queued work below it. *)
SupersededKindsFor(kind) ==
    IF kind \in ControlKinds
    THEN {k \in Kinds : Priority[k] < Priority[kind]}
    ELSE {}

(* A dedupe key names what the intent reports: a Body event or a chat line *)
(* of one event epoch.  noKey stands for Python's None.                    *)
Streams == {"body", "chat"}
Keys == [stream : Streams, epoch : Nat, seq : Nat]
NoKey == [stream |-> "none", epoch |-> 0, seq |-> 0]

Terminal == {"completed", "superseded", "failed"}
States == Terminal \cup {"absent", "queued", "leased"}
Reasons == {"none", "control", "startup_reconcile_refreshed", "earlier_process_quit",
            "preempted", "step_failed", "process_restart_unknown_outcome"}

Rows == [state : States, rev : Nat, kind : Kinds, key : Keys \cup {NoKey},
         live : BOOLEAN, reason : Reasons, by : Ids \cup {NoId}, bound : BOOLEAN,
         events : SUBSET Keys, orphans : SUBSET Ids]

AbsentRow == [state |-> "absent", rev |-> 0, kind |-> "maintenance", key |-> NoKey,
              live |-> FALSE, reason |-> "none", by |-> NoId, bound |-> FALSE,
              events |-> {}, orphans |-> {}]
EmptyLedger == [i \in Ids |-> AbsentRow]

Queued(L) == {i \in Ids : L[i].state = "queued"}
Leased(L) == {i \in Ids : L[i].state = "leased"}
QueuedOf(L, ks) == {i \in Queued(L) : L[i].kind \in ks}

(* Mutant: only work that is still to be done blocks its key. *)
KnownLive(L, key) == key # NoKey /\ \E i \in Ids : /\ L[i].state \in {"queued", "leased"}
                                                  /\ L[i].key = key

(* get_work_intent_by_dedupe: the key is permanent, whatever became of the *)
(* row that used it.                                                       *)
Known(L, key) == key # NoKey /\ \E i \in Ids : L[i].state # "absent" /\ L[i].key = key

IsNextId(L, i) == /\ L[i].state = "absent"
                  /\ \A j \in Ids : L[j].state = "absent" => i <= j

(* enqueue_work_intent: an insert, under the next id i, or the row that    *)
(* already has the key.                                                    *)
Enqueued(L, i, kind, key, events, orphans) ==
    IF Known(L, key) THEN L
    ELSE [L EXCEPT ![i] =
            [AbsentRow EXCEPT !.state = "queued", !.rev = 1, !.kind = kind, !.key = key,
                              !.events = events, !.orphans = orphans]]

(* The first half of lease_next_work_intent: expired leases of the asked   *)
(* kinds go back to the queue, whoever is still working on them.           *)
Requeued(L, ks) ==
    [i \in Ids |-> IF L[i].state = "leased" /\ ~ L[i].live /\ L[i].kind \in ks
                   THEN [L[i] EXCEPT !.state = "queued", !.rev = @ + 1] ELSE L[i]]

(* ORDER BY priority DESC, created_at ASC *)
Before(L, i, j) ==
    \/ Priority[L[i].kind] > Priority[L[j].kind]
    \/ Priority[L[i].kind] = Priority[L[j].kind] /\ i <= j
IsHead(L, ks, i) == i \in QueuedOf(L, ks) /\ \A j \in QueuedOf(L, ks) \ {i} : Before(L, i, j)

LeasedRow(r) == [r EXCEPT !.state = "leased", !.rev = @ + 1, !.live = TRUE]

(* The lease token's revision must still be the row's: finish_work_intent. *)
Holds(L, i, rev) == L[i].state = "leased" /\ L[i].rev = rev
HoldsLive(L, i, rev) == Holds(L, i, rev) /\ L[i].live

(* _retire_reconciled_orphans, inside the transaction that binds or        *)
(* completes the start-up reconciliation i.                                *)
Retired(L, i) ==
    IF L[i].kind # "recovery_reconcile" THEN L
    ELSE [j \in Ids |->
            IF /\ j \in L[i].orphans
               /\ L[j].state = "failed"
               /\ L[j].reason = "process_restart_unknown_outcome"
               /\ L[j].by = NoId
            THEN [L[j] EXCEPT !.by = i] ELSE L[j]]

(* Mutant: a reconciliation that failed strikes its orphans off as well. *)
FinishedRetiring(L, i, state, reason) ==
    Retired([L EXCEPT ![i].state = state, ![i].rev = @ + 1, ![i].live = FALSE,
                      ![i].reason = reason], i)

(* finish_work_intent *)
Finished(L, i, state, reason) ==
    LET M == [L EXCEPT ![i].state = state, ![i].rev = @ + 1, ![i].live = FALSE,
                       ![i].reason = reason]
    IN  IF state = "completed" THEN Retired(M, i) ELSE M

(* bind_work_intent_admission *)
Bound(L, i) == Retired([L EXCEPT ![i].bound = TRUE], i)

(* Mutant: work that was carried out is superseded as well. *)
SupersededAll(L, ks, reason) ==
    [i \in Ids |-> IF L[i].state \in {"queued", "leased", "completed"} /\ L[i].kind \in ks
                   THEN [L[i] EXCEPT !.state = "superseded", !.rev = @ + 1, !.reason = reason]
                   ELSE L[i]]

(* supersede_queued_work_intents *)
Superseded(L, ks, reason) ==
    [i \in Ids |-> IF i \in QueuedOf(L, ks)
                   THEN [L[i] EXCEPT !.state = "superseded", !.rev = @ + 1, !.reason = reason]
                   ELSE L[i]]

(* abandon_leased_work_intents: the leases of a dead process, and what it  *)
(* reports: those and every earlier unknown outcome nobody reconciled.     *)
Abandoned(L) ==
    [i \in Ids |-> IF L[i].state = "leased"
                   THEN [L[i] EXCEPT !.state = "failed", !.rev = @ + 1, !.live = FALSE,
                                     !.reason = "process_restart_unknown_outcome"]
                   ELSE L[i]]
Outstanding(L) == {i \in Ids : /\ L[i].state = "failed"
                               /\ L[i].reason = "process_restart_unknown_outcome"
                               /\ L[i].by = NoId}

(* Mutant: only the leases found now are reported. *)
ReportedLatest(L) == Leased(L)

Reported(L) == Leased(L) \cup Outstanding(L)
=============================================================================
