-------------------------- MODULE WorkQueueProofs --------------------------
(***************************************************************************)
(* Type correctness of the scheduler over the ledger, "entered once",      *)
(* "what a step settled stays settled", an unknown outcome stays reported  *)
(* until a reconciliation that named it was read, and no Body event is     *)
(* told twice: for ledgers and logs of any size and any number of deaths.  *)
(*                                                                         *)
(* Every transaction of the store takes a well-formed ledger to one,       *)
(* leaves settled rows alone and keeps the dedupe keys apart; one lemma    *)
(* each.  The actions follow from them.                                    *)
(***************************************************************************)
EXTENDS WorkQueue, TLAPS

Ledgers == [Ids -> Rows]

(* The rows settled in L are as settled in M. *)
Kept(L, M) ==
    \A i \in Ids : L[i].state \in Terminal => M[i].state = L[i].state /\ M[i].rev = L[i].rev

(* No two rows of L have the same dedupe key. *)
KeysOnce(L) ==
    \A i, j \in Ids : i # j /\ L[i].state # "absent" /\ L[j].state # "absent"
        /\ L[i].key # NoKey => L[i].key # L[j].key

(* M has the rows of L, under the same keys. *)
SameKeys(L, M) ==
    \A i \in Ids : M[i].key = L[i].key /\ (M[i].state = "absent" <=> L[i].state = "absent")

(* A transaction that returns M from L is well behaved. *)
Sound(L, M) == M \in Ledgers /\ Kept(L, M) /\ (KeysOnce(L) => KeysOnce(M))

(* A transaction that enters nothing keeps the keys apart. *)
LEMMA SameKeysOnce ==
    ASSUME NEW L, NEW M, SameKeys(L, M), KeysOnce(L)
    PROVE  KeysOnce(M)
  BY DEF SameKeys, KeysOnce

(* Transactions may follow each other. *)
LEMMA SoundTwice ==
    ASSUME NEW L, NEW M, NEW N, Sound(L, M), Sound(M, N)
    PROVE  Sound(L, N)
  BY DEF Sound, Kept

(* The ways in which a transaction rewrites one row. *)
LEMMA RowRewritten ==
    ASSUME NEW r \in Rows, NEW s \in States, NEW why \in Reasons
    PROVE  /\ [r EXCEPT !.state = s, !.rev = @ + 1] \in Rows
           /\ [r EXCEPT !.state = s, !.rev = @ + 2] \in Rows
           /\ [r EXCEPT !.state = s, !.rev = @ + 1, !.live = TRUE] \in Rows
           /\ [r EXCEPT !.state = s, !.rev = @ + 1, !.reason = why] \in Rows
           /\ [r EXCEPT !.state = s, !.rev = @ + 1, !.live = FALSE, !.reason = why] \in Rows
  <1>1. r.rev + 1 \in Nat /\ r.rev + 2 \in Nat
    BY DEF Rows
  <1>2. ASSUME NEW n \in Nat
        PROVE  /\ [r EXCEPT !.state = s, !.rev = n] \in Rows
               /\ [r EXCEPT !.state = s, !.rev = n, !.live = TRUE] \in Rows
               /\ [r EXCEPT !.state = s, !.rev = n, !.reason = why] \in Rows
               /\ [r EXCEPT !.state = s, !.rev = n, !.live = FALSE, !.reason = why] \in Rows
    BY DEF Rows
  <1> QED
    BY <1>1, <1>2

(* enqueue_work_intent writes a row that was absent. *)
LEMMA EnqueuedSound ==
    ASSUME NEW L \in Ledgers, NEW i \in Ids, IsNextId(L, i),
           NEW kind \in Kinds, NEW key \in Keys \cup {NoKey},
           NEW events \in SUBSET Keys, NEW orphs \in SUBSET Ids
    PROVE  Sound(L, Enqueued(L, i, kind, key, events, orphs))
  <1> DEFINE r == [AbsentRow EXCEPT !.state = "queued", !.rev = 1, !.kind = kind,
                       !.key = key, !.events = events, !.orphans = orphs]
  <1>1. r \in Rows
    BY DEF Rows, AbsentRow, States, Terminal, Reasons, NoId
  <1> DEFINE M == [L EXCEPT ![i] = r]
  <1>2. r.key = key
    BY DEF AbsentRow
  <1> HIDE DEF r
  <1>3. M \in Ledgers /\ M[i] = r /\ \A j \in Ids \ {i} : M[j] = L[j]
    BY <1>1 DEF Ledgers
  <1> HIDE DEF M
  <1>4. Kept(L, M)
    BY <1>3 DEF Kept, IsNextId, Terminal
  <1>5. ~ Known(L, key) /\ KeysOnce(L) => KeysOnce(M)
    BY <1>2, <1>3 DEF Known, KeysOnce
  <1>6. Sound(L, L)
    BY DEF Sound, Kept
  <1> QED
    BY <1>3, <1>4, <1>5, <1>6 DEF Sound, Enqueued, M, r

(* The requeueing of expired leases. *)
LEMMA RequeuedSound ==
    ASSUME NEW L \in Ledgers, NEW ks
    PROVE  Sound(L, Requeued(L, ks))
  <1>1. ASSUME NEW i \in Ids
        PROVE  [L[i] EXCEPT !.state = "queued", !.rev = @ + 1] \in Rows
    BY RowRewritten DEF Ledgers, States, Reasons
  <1>2. SameKeys(L, Requeued(L, ks))
    BY DEF SameKeys, Ledgers, Rows, Requeued
  <1> QED
    BY <1>1, <1>2, SameKeysOnce DEF Sound, Kept, Ledgers, Requeued, Terminal

(* A lease is taken of a queued row. *)
LEMMA LeaseSound ==
    ASSUME NEW L \in Ledgers, NEW i \in Ids, L[i].state = "queued"
    PROVE  Sound(L, LeaseInto(L, i))
  <1>1. LeasedRow(L[i]) \in Rows
    BY RowRewritten DEF Ledgers, States, Reasons, LeasedRow
  <1>2. SameKeys(L, LeaseInto(L, i))
    BY DEF SameKeys, Ledgers, Rows, LeaseInto, LeasedRow
  <1> QED
    BY <1>1, <1>2, SameKeysOnce DEF Sound, Kept, Ledgers, LeaseInto, Terminal

(* _retire_reconciled_orphans touches neither state nor revision. *)
LEMMA RetiredSound ==
    ASSUME NEW L \in Ledgers, NEW i \in Ids \cup {NoId}
    PROVE  Sound(L, Retired(L, i))
  <1>1. ASSUME NEW j \in Ids
        PROVE  /\ [L[j] EXCEPT !.by = i] \in Rows
               /\ [L[j] EXCEPT !.by = i].state = L[j].state
               /\ [L[j] EXCEPT !.by = i].rev = L[j].rev
    BY DEF Ledgers, Rows
  <1>2. SameKeys(L, Retired(L, i))
    BY DEF SameKeys, Ledgers, Rows, Retired
  <1> QED
    BY <1>1, <1>2, SameKeysOnce DEF Sound, Kept, Ledgers, Retired

(* finish_work_intent settles a leased row. *)
LEMMA FinishedSound ==
    ASSUME NEW L \in Ledgers, NEW i \in Ids \cup {NoId}, L[i].state = "leased",
           NEW state \in Terminal, NEW reason \in Reasons
    PROVE  Sound(L, Finished(L, i, state, reason))
  <1> DEFINE M == [L EXCEPT ![i].state = state, ![i].rev = @ + 1, ![i].live = FALSE,
                            ![i].reason = reason]
  <1>1. M \in Ledgers
    <2>1. CASE i \in Ids
      <3>1. M = [L EXCEPT ![i] = [L[i] EXCEPT !.state = state, !.rev = @ + 1,
                                              !.live = FALSE, !.reason = reason]]
        BY <2>1 DEF Ledgers
      <3> QED
        BY <2>1, <3>1, RowRewritten DEF Ledgers, States
    <2>2. CASE i \notin Ids
      BY <2>2 DEF Ledgers
    <2> QED
      BY <2>1, <2>2
  <1>2. Kept(L, M)
    BY DEF Kept, Ledgers, Terminal
  <1>3. SameKeys(L, M)
    BY DEF SameKeys, Ledgers, Rows, Terminal
  <1>4. Sound(L, M)
    BY <1>1, <1>2, <1>3, SameKeysOnce DEF Sound
  <1>5. Sound(L, Retired(M, i))
    BY <1>1, <1>4, RetiredSound, SoundTwice
  <1> QED
    BY <1>4, <1>5 DEF Finished

(* bind_work_intent_admission *)
LEMMA BoundSound ==
    ASSUME NEW L \in Ledgers, NEW i \in Ids \cup {NoId}
    PROVE  Sound(L, Bound(L, i))
  <1> DEFINE M == [L EXCEPT ![i].bound = TRUE]
  <1>1. M \in Ledgers
    BY ZenonT(30) DEF Ledgers, Rows
  <1>2. Kept(L, M)
    BY DEF Kept, Ledgers, Rows
  <1>3. SameKeys(L, M)
    BY DEF SameKeys, Ledgers, Rows
  <1>4. Sound(L, M)
    BY <1>1, <1>2, <1>3, SameKeysOnce DEF Sound
  <1> QED
    BY <1>1, <1>4, RetiredSound, SoundTwice DEF Bound

(* supersede_queued_work_intents *)
LEMMA SupersededSound ==
    ASSUME NEW L \in Ledgers, NEW ks, NEW reason \in Reasons
    PROVE  Sound(L, Superseded(L, ks, reason))
  <1>1. ASSUME NEW i \in Ids
        PROVE  [L[i] EXCEPT !.state = "superseded", !.rev = @ + 1, !.reason = reason] \in Rows
    BY RowRewritten DEF Ledgers, States, Terminal
  <1>2. SameKeys(L, Superseded(L, ks, reason))
    BY DEF SameKeys, Ledgers, Rows, Superseded, QueuedOf, Queued
  <1> QED
    BY <1>1, <1>2, SameKeysOnce
       DEF Sound, Kept, Ledgers, Superseded, QueuedOf, Queued, Terminal

(* abandon_leased_work_intents *)
LEMMA AbandonedSound ==
    ASSUME NEW L \in Ledgers
    PROVE  Sound(L, Abandoned(L))
  <1>1. ASSUME NEW i \in Ids
        PROVE  [L[i] EXCEPT !.state = "failed", !.rev = @ + 1, !.live = FALSE,
                            !.reason = "process_restart_unknown_outcome"] \in Rows
    BY RowRewritten DEF Ledgers, States, Terminal, Reasons
  <1>2. SameKeys(L, Abandoned(L))
    BY DEF SameKeys, Ledgers, Rows, Abandoned
  <1> QED
    BY <1>1, <1>2, SameKeysOnce DEF Sound, Kept, Ledgers, Abandoned, Terminal
-----------------------------------------------------------------------------
(* The scheduler                                                           *)

(* A row is entered for what is a kind, a key, events and orphans. *)
LEMMA EnterSound ==
    ASSUME rows \in Ledgers,
           NEW kind \in Kinds, NEW key \in Keys \cup {NoKey},
           NEW events \in SUBSET Keys, NEW orphs \in SUBSET Ids,
           Enter(kind, key, events, orphs)
    PROVE  Sound(rows, rows')
  <1>1. PICK i \in Ids : IsNextId(rows, i) /\ rows' = Enqueued(rows, i, kind, key, events, orphs)
    BY DEF Enter
  <1> QED
    BY <1>1, EnqueuedSound

(* Requeueing and leasing in one transaction: lease_next_work_intent. *)
LEMMA LeaseNextSound ==
    ASSUME rows \in Ledgers, NEW ks, NEW ls,
           NEW i \in Ids, IsHead(Requeued(rows, ks), ls, i)
    PROVE  /\ Sound(rows, LeaseInto(Requeued(rows, ks), i))
           /\ TokenOf(Requeued(rows, ks), i) \in Tokens
  <1> DEFINE L == Requeued(rows, ks)
  <1>1. Sound(rows, L) /\ L \in Ledgers
    BY RequeuedSound DEF Sound
  <1>2. L[i].state = "queued"
    BY DEF IsHead, QueuedOf, Queued
  <1>3. L[i].rev \in Nat
    BY <1>1 DEF Ledgers, Rows
  <1> HIDE DEF L
  <1>4. Sound(rows, LeaseInto(L, i))
    BY <1>1, <1>2, LeaseSound, SoundTwice
  <1>5. TokenOf(L, i) \in Tokens
    BY <1>3 DEF TokenOf, Tokens
  <1> QED
    BY <1>4, <1>5 DEF L

(* The keys of the current epoch are keys. *)
LEMMA KeysOfTheEpoch ==
    ASSUME TypeOK, NEW n \in Nat
    PROVE  BodyKey(n) \in Keys /\ ChatKey(n) \in Keys
  BY DEF TypeOK, Position, BodyKey, ChatKey, Keys, Streams

(* Commands the scheduler gives itself are kinds of intent. *)
LEMMA OwnKinds == {"recovery_reconcile", "reflex_fact", "body_event", "maintenance"} \subseteq Kinds
  BY DEF Kinds, Priority

(* The ledger is well formed when the scheduler starts the first time. *)
LEMMA InitTypeOK == Init => TypeOK
  <1> SUFFICES ASSUME Init PROVE TypeOK
    OBVIOUS
  <1>1. EmptyLedger \in [Ids -> Rows]
    BY OwnKinds DEF EmptyLedger, AbsentRow, Rows, States, Terminal, Reasons, NoId
  <1>2. facts \in 0..MaxFacts /\ deaths \in 0..MaxDeaths /\ failed \in 0..MaxFailedStarts
    BY WorldAssumption DEF Init
  <1>3. cursor \in Position /\ world \in Position /\ mem \in Position /\ eventLog \in BOOLEAN
    BY LogAssumption DEF Init, Position
  <1>4. origin \in [ev : Nat, chat : Nat]
    BY DEF Init
  <1>5. held \in Tokens /\ steered \in Tokens
    BY DEF Init, Tokens, NoToken
  <1> QED
    BY <1>1, <1>2, <1>3, <1>4, <1>5 DEF Init, TypeOK

(* What a death or a refused start leaves behind is well formed. *)
LEMMA VanishTypeOK ==
    ASSUME TypeOK, rows' \in Ledgers, Vanish, UNCHANGED <<cursor, world, eventLog, origin>>,
           facts' \in 0..MaxFacts, deaths' \in 0..MaxDeaths, failed' \in 0..MaxFailedStarts
    PROVE  TypeOK'
  BY DEF TypeOK, Vanish, Ledgers, Position, Tokens, NoToken, NoId

(* Giving up, in whatever stage of start-up. *)
LEMMA GiveUpSound ==
    ASSUME TypeOK, GiveUp
    PROVE  TypeOK' /\ Sound(rows, rows')
  <1>1. rows' = rows /\ rows \in Ledgers
    BY DEF GiveUp, durable, TypeOK, Ledgers
  <1>2. failed' \in 0..MaxFailedStarts
    BY WorldAssumption DEF GiveUp, TypeOK
  <1>3. /\ Vanish /\ UNCHANGED <<cursor, world, eventLog, origin>>
        /\ facts' \in 0..MaxFacts /\ deaths' \in 0..MaxDeaths
    BY DEF GiveUp, durable, TypeOK
  <1> QED
    BY <1>1, <1>2, <1>3, VanishTypeOK DEF Sound, Kept

(* Start-up. *)
LEMMA StartUpSound ==
    ASSUME TypeOK, StartUp
    PROVE  TypeOK' /\ Sound(rows, rows')
  <1> USE DEF durable, process, wake, session, reader, counts
  <1>1. rows \in Ledgers
    BY DEF TypeOK, Ledgers
  <1>2. Sound(rows, rows)
    BY <1>1 DEF Sound, Kept
  <1>3. CASE OpenQueue
    <2>1. Sound(rows, rows')
      BY <1>1, <1>3, AbandonedSound DEF OpenQueue
    <2>2. Reported(rows) \subseteq Ids
      BY DEF Reported, Leased, Outstanding
    <2> QED
      BY <1>3, <2>1, <2>2 DEF OpenQueue, TypeOK, Sound, Ledgers
  <1>4. CASE DropStaleQuits
    <2>1. Sound(rows, rows')
      BY <1>1, <1>4, SupersededSound DEF DropStaleQuits, Reasons
    <2> QED
      BY <1>4, <2>1 DEF DropStaleQuits, TypeOK, Sound, Ledgers
  <1>5. CASE PlaceCursor
    <2>1. mem' \in Position /\ cursor' \in Position
      BY <1>5 DEF PlaceCursor, TypeOK, Position
    <2>2. origin' \in [ev : Nat, chat : Nat]
      BY <1>5, <2>1 DEF PlaceCursor, TypeOK, Position
    <2> QED
      BY <1>2, <1>5, <2>1, <2>2 DEF PlaceCursor, TypeOK
  <1>6. CASE RefuseConflict \/ StartupFails
    BY <1>6, GiveUpSound DEF RefuseConflict, StartupFails
  <1>7. CASE SupersedeStale
    <2>1. Sound(rows, rows')
      BY <1>1, <1>7, SupersededSound DEF SupersedeStale, Reasons
    <2>2. \A i \in StaleEvents : rows[i].events \subseteq Keys
      BY <1>1 DEF StaleEvents, QueuedOf, Queued, Ledgers, Rows
    <2>3. carried' \subseteq Keys
      BY <1>7, <2>2 DEF SupersedeStale
    <2> QED
      BY <1>7, <2>1, <2>3 DEF SupersedeStale, TypeOK, Sound, Ledgers
  <1>8. CASE EnqueueReconciliation
    <2>1. (mem.ev + 1)..world.ev \subseteq Nat
      BY DEF TypeOK, Position
    <2>2. FreshEvents \subseteq Keys
      BY <2>1, KeysOfTheEpoch DEF FreshEvents
    <2>3. carried \cup FreshEvents \in SUBSET Keys /\ orphans \in SUBSET Ids
      BY <2>2 DEF TypeOK
    <2>4. Sound(rows, rows')
      BY <1>1, <1>8, <2>3, EnterSound, OwnKinds DEF EnqueueReconciliation
    <2>5. mem' \in Position
      BY <1>8 DEF EnqueueReconciliation, TypeOK, Position
    <2> QED
      BY <1>8, <2>4, <2>5 DEF EnqueueReconciliation, TypeOK, Sound, Ledgers
  <1>9. CASE AckStartup
    BY <1>2, <1>9 DEF AckStartup, TypeOK
  <1> QED
    BY <1>3, <1>4, <1>5, <1>6, <1>7, <1>8, <1>9 DEF StartUp

(* The session loop. *)
LEMMA LoopStepSound ==
    ASSUME TypeOK, LoopStep
    PROVE  TypeOK' /\ Sound(rows, rows')
  <1> USE DEF durable, process, wake, session, reader, counts
  <1>1. rows \in Ledgers
    BY DEF TypeOK, Ledgers
  <1>2. Sound(rows, rows)
    BY <1>1 DEF Sound, Kept
  <1>3. /\ held.id \in Ids \cup {NoId} /\ steered.id \in Ids \cup {NoId}
        /\ NoToken \in Tokens
    BY DEF TypeOK, Tokens, NoToken
  <1>4. "completed" \in Terminal /\ "failed" \in Terminal /\ "superseded" \in Terminal
    BY DEF Terminal
  <1>5. "none" \in Reasons /\ "step_failed" \in Reasons /\ "preempted" \in Reasons
    BY DEF Reasons
  <1>6. CASE TakeNext
    <2>1. Sound(rows, rows') /\ held' \in Tokens
      <3>1. CASE rows' = Requeued(rows, Kinds) /\ UNCHANGED held
        BY <1>1, <3>1, RequeuedSound DEF TypeOK
      <3>2. CASE \E i \in Ids : /\ IsHead(Requeued(rows, Kinds), Kinds, i)
                                /\ rows' = LeaseInto(Requeued(rows, Kinds), i)
                                /\ held' = TokenOf(Requeued(rows, Kinds), i)
        BY <1>1, <3>2, LeaseNextSound
      <3> QED
        BY <1>6, <3>1, <3>2 DEF TakeNext
    <2> QED
      BY <1>6, <2>1 DEF TakeNext, Recount, TypeOK, Sound, Ledgers
  <1>7. CASE Admitted
    BY <1>2, <1>7 DEF Admitted, TypeOK
  <1>8. CASE DeliverFacts
    <2> DEFINE L == Requeued(rows, {"reflex_fact"})
               F == QueuedOf(L, {"reflex_fact"})
    <2>1. Sound(rows, L) /\ L \in Ledgers
      BY <1>1, RequeuedSound DEF Sound
    <2>2. F \subseteq Ids /\ \A i \in F : L[i].state = "queued"
      BY DEF QueuedOf, Queued
    <2>3. rows' = [i \in Ids |-> IF i \in F THEN [L[i] EXCEPT !.state = "completed", !.rev = @ + 2]
                                 ELSE L[i]]
      BY <1>8 DEF DeliverFacts
    <2> HIDE DEF L, F
    <2>4. \A i \in Ids : [L[i] EXCEPT !.state = "completed", !.rev = @ + 2] \in Rows
      BY <1>4, <1>5, <2>1, RowRewritten DEF Ledgers, States
    <2>5. Sound(L, rows')
      <3>1. SameKeys(L, rows')
        <4> SUFFICES ASSUME NEW i \in Ids
                     PROVE  /\ rows'[i].key = L[i].key
                            /\ rows'[i].state = "absent" <=> L[i].state = "absent"
          BY DEF SameKeys
        <4>1. L[i] \in Rows
          BY <2>1 DEF Ledgers
        <4>2. CASE i \in F
          <5>1. rows'[i] = [L[i] EXCEPT !.state = "completed", !.rev = @ + 2]
            BY <2>3, <4>2
          <5> QED
            BY <2>2, <4>1, <4>2, <5>1 DEF Rows
        <4>3. CASE i \notin F
          BY <2>3, <4>3
        <4> QED
          BY <4>2, <4>3
      <3> QED
        BY <2>1, <2>2, <2>3, <2>4, <3>1, SameKeysOnce DEF Sound, Kept, Ledgers, Terminal
    <2>6. Sound(rows, rows')
      BY <2>1, <2>5, SoundTwice
    <2> QED
      BY <1>8, <2>6 DEF DeliverFacts, Recount, TypeOK, Sound, Ledgers
  <1>9. CASE BindAdmission
    <2>1. Sound(rows, rows')
      BY <1>1, <1>3, <1>9, BoundSound DEF BindAdmission
    <2> QED
      BY <1>9, <2>1 DEF BindAdmission, TypeOK, Sound, Ledgers
  <1>10. CASE BindRaises
    <2>1. Sound(rows, rows')
      BY <1>1, <1>2, <1>3, <1>4, <1>5, <1>10, FinishedSound DEF BindRaises, Holds
    <2> QED
      BY <1>3, <1>10, <2>1 DEF BindRaises, Recount, TypeOK, Sound, Ledgers
  <1>11. CASE Overlook \/ BeginSteering \/ StepCancelled
    BY <1>2, <1>3, <1>11, ZenonT(30) DEF Overlook, BeginSteering, StepCancelled, TypeOK
  <1>12. CASE SteerNext
    <2>1. Sound(rows, rows') /\ steered' \in Tokens
      <3>1. CASE rows' = Requeued(rows, {"message"}) /\ UNCHANGED steered
        BY <1>1, <3>1, RequeuedSound DEF TypeOK
      <3>2. CASE \E i \in Ids : /\ IsHead(Requeued(rows, {"message"}), {"message"}, i)
                                /\ rows' = LeaseInto(Requeued(rows, {"message"}), i)
                                /\ steered' = TokenOf(Requeued(rows, {"message"}), i)
        BY <1>1, <3>2, LeaseNextSound
      <3> QED
        BY <1>12, <3>1, <3>2 DEF SteerNext
    <2>2. loop' \in {"executing", loop} /\ news' \in {FALSE, news}
      BY <1>12 DEF SteerNext
    <2> QED
      BY <1>12, <2>1, <2>2 DEF SteerNext, Recount, TypeOK, Sound, Ledgers
  <1>13. CASE SteerDone
    <2>1. Sound(rows, rows')
      BY <1>1, <1>3, <1>4, <1>5, <1>13, FinishedSound DEF SteerDone, Holds
    <2> QED
      BY <1>3, <1>13, <2>1 DEF SteerDone, Recount, TypeOK, Sound, Ledgers
  <1>14. ASSUME NEW state \in Terminal, NEW reason \in Reasons, Settle(state, reason)
         PROVE  TypeOK' /\ Sound(rows, rows')
    <2>1. Sound(rows, rows')
      BY <1>1, <1>2, <1>3, <1>14, FinishedSound DEF Settle, Holds
    <2> QED
      BY <1>3, <1>14, <2>1 DEF Settle, Recount, TypeOK, Sound, Ledgers
  <1>15. CASE CompleteStep \/ PreemptStep
    BY <1>4, <1>5, <1>14, <1>15 DEF CompleteStep, PreemptStep
  <1>16. CASE EndProcess
    <2>1. Sound(rows, rows')
      BY <1>1, <1>3, <1>4, <1>5, <1>16, FinishedSound DEF EndProcess, Holds
    <2>2. /\ Vanish /\ UNCHANGED <<cursor, world, eventLog, origin>>
          /\ facts' \in 0..MaxFacts /\ failed' \in 0..MaxFailedStarts
      BY <1>16 DEF EndProcess, TypeOK
    <2>3. deaths' \in 0..MaxDeaths
      BY <1>16, WorldAssumption DEF EndProcess, TypeOK
    <2> QED
      BY <2>1, <2>2, <2>3, VanishTypeOK DEF Sound
  <1>17. CASE FactArrives
    <2>1. Sound(rows, rows')
      <3>1. PICK kind \in CalledIn : Enter(kind, NoKey, {}, {})
        BY <1>17 DEF FactArrives
      <3>2. kind \in Kinds
        BY <3>1, OwnKinds DEF CalledIn
      <3>3. NoKey \in Keys \cup {NoKey} /\ {} \in SUBSET Keys /\ {} \in SUBSET Ids
        OBVIOUS
      <3> QED
        BY <1>1, <3>1, <3>2, <3>3, EnterSound
    <2>2. facts' \in 0..MaxFacts
      BY <1>17, WorldAssumption DEF FactArrives, TypeOK
    <2> QED
      BY <1>17, <2>1, <2>2 DEF FactArrives, Announce, TypeOK, Sound, Ledgers
  <1> QED
    BY <1>6, <1>7, <1>8, <1>9, <1>10, <1>11, <1>12, <1>13, <1>15, <1>16, <1>17 DEF LoopStep

(* The Body event pump and the chat reader. *)
LEMMA IngressSound ==
    ASSUME TypeOK, PumpStep \/ ChatStep
    PROVE  TypeOK' /\ Sound(rows, rows')
  <1> USE DEF durable, process, wake, session, reader, counts
  <1>1. rows \in Ledgers
    BY DEF TypeOK, Ledgers
  <1>2. Sound(rows, rows)
    BY <1>1 DEF Sound, Kept
  <1>3. /\ (mem.ev + 1)..world.ev \subseteq Nat /\ (mem.chat + 1)..world.chat \subseteq Nat
        /\ [mem EXCEPT !.ev = world.ev] \in Position
        /\ [mem EXCEPT !.chat = world.chat] \in Position
    BY DEF TypeOK, Position
  <1>4. CASE PollBody
    BY <1>2, <1>3, <1>4 DEF PollBody, TypeOK
  <1>5. CASE EnterEvent
    <2>1. PICK n \in polled :
             /\ Enter("body_event", BodyKey(n), {BodyKey(n)}, {})
             /\ IF IsQueuedKey(rows', BodyKey(n)) THEN Announce("pump") ELSE UNCHANGED <<flag, news>>
             /\ polled' = polled \ {n}
      BY <1>5 DEF EnterEvent
    <2>2. BodyKey(n) \in Keys /\ {BodyKey(n)} \in SUBSET Keys /\ {} \in SUBSET Ids
      BY KeysOfTheEpoch DEF TypeOK
    <2>3. Sound(rows, rows')
      BY <1>1, <2>1, <2>2, EnterSound, OwnKinds
    <2> QED
      BY <1>5, <2>1, <2>3 DEF EnterEvent, Announce, TypeOK, Sound, Ledgers
  <1>6. CASE AckBody \/ AckChat
    BY <1>2, <1>6 DEF AckBody, AckChat, TypeOK
  <1>7. CASE PollChat
    BY <1>2, <1>3, <1>7 DEF PollChat, TypeOK
  <1>8. CASE SubmitKnown
    BY <1>2, <1>8 DEF SubmitKnown, TypeOK
  <1>9. CASE SubmitSupersede
    <2>1. PICK kind \in CommandKinds \cap ControlKinds :
             /\ rows' = Superseded(rows, SupersededKindsFor(kind), "control")
             /\ cmd' = kind
      BY <1>9 DEF SubmitSupersede
    <2>2. Sound(rows, rows')
      BY <1>1, <2>1, SupersededSound DEF Reasons
    <2>3. cmd' \in Kinds
      BY <2>1, CommandAssumption
    <2>4. news' \in BOOLEAN
      BY <1>9 DEF SubmitSupersede, TypeOK
    <2> QED
      BY <1>9, <2>2, <2>3, <2>4 DEF SubmitSupersede, Recount, TypeOK, Sound, Ledgers
  <1>10. CASE SubmitEnqueue
    <2>1. PICK n \in todo, kind \in CommandKinds :
             Enter(kind, ChatKey(n), {}, {}) /\ todo' = todo \ {n}
      BY <1>10 DEF SubmitEnqueue
    <2>2. ChatKey(n) \in Keys /\ {} \in SUBSET Keys /\ {} \in SUBSET Ids /\ kind \in Kinds
      BY KeysOfTheEpoch, CommandAssumption DEF TypeOK
    <2>3. Sound(rows, rows')
      BY <1>1, <2>1, <2>2, EnterSound
    <2> QED
      BY <1>10, <2>1, <2>3 DEF SubmitEnqueue, Announce, TypeOK, Sound, Ledgers
  <1> QED
    BY <1>4, <1>5, <1>6, <1>7, <1>8, <1>9, <1>10 DEF PumpStep, ChatStep

(* The reader of standard input. *)
LEMMA StdinSound ==
    ASSUME TypeOK, StdinStep
    PROVE  TypeOK' /\ Sound(rows, rows')
  <1> USE DEF durable, process, wake, session, reader, counts
  <1>1. rows \in Ledgers
    BY DEF TypeOK, Ledgers
  <1>2. CASE StdinSupersede
    <2>1. PICK kind \in CommandKinds \cap ControlKinds :
             /\ rows' = Superseded(rows, SupersededKindsFor(kind), "control")
             /\ cmd' = kind
      BY <1>2 DEF StdinSupersede
    <2>2. Sound(rows, rows')
      BY <1>1, <2>1, SupersededSound DEF Reasons
    <2>3. cmd' \in Kinds
      BY <2>1, CommandAssumption
    <2>4. news' \in BOOLEAN
      BY <1>2 DEF StdinSupersede, TypeOK
    <2> QED
      BY <1>2, <2>2, <2>3, <2>4 DEF StdinSupersede, Recount, TypeOK, Sound, Ledgers
  <1>3. CASE StdinEnqueue
    <2>1. PICK kind \in CommandKinds : Enter(kind, NoKey, {}, {})
      BY <1>3 DEF StdinEnqueue
    <2>2. NoKey \in Keys \cup {NoKey} /\ {} \in SUBSET Keys /\ {} \in SUBSET Ids /\ kind \in Kinds
      BY CommandAssumption
    <2>3. Sound(rows, rows')
      BY <1>1, <2>1, <2>2, EnterSound
    <2>4. facts' \in 0..MaxFacts
      BY <1>3, WorldAssumption DEF StdinEnqueue, TypeOK
    <2> QED
      BY <1>3, <2>3, <2>4 DEF StdinEnqueue, Announce, TypeOK, Sound, Ledgers
  <1> QED
    BY <1>2, <1>3 DEF StdinStep

(* Every step keeps the state well formed and the settled rows settled. *)
LEMMA StepSound ==
    ASSUME TypeOK, [Next]_vars
    PROVE  TypeOK' /\ Sound(rows, rows')
  <1> USE DEF durable, process, wake, session, reader, counts
  <1>1. rows \in Ledgers
    BY DEF TypeOK, Ledgers
  <1>2. Sound(rows, rows)
    BY <1>1 DEF Sound, Kept
  <1>3. CASE Dies
    <2>1. /\ Vanish /\ UNCHANGED <<rows, cursor, world, eventLog, origin>>
          /\ facts' \in 0..MaxFacts /\ failed' \in 0..MaxFailedStarts
      BY <1>3 DEF Dies, TypeOK
    <2>2. deaths' \in 0..MaxDeaths
      BY <1>3, WorldAssumption DEF Dies, TypeOK
    <2> QED
      BY <1>1, <1>2, <2>1, <2>2, VanishTypeOK
  <1>4. CASE DiesStarting
    BY <1>4, GiveUpSound DEF DiesStarting
  <1>5. CASE StartUp
    BY <1>5, StartUpSound
  <1>6. CASE LoopStep
    BY <1>6, LoopStepSound
  <1>7. CASE PumpStep \/ ChatStep \/ StdinStep
    BY <1>7, IngressSound, StdinSound
  <1>8. CASE \E t \in Threads : FlagStep(t)
    <2>1. PICK t \in Threads : FlagStep(t)
      BY <1>8
    <2>2. CASE CountQueued(t)
      BY <1>2, <2>2 DEF CountQueued, TypeOK
    <2>3. CASE WriteFlag(t)
      BY <1>2, <2>3 DEF WriteFlag, TypeOK
    <2> QED
      BY <2>1, <2>2, <2>3 DEF FlagStep
  <1>9. CASE \E i \in Ids : LeaseExpires(i)
    <2>1. PICK i \in Ids : LeaseExpires(i)
      BY <1>9
    <2>2. rows' = [rows EXCEPT ![i].live = FALSE]
      BY <2>1 DEF LeaseExpires
    <2>3. rows' \in Ledgers
      BY <1>1, <2>2, ZenonT(30) DEF Ledgers, Rows
    <2>4. Kept(rows, rows')
      BY <1>1, <2>2 DEF Ledgers, Rows, Kept
    <2>5. SameKeys(rows, rows')
      BY <1>1, <2>2 DEF SameKeys, Ledgers, Rows
    <2>6. Sound(rows, rows')
      BY <2>3, <2>4, <2>5, SameKeysOnce DEF Sound
    <2> QED
      BY <2>1, <2>6 DEF Sound, LeaseExpires, TypeOK, Ledgers
  <1>10. CASE EventHappens \/ ChatSaid \/ ServerRestarts
    <2>1. world' \in Position
      BY <1>10 DEF EventHappens, ChatSaid, ServerRestarts, TypeOK, Position
    <2> QED
      BY <1>2, <1>10, <2>1 DEF EventHappens, ChatSaid, ServerRestarts, TypeOK
  <1>11. CASE UNCHANGED vars
    BY <1>2, <1>11 DEF vars, TypeOK
  <1> QED
    BY <1>3, <1>4, <1>5, <1>6, <1>7, <1>8, <1>9, <1>10, <1>11 DEF Next

(* Every state of the scheduler and its ledger is well formed, whatever    *)
(* the sizes of the ledger and the logs and however often it is restarted. *)
THEOREM QueueTypeCorrect == Spec => []TypeOK
  <1>1. Init => TypeOK
    BY InitTypeOK
  <1>2. TypeOK /\ [Next]_vars => TypeOK'
    BY StepSound
  <1> QED
    BY <1>1, <1>2, PTL DEF Spec

(* A chat line or Body event is entered under its dedupe key once, however *)
(* often the process dies before the cursor is written and reads it again. *)
THEOREM EnteredOnceAlways == Spec => []EnteredOnce
  <1>1. Init => EnteredOnce
    BY DEF Init, EmptyLedger, AbsentRow, EnteredOnce
  <1>2. TypeOK /\ EnteredOnce /\ [Next]_vars => EnteredOnce'
    BY StepSound DEF Sound, KeysOnce, EnteredOnce
  <1> QED
    BY <1>1, <1>2, QueueTypeCorrect, PTL DEF Spec

(* A row that a step settled (completed, superseded or failed) is never    *)
(* settled again: not by a late holder of its lease, a control command or  *)
(* the start of another process.                                           *)
THEOREM SettledStays == Spec => SettledIsFinal
  <1>1. TypeOK /\ [Next]_vars =>
           [\A i \in Ids : rows[i].state \in Terminal =>
               rows'[i].state = rows[i].state /\ rows'[i].rev = rows[i].rev]_vars
    BY StepSound DEF Sound, Kept
  <1> QED
    BY <1>1, QueueTypeCorrect, PTL DEF Spec, SettledIsFinal

----------------------------------------------------------------------------
(* What becomes of an intent and of the Body events it carries.  Every     *)
(* transaction of the store but two changes the rows in a direction        *)
(* (Moves): a row's events and orphans stay, an ended row does not come    *)
(* back to life, an unknown outcome does not come into being.  The two are *)
(* the entering of a row and the start of a process.                       *)

Live == {"queued", "leased", "completed"}
Begun == {"leased", "completed"}
Unsettled(r) == r.state = "failed" /\ r.reason = "process_restart_unknown_outcome" /\ r.by = NoId

RowMoves(r, s) ==
    /\ s.kind = r.kind /\ s.orphans = r.orphans /\ s.events = r.events
    /\ r.state = "absent" => s = r
    /\ r.state # "absent" => s.state # "absent"
    /\ r.bound => s.bound
    /\ s.state \in Live => r.state \in Live
    /\ Unsettled(s) => Unsettled(r)
Moves(L, M) == \A i \in Ids : RowMoves(L[i], M[i])

\* No row is taken up.
Idle(L, M) == \A i \in Ids : M[i].state \in Begun => L[i].state \in Begun

(* Struck off only by a reconciliation that was read.                      *)
Strikes(L) ==
    \A i \in Ids :
        /\ L[i].state = "absent" => ~ L[i].bound
        /\ L[i].by # NoId => LET r == L[L[i].by] IN i \in r.orphans /\ (r.bound \/ r.state = "completed")

(* How far a process has come *)
Starting == {"quits", "head", "stale", "interrupt"}
Running == {"ack", "up"}

\* ----- the events --------------------------------------------------------

OneTeller ==
    \A i, j \in Ids : i # j /\ rows[i].state \in Live /\ rows[j].state \in Live
        => rows[i].events \cap rows[j].events = {}

\* The event is in a log there has been.
Happened(k) == k.epoch < world.epoch \/ (k.epoch = world.epoch /\ k.seq <= world.ev)

\* Only these intents carry events, and only events that happened.
Carriers ==
    \A i \in Ids :
        /\ rows[i].events # {} => rows[i].kind \in {"body_event", "recovery_reconcile"}
        /\ rows[i].state = "absent" => rows[i].events = {}
        /\ \A k \in rows[i].events : Happened(k)

\* The events of an intent that was taken up lie before the cursor.
TakenBehindCursor ==
    \A i \in Ids : rows[i].state \in Begun => \A k \in rows[i].events :
        k.epoch < world.epoch \/ (cursor.epoch = world.epoch /\ k.seq <= cursor.ev)

(* Where the process has read to, and how that compares with the cursor.   *)
Reading ==
    /\ cursor.epoch <= world.epoch
    /\ cursor.epoch = world.epoch => cursor.ev <= world.ev /\ cursor.chat <= world.chat
    /\ boot \in {"stale", "interrupt"} \cup Running =>
         /\ mem.epoch = world.epoch /\ cursor.epoch = world.epoch
         /\ cursor.ev <= mem.ev /\ mem.ev <= world.ev /\ mem.chat <= world.chat
    /\ boot \in {"stale", "interrupt"} => mem.ev = cursor.ev
    /\ boot = "up" /\ loop # "polling" => mem.ev = cursor.ev /\ polled = {}
    /\ boot # "up" => loop = "top" /\ polled = {}
    /\ \A n \in polled : n <= mem.ev

(* What a starting process takes over is told by no living intent, and     *)
(* nothing else is left of what was entered and not taken up.              *)
TakenOver ==
    /\ boot \in Starting \cup {"ack"} => Leased(rows) = {}
    /\ boot = "interrupt" => \A i \in Ids : rows[i].state \in Live =>
         /\ rows[i].events \cap carried = {}
         /\ rows[i].events # {} => rows[i].state = "completed"
    /\ \A k \in carried : Happened(k)

\* What lies after the last event that was read is in no living intent.
NotYetTold ==
    boot \in Running => \A i \in Ids : rows[i].state \in Live => \A k \in rows[i].events :
        k.epoch = world.epoch => k.seq <= mem.ev /\ k.seq \notin polled

ToldInv == OneTeller /\ Carriers /\ TakenBehindCursor /\ Reading /\ TakenOver /\ NotYetTold

\* ----- the transactions --------------------------------------------------

LEMMA MovesTwice ==
    ASSUME NEW L, NEW M, NEW N, Moves(L, M), Moves(M, N)
    PROVE  Moves(L, N)
BY DEF Moves, RowMoves

LEMMA MovesNot == \A L : Moves(L, L)
BY DEF Moves, RowMoves

(* A transaction that strikes nothing off keeps the record of the strikes. *)
LEMMA NothingStruck ==
    ASSUME NEW L \in Ledgers, NEW M, Moves(L, M), Kept(L, M), \A i \in Ids : M[i].by = L[i].by, Strikes(L)
    PROVE  Strikes(M)
<1>1. SUFFICES ASSUME NEW i \in Ids
               PROVE  /\ M[i].state = "absent" => ~ M[i].bound
                      /\ M[i].by # NoId => i \in M[M[i].by].orphans
                                           /\ (M[M[i].by].bound \/ M[M[i].by].state = "completed")
  BY DEF Strikes
<1>2. M[i].state = "absent" => ~ M[i].bound BY DEF Moves, RowMoves, Strikes
<1>3. ASSUME M[i].by # NoId
      PROVE  i \in M[M[i].by].orphans /\ (M[M[i].by].bound \/ M[M[i].by].state = "completed")
  <2>1. PICK j \in Ids : j = L[i].by BY <1>3 DEF Ledgers, Rows
  <2>2. i \in L[j].orphans /\ (L[j].bound \/ L[j].state = "completed") BY <1>3, <2>1 DEF Strikes
  <2>3. M[j].orphans = L[j].orphans /\ (L[j].bound => M[j].bound) BY DEF Moves, RowMoves
  <2>4. L[j].state = "completed" => M[j].state = "completed" BY DEF Kept, Terminal
  <2>5. QED BY <2>1, <2>2, <2>3, <2>4
<1>4. QED BY <1>2, <1>3

(* The ways in which a transaction rewrites one row, once more.            *)
LEMMA RowMoved ==
    ASSUME NEW r \in Rows, r.state \in {"queued", "leased"}, NEW why \in Reasons
    PROVE  /\ LET s == [r EXCEPT !.state = "queued", !.rev = @ + 1]
              IN  RowMoves(r, s) /\ s.by = r.by /\ s.state = "queued"
           /\ LET s == [r EXCEPT !.state = "leased", !.rev = @ + 1, !.live = TRUE]
              IN  RowMoves(r, s) /\ s.by = r.by
           /\ LET s == [r EXCEPT !.state = "completed", !.rev = @ + 2]
              IN  RowMoves(r, s) /\ s.by = r.by
           /\ LET s == [r EXCEPT !.state = "superseded", !.rev = @ + 1, !.reason = why]
              IN  RowMoves(r, s) /\ s.by = r.by /\ s.state = "superseded"
<1>1. PICK n \in Nat : n = r.rev + 1 BY DEF Rows
<1>2. PICK m \in Nat : m = r.rev + 2 BY DEF Rows
<1>3. /\ LET s == [r EXCEPT !.state = "queued", !.rev = n]
         IN  RowMoves(r, s) /\ s.by = r.by /\ s.state = "queued"
      /\ LET s == [r EXCEPT !.state = "leased", !.rev = n, !.live = TRUE]
         IN  RowMoves(r, s) /\ s.by = r.by
      /\ LET s == [r EXCEPT !.state = "completed", !.rev = m]
         IN  RowMoves(r, s) /\ s.by = r.by
      /\ LET s == [r EXCEPT !.state = "superseded", !.rev = n, !.reason = why]
         IN  RowMoves(r, s) /\ s.by = r.by /\ s.state = "superseded"
  BY DEF Rows, RowMoves, Unsettled, Live
<1>4. QED BY <1>1, <1>2, <1>3

LEMMA RowFinished ==
    ASSUME NEW r \in Rows, r.state \in {"queued", "leased"}, NEW state \in Terminal,
           NEW why \in Reasons, why # "process_restart_unknown_outcome"
    PROVE  LET s == [r EXCEPT !.state = state, !.rev = @ + 1, !.live = FALSE, !.reason = why]
           IN  RowMoves(r, s) /\ s.by = r.by /\ s.state = state
<1>1. PICK n \in Nat : n = r.rev + 1 BY DEF Rows
<1>2. LET s == [r EXCEPT !.state = state, !.rev = n, !.live = FALSE, !.reason = why]
      IN  RowMoves(r, s) /\ s.by = r.by /\ s.state = state
  BY DEF Rows, RowMoves, Unsettled, Live, Terminal
<1>3. QED BY <1>1, <1>2

LEMMA RequeuedMoves ==
    ASSUME NEW L \in Ledgers, NEW ks
    PROVE  Moves(L, Requeued(L, ks)) /\ Idle(L, Requeued(L, ks)) /\ (Strikes(L) => Strikes(Requeued(L, ks)))
<1> DEFINE M == Requeued(L, ks)
<1>1. ASSUME NEW i \in Ids
      PROVE  RowMoves(L[i], M[i]) /\ M[i].by = L[i].by /\ (M[i].state \in Begun => L[i].state \in Begun)
  <2>1. CASE L[i].state = "leased" /\ ~ L[i].live /\ L[i].kind \in ks
    <3>1. M[i] = [L[i] EXCEPT !.state = "queued", !.rev = @ + 1] BY <2>1 DEF Requeued
    <3>2. L[i] \in Rows BY DEF Ledgers
    <3>3. "none" \in Reasons BY DEF Reasons
    <3>4. L[i].state \in {"queued", "leased"} BY <2>1
    <3>5. LET s == [L[i] EXCEPT !.state = "queued", !.rev = @ + 1]
          IN  RowMoves(L[i], s) /\ s.by = L[i].by /\ s.state = "queued"
      BY <3>2, <3>3, <3>4, RowMoved
    <3>6. RowMoves(L[i], M[i]) /\ M[i].by = L[i].by /\ M[i].state = "queued"
      BY <3>1, <3>5
    <3>7. QED BY <3>6 DEF Begun
  <2>2. CASE ~ (L[i].state = "leased" /\ ~ L[i].live /\ L[i].kind \in ks)
    BY <2>2 DEF Requeued, RowMoves
  <2>3. QED BY <2>1, <2>2
<1>2. Kept(L, M) BY RequeuedSound DEF Sound
<1> HIDE DEF M
<1>3. Moves(L, M) /\ Idle(L, M) BY <1>1 DEF Moves, Idle
<1>4. Strikes(L) => Strikes(M) BY <1>1, <1>2, <1>3, NothingStruck
<1>5. QED BY <1>3, <1>4 DEF M

LEMMA LeaseMoves ==
    ASSUME NEW L \in Ledgers, NEW i \in Ids, L[i].state = "queued"
    PROVE  Moves(L, LeaseInto(L, i)) /\ (Strikes(L) => Strikes(LeaseInto(L, i)))
<1> DEFINE M == LeaseInto(L, i)
<1>1. M[i] = [L[i] EXCEPT !.state = "leased", !.rev = @ + 1, !.live = TRUE] /\ \A j \in Ids \ {i} : M[j] = L[j]
  BY DEF LeaseInto, LeasedRow, Ledgers
<1>2. L[i] \in Rows BY DEF Ledgers
<1>3. "none" \in Reasons BY DEF Reasons
<1>4. RowMoves(L[i], M[i]) /\ M[i].by = L[i].by BY <1>1, <1>2, <1>3, RowMoved, ZenonT(30)
<1>5. Kept(L, M) BY LeaseSound DEF Sound
<1> HIDE DEF M
<1>6. Moves(L, M) /\ \A j \in Ids : M[j].by = L[j].by BY <1>1, <1>4 DEF Moves, RowMoves
<1>7. QED BY <1>5, <1>6, NothingStruck DEF M

LEMMA SupersededMoves ==
    ASSUME NEW L \in Ledgers, NEW ks, NEW reason \in Reasons
    PROVE  /\ Moves(L, Superseded(L, ks, reason)) /\ Idle(L, Superseded(L, ks, reason))
           /\ Strikes(L) => Strikes(Superseded(L, ks, reason))
<1> DEFINE M == Superseded(L, ks, reason)
<1>1. ASSUME NEW i \in Ids
      PROVE  RowMoves(L[i], M[i]) /\ M[i].by = L[i].by /\ (M[i].state \in Begun => L[i].state \in Begun)
  <2>1. CASE i \in QueuedOf(L, ks)
    <3>1. M[i] = [L[i] EXCEPT !.state = "superseded", !.rev = @ + 1, !.reason = reason] BY <2>1 DEF Superseded
    <3>2. PICK r \in Rows : r = L[i] BY DEF Ledgers
    <3>3. r.state = "queued" BY <2>1, <3>2 DEF QueuedOf, Queued
    <3> HIDE DEF M
    <3>4. LET s == [r EXCEPT !.state = "superseded", !.rev = @ + 1, !.reason = reason]
          IN  RowMoves(r, s) /\ s.by = r.by /\ s.state = "superseded"
      BY <3>3, RowMoved
    <3>5. QED BY <3>1, <3>2, <3>4 DEF Begun
  <2>2. CASE i \notin QueuedOf(L, ks) BY <2>2 DEF Superseded, RowMoves
  <2>3. QED BY <2>1, <2>2
<1>2. Kept(L, M) BY SupersededSound DEF Sound
<1> HIDE DEF M
<1>3. Moves(L, M) /\ Idle(L, M) BY <1>1 DEF Moves, Idle
<1>4. Strikes(L) => Strikes(M) BY <1>1, <1>2, <1>3, NothingStruck
<1>5. QED BY <1>3, <1>4 DEF M

(* _retire_reconciled_orphans after the reconciliation was read.           *)
LEMMA RetiredMoves ==
    ASSUME NEW L \in Ledgers, NEW i \in Ids \cup {NoId}
    PROVE  /\ Moves(L, Retired(L, i))
           /\ Strikes(L) /\ (i \in Ids => L[i].bound \/ L[i].state = "completed") => Strikes(Retired(L, i))
<1> DEFINE M == Retired(L, i)
<1>1. ASSUME NEW j \in Ids
      PROVE  /\ RowMoves(L[j], M[j]) /\ M[j].state = L[j].state /\ M[j].bound = L[j].bound
             /\ M[j].by = L[j].by \/ (M[j].by = i /\ j \in L[i].orphans)
  <2>1. CASE M[j] = L[j] BY <2>1 DEF RowMoves
  <2>2. CASE M[j] # L[j]
    <3>1. /\ j \in L[i].orphans /\ L[j].state = "failed" /\ M[j] = [L[j] EXCEPT !.by = i] /\ L[j].by = NoId
          /\ L[j].reason = "process_restart_unknown_outcome"
      BY <2>2 DEF Retired
    <3>2. L[j] \in Rows BY DEF Ledgers
    <3>3. QED BY <3>1, <3>2 DEF Rows, RowMoves, Unsettled, Live
  <2>3. QED BY <2>1, <2>2
<1> HIDE DEF M
<1>2. Moves(L, M) BY <1>1 DEF Moves
<1>3. ASSUME Strikes(L), i \in Ids => L[i].bound \/ L[i].state = "completed" PROVE Strikes(M)
  <2>1. SUFFICES ASSUME NEW j \in Ids
                 PROVE  /\ M[j].state = "absent" => ~ M[j].bound
                        /\ M[j].by # NoId => j \in M[M[j].by].orphans
                                             /\ (M[M[j].by].bound \/ M[M[j].by].state = "completed")
    BY DEF Strikes
  <2>2. M[j].state = "absent" => ~ M[j].bound BY <1>1, <1>3 DEF Strikes
  <2>3. ASSUME M[j].by # NoId
        PROVE  j \in M[M[j].by].orphans /\ (M[M[j].by].bound \/ M[M[j].by].state = "completed")
    <3>0. L[j].by \in Ids \cup {NoId} BY DEF Ledgers, Rows
    <3>1. PICK k \in Ids : k = M[j].by BY <1>1, <2>3, <3>0
    <3>2. j \in L[k].orphans /\ (L[k].bound \/ L[k].state = "completed")
      BY <1>1, <1>3, <2>3, <3>1 DEF Strikes
    <3>3. M[k].orphans = L[k].orphans /\ M[k].bound = L[k].bound /\ M[k].state = L[k].state
      BY <1>1 DEF RowMoves
    <3>4. QED BY <3>1, <3>2, <3>3
  <2>4. QED BY <2>2, <2>3
<1>4. QED BY <1>2, <1>3 DEF M

LEMMA FinishedMoves ==
    ASSUME NEW L \in Ledgers, NEW i \in Ids \cup {NoId}, L[i].state = "leased",
           NEW state \in Terminal, NEW reason \in Reasons, reason # "process_restart_unknown_outcome"
    PROVE  /\ Moves(L, Finished(L, i, state, reason))
           /\ Strikes(L) => Strikes(Finished(L, i, state, reason))
<1> DEFINE M == [L EXCEPT ![i].state = state, ![i].rev = @ + 1, ![i].live = FALSE, ![i].reason = reason]
<1>1. M \in Ledgers /\ Moves(L, M) /\ (Strikes(L) => Strikes(M)) /\ (i \in Ids => M[i].state = state)
  <2>1. CASE i \in Ids
    <3>1. M[i] = [L[i] EXCEPT !.state = state, !.rev = @ + 1, !.live = FALSE, !.reason = reason]
          /\ (\A j \in Ids \ {i} : M[j] = L[j])
          /\ M = [L EXCEPT ![i] = [L[i] EXCEPT !.state = state, !.rev = @ + 1, !.live = FALSE, !.reason = reason]]
      BY <2>1 DEF Ledgers
    <3>2. PICK r \in Rows : r = L[i] BY <2>1 DEF Ledgers
    <3>3. RowMoves(L[i], M[i]) /\ M[i].by = L[i].by /\ M[i].state = state
      <4>1. r.state = "leased" BY <3>2
      <4>2. LET s == [r EXCEPT !.state = state, !.rev = @ + 1, !.live = FALSE, !.reason = reason]
            IN  RowMoves(r, s) /\ s.by = r.by /\ s.state = state
        BY <4>1, RowFinished
      <4> HIDE DEF M
      <4>3. QED BY <3>1, <3>2, <4>2
    <3>6. M \in Ledgers BY <2>1, <3>1, RowRewritten DEF Ledgers, States
    <3> HIDE DEF M
    <3>7. Moves(L, M) /\ \A j \in Ids : M[j].by = L[j].by BY <3>1, <3>3 DEF Moves, RowMoves
    <3>8. Kept(L, M) BY <3>1 DEF Kept, Terminal
    <3>9. QED BY <3>3, <3>6, <3>7, <3>8, NothingStruck
  <2>2. CASE i \notin Ids
    <3>1. M = L BY <2>2 DEF Ledgers
    <3>2. QED BY <2>2, <3>1, MovesNot
  <2>3. QED BY <2>1, <2>2
<1>2. Finished(L, i, state, reason) = IF state = "completed" THEN Retired(M, i) ELSE M BY DEF Finished
<1> HIDE DEF M
<1>3. CASE state = "completed"
  <2>1. Moves(M, Retired(M, i)) /\ (Strikes(M) => Strikes(Retired(M, i))) BY <1>1, <1>3, RetiredMoves
  <2>2. QED BY <1>1, <1>2, <1>3, <2>1, MovesTwice
<1>4. CASE state # "completed" BY <1>1, <1>2, <1>4
<1>5. QED BY <1>3, <1>4

LEMMA BoundMoves ==
    ASSUME NEW L \in Ledgers, NEW i \in Ids \cup {NoId}, L[i].state = "leased"
    PROVE  Moves(L, Bound(L, i)) /\ Idle(L, Bound(L, i)) /\ (Strikes(L) => Strikes(Bound(L, i)))
<1> DEFINE M == [L EXCEPT ![i].bound = TRUE]
<1>1. \A j \in Ids : /\ RowMoves(L[j], M[j]) /\ M[j].by = L[j].by /\ M[j].state = L[j].state /\ M[j].rev = L[j].rev
                     /\ j = i => M[j].bound
  BY DEF Ledgers, Rows, RowMoves, Unsettled
<1>2. M \in Ledgers BY ZenonT(30) DEF Ledgers, Rows
<1>3. Bound(L, i) = Retired(M, i) BY DEF Bound
<1> HIDE DEF M
<1>4. Moves(L, M) /\ Kept(L, M) BY <1>1 DEF Moves, Kept
<1>5. Strikes(L) => Strikes(M) BY <1>1, <1>4, NothingStruck
<1>6. Moves(M, Retired(M, i)) /\ (Strikes(M) => Strikes(Retired(M, i))) BY <1>1, <1>2, RetiredMoves
<1>7. \A j \in Ids : Retired(M, i)[j].state = M[j].state BY <1>2 DEF Retired, Ledgers, Rows
<1>8. Idle(L, Retired(M, i)) BY <1>1, <1>7 DEF Idle
<1>9. QED BY <1>3, <1>4, <1>5, <1>6, <1>8, MovesTwice

(* abandon_leased_work_intents: what is unsettled afterwards was reported. *)
LEMMA AbandonedReported ==
    ASSUME NEW L \in Ledgers
    PROVE  /\ \A i \in Ids : LET r == L[i]
                                 s == Abandoned(L)[i]
                             IN  /\ s.kind = r.kind /\ s.orphans = r.orphans /\ s.events = r.events
                                 /\ s.by = r.by /\ s.bound = r.bound
                                 /\ s.state = (IF r.state = "leased" THEN "failed" ELSE r.state)
                                 /\ Unsettled(s) => r.state = "leased" \/ Unsettled(r)
           /\ Strikes(L) => Strikes(Abandoned(L))
<1> DEFINE M == Abandoned(L)
<1>1. ASSUME NEW i \in Ids
      PROVE  /\ M[i].kind = L[i].kind /\ M[i].orphans = L[i].orphans /\ M[i].events = L[i].events
             /\ M[i].by = L[i].by /\ M[i].bound = L[i].bound
             /\ M[i].state = (IF L[i].state = "leased" THEN "failed" ELSE L[i].state)
             /\ L[i].state # "leased" => M[i] = L[i]
  BY DEF Abandoned, Ledgers, Rows
<1> HIDE DEF M
<1>2. Strikes(L) => Strikes(M)
  <2>1. SUFFICES ASSUME Strikes(L), NEW i \in Ids
                 PROVE  /\ M[i].state = "absent" => ~ M[i].bound
                        /\ M[i].by # NoId => i \in M[M[i].by].orphans
                                             /\ (M[M[i].by].bound \/ M[M[i].by].state = "completed")
    BY DEF Strikes
  <2>2. M[i].state = "absent" => ~ M[i].bound BY <1>1, <2>1 DEF Strikes
  <2>3. ASSUME M[i].by # NoId
        PROVE  i \in M[M[i].by].orphans /\ (M[M[i].by].bound \/ M[M[i].by].state = "completed")
    <3>1. PICK j \in Ids : j = L[i].by BY <1>1, <2>3 DEF Ledgers, Rows
    <3>2. i \in L[j].orphans /\ (L[j].bound \/ L[j].state = "completed") BY <1>1, <2>1, <2>3, <3>1 DEF Strikes
    <3>3. M[i].by = j BY <1>1, <3>1
    <3>4. QED BY <1>1, <3>2, <3>3
  <2>4. QED BY <2>2, <2>3
<1>3. QED BY <1>1, <1>2 DEF M

(* Entering: the ledger stays as it is, or a row that was absent is new.   *)
NewRow(i, kind, events, orphs) ==
    /\ rows[i].state = "absent" /\ \A j \in Ids \ {i} : rows'[j] = rows[j]
    /\ rows'[i].state = "queued" /\ rows'[i].kind = kind /\ rows'[i].events = events
    /\ rows'[i].orphans = orphs /\ rows'[i].by = NoId /\ ~ rows'[i].bound

LEMMA EnterNew ==
    ASSUME rows \in Ledgers, NEW kind, NEW key, NEW events, NEW orphs, Enter(kind, key, events, orphs)
    PROVE  \/ rows' = rows /\ key # NoKey
           \/ \E i \in Ids : NewRow(i, kind, events, orphs)
<1>1. PICK i \in Ids : IsNextId(rows, i) /\ rows' = Enqueued(rows, i, kind, key, events, orphs) BY DEF Enter
<1>2. CASE Known(rows, key) BY <1>1, <1>2 DEF Enqueued, Known
<1>3. CASE ~ Known(rows, key)
  <2> DEFINE r == [AbsentRow EXCEPT !.state = "queued", !.rev = 1, !.kind = kind, !.key = key,
                                    !.events = events, !.orphans = orphs]
  <2>1. r.state = "queued" /\ r.kind = kind /\ r.events = events /\ r.orphans = orphs /\ r.by = NoId /\ ~ r.bound
    BY DEF AbsentRow
  <2>2. rows' = [rows EXCEPT ![i] = r] /\ rows[i].state = "absent" BY <1>1, <1>3 DEF Enqueued, IsNextId
  <2> HIDE DEF r
  <2>3. rows'[i] = r /\ \A j \in Ids \ {i} : rows'[j] = rows[j] BY <2>2 DEF Ledgers
  <2>4. QED BY <2>1, <2>2, <2>3 DEF NewRow
<1>4. QED BY <1>2, <1>3

LEMMA EnterStrikes ==
    ASSUME rows \in Ledgers, NEW i \in Ids, NEW kind, NEW events, NEW orphs, NewRow(i, kind, events, orphs),
           Strikes(rows)
    PROVE  Strikes(rows')
<1>1. SUFFICES ASSUME NEW x \in Ids
               PROVE  /\ rows'[x].state = "absent" => ~ rows'[x].bound
                      /\ rows'[x].by # NoId => x \in rows'[rows'[x].by].orphans
                            /\ (rows'[rows'[x].by].bound \/ rows'[rows'[x].by].state = "completed")
  BY DEF Strikes
<1>2. rows'[x].state = "absent" => ~ rows'[x].bound BY DEF NewRow, Strikes
<1>3. ASSUME rows'[x].by # NoId
      PROVE  x \in rows'[rows'[x].by].orphans
             /\ (rows'[rows'[x].by].bound \/ rows'[rows'[x].by].state = "completed")
  <2>1. rows'[x] = rows[x] BY <1>3 DEF NewRow
  <2>2. PICK j \in Ids : j = rows[x].by BY <1>3, <2>1 DEF Ledgers, Rows
  <2>3. x \in rows[j].orphans /\ (rows[j].bound \/ rows[j].state = "completed") BY <1>3, <2>1, <2>2 DEF Strikes
  <2>4. j # i BY <2>3 DEF NewRow, Strikes
  <2>5. QED BY <2>1, <2>2, <2>3, <2>4 DEF NewRow
<1>4. QED BY <1>2, <1>3

\* ----- the steps ---------------------------------------------------------

Entering == EnqueueReconciliation \/ EnterEvent \/ FactArrives \/ SubmitEnqueue \/ StdinEnqueue
MovesOn(L, M) == Moves(L, M) /\ (Strikes(L) => Strikes(M))
TakesUp == boot = "up" /\ loop # "polling"

LEMMA LeaseNextMoves ==
    ASSUME rows \in Ledgers, NEW ks, NEW ls, NEW i \in Ids, IsHead(Requeued(rows, ks), ls, i)
    PROVE  MovesOn(rows, LeaseInto(Requeued(rows, ks), i))
<1> DEFINE L == Requeued(rows, ks)
<1>1. L \in Ledgers /\ Moves(rows, L) /\ (Strikes(rows) => Strikes(L)) BY RequeuedSound, RequeuedMoves DEF Sound
<1>2. L[i].state = "queued" BY DEF IsHead, QueuedOf, Queued
<1> HIDE DEF L
<1>3. Moves(L, LeaseInto(L, i)) /\ (Strikes(L) => Strikes(LeaseInto(L, i))) BY <1>1, <1>2, LeaseMoves
<1>4. QED BY <1>1, <1>3, MovesTwice DEF MovesOn, L

LEMMA LoopStepMoves ==
    ASSUME TypeOK, LoopStep, ~ FactArrives
    PROVE  MovesOn(rows, rows') /\ (Idle(rows, rows') \/ TakesUp)
<1> USE DEF durable
<1>1. rows \in Ledgers BY DEF TypeOK, Ledgers
<1>2. held.id \in Ids \cup {NoId} /\ steered.id \in Ids \cup {NoId} BY DEF TypeOK, Tokens
<1>3. {"completed", "failed", "superseded"} \subseteq Terminal /\ {"none", "step_failed", "preempted"} \subseteq Reasons
  BY DEF Terminal, Reasons
<1>4. rows' = rows => MovesOn(rows, rows') /\ Idle(rows, rows') BY MovesNot DEF MovesOn, Idle
<1>5. CASE TakeNext
  <2>1. MovesOn(rows, rows')
    <3>1. CASE rows' = Requeued(rows, Kinds) BY <1>1, <3>1, RequeuedMoves DEF MovesOn
    <3>2. CASE \E i \in Ids : IsHead(Requeued(rows, Kinds), Kinds, i) /\ rows' = LeaseInto(Requeued(rows, Kinds), i)
      BY <1>1, <3>2, LeaseNextMoves
    <3>3. QED BY <1>5, <3>1, <3>2 DEF TakeNext
  <2>2. QED BY <1>5, <2>1 DEF TakeNext, LoopReady, TakesUp
<1>6. CASE Admitted \/ Overlook \/ BeginSteering \/ StepCancelled
  BY <1>4, <1>6 DEF Admitted, Overlook, BeginSteering, StepCancelled
<1>7. CASE DeliverFacts
  <2> DEFINE L == Requeued(rows, {"reflex_fact"})
             F == QueuedOf(L, {"reflex_fact"})
  <2>1. L \in Ledgers /\ Moves(rows, L) /\ (Strikes(rows) => Strikes(L))
    BY <1>1, RequeuedSound, RequeuedMoves DEF Sound
  <2>2. F \subseteq Ids /\ \A i \in F : L[i].state = "queued" BY DEF QueuedOf, Queued
  <2>3. rows' = [i \in Ids |-> IF i \in F THEN [L[i] EXCEPT !.state = "completed", !.rev = @ + 2] ELSE L[i]]
    BY <1>7 DEF DeliverFacts
  <2> HIDE DEF L, F
  <2>4. ASSUME NEW i \in Ids PROVE RowMoves(L[i], rows'[i]) /\ rows'[i].by = L[i].by
    <3>1. CASE i \in F
      <4>1. PICK r \in Rows : r = L[i] BY <2>1 DEF Ledgers
      <4>2. r.state = "queued" BY <2>2, <3>1, <4>1
      <4>3. LET q == [r EXCEPT !.state = "completed", !.rev = @ + 2] IN RowMoves(r, q) /\ q.by = r.by
        BY <1>3, <4>2, RowMoved
      <4>4. QED BY <2>3, <3>1, <4>1, <4>3
    <3>2. CASE i \notin F BY <2>3, <3>2 DEF RowMoves
    <3>3. QED BY <3>1, <3>2
  <2>5. Moves(L, rows') BY <2>4 DEF Moves
  <2>6. Kept(L, rows') BY <2>2, <2>3 DEF Kept, Terminal
  <2>7. Strikes(L) => Strikes(rows') BY <2>1, <2>4, <2>5, <2>6, NothingStruck
  <2>8. MovesOn(rows, rows') BY <2>1, <2>5, <2>7, MovesTwice DEF MovesOn
  <2>9. QED BY <1>7, <2>8 DEF DeliverFacts, InStep, LoopReady, TakesUp
<1>8. CASE BindAdmission
  BY <1>1, <1>2, <1>8, BoundMoves DEF BindAdmission, MovesOn, Holds, HoldsLive
<1>9. ASSUME NEW id \in Ids \cup {NoId}, rows[id].state = "leased", NEW state \in {"completed", "failed", "superseded"},
             NEW reason \in {"none", "step_failed", "preempted"}, rows' = Finished(rows, id, state, reason)
      PROVE  MovesOn(rows, rows')
  <2>1. state \in Terminal /\ reason \in Reasons /\ reason # "process_restart_unknown_outcome" BY <1>3
  <2>2. QED BY <1>1, <1>9, <2>1, FinishedMoves DEF MovesOn
<1>10. CASE BindRaises
  BY <1>2, <1>4, <1>9, <1>10 DEF BindRaises, Holds, InStep, LoopReady, TakesUp
<1>11. CASE SteerNext
  <2>1. MovesOn(rows, rows')
    <3>1. CASE rows' = Requeued(rows, {"message"}) BY <1>1, <3>1, RequeuedMoves DEF MovesOn
    <3>2. CASE \E i \in Ids : /\ IsHead(Requeued(rows, {"message"}), {"message"}, i)
                              /\ rows' = LeaseInto(Requeued(rows, {"message"}), i)
      BY <1>1, <3>2, LeaseNextMoves
    <3>3. QED BY <1>11, <3>1, <3>2 DEF SteerNext
  <2>2. QED BY <1>11, <2>1 DEF SteerNext, LoopReady, TakesUp
<1>12. CASE SteerDone BY <1>2, <1>9, <1>12 DEF SteerDone, Holds, LoopReady, TakesUp
<1>13. CASE CompleteStep \/ PreemptStep
  BY <1>2, <1>4, <1>9, <1>13 DEF CompleteStep, PreemptStep, Settle, Holds, InStep, LoopReady, TakesUp
<1>14. CASE EndProcess BY <1>2, <1>9, <1>14 DEF EndProcess, Holds, InStep, LoopReady, TakesUp
<1>15. QED BY <1>5, <1>6, <1>7, <1>8, <1>10, <1>11, <1>12, <1>13, <1>14 DEF LoopStep

LEMMA OtherStepMoves ==
    ASSUME TypeOK, [Next]_vars, ~ OpenQueue, ~ Entering, ~ LoopStep
    PROVE  MovesOn(rows, rows') /\ Idle(rows, rows')
<1> USE DEF durable
<1>1. rows \in Ledgers BY DEF TypeOK, Ledgers
<1>2. rows' = rows => MovesOn(rows, rows') /\ Idle(rows, rows') BY MovesNot DEF MovesOn, Idle
<1>3. ASSUME NEW ks, NEW reason \in Reasons, rows' = Superseded(rows, ks, reason)
      PROVE  MovesOn(rows, rows') /\ Idle(rows, rows')
  BY <1>1, <1>3, SupersededMoves DEF MovesOn
<1>4. CASE Dies \/ DiesStarting BY <1>2, <1>4 DEF Dies, DiesStarting, GiveUp
<1>5. CASE StartUp
  <2>1. CASE DropStaleQuits BY <1>3, <2>1 DEF DropStaleQuits, Reasons
  <2>2. CASE SupersedeStale BY <1>3, <2>2 DEF SupersedeStale, Reasons
  <2>3. CASE PlaceCursor \/ RefuseConflict \/ StartupFails \/ AckStartup
    BY <1>2, <2>3 DEF PlaceCursor, RefuseConflict, StartupFails, AckStartup, GiveUp
  <2>4. QED BY <1>5, <2>1, <2>2, <2>3 DEF StartUp, Entering
<1>6. CASE PumpStep BY <1>2, <1>6 DEF PumpStep, Entering, PollBody, AckBody
<1>7. CASE ChatStep \/ StdinStep
  <2>1. CASE SubmitSupersede \/ StdinSupersede BY <1>3, <2>1 DEF SubmitSupersede, StdinSupersede, Reasons
  <2>2. CASE PollChat \/ SubmitKnown \/ AckChat BY <1>2, <2>2 DEF PollChat, SubmitKnown, AckChat
  <2>3. QED BY <1>7, <2>1, <2>2 DEF ChatStep, StdinStep, Entering
<1>8. CASE \E t \in Threads : FlagStep(t) BY <1>2, <1>8 DEF FlagStep, CountQueued, WriteFlag
<1>9. CASE \E i \in Ids : LeaseExpires(i)
  <2>1. PICK i \in Ids : rows' = [rows EXCEPT ![i].live = FALSE] /\ rows[i].state = "leased" BY <1>9 DEF LeaseExpires
  <2>2. \A j \in Ids : /\ RowMoves(rows[j], rows'[j]) /\ rows'[j].by = rows[j].by
                       /\ rows'[j].state = rows[j].state /\ rows'[j].rev = rows[j].rev
    <3>1. SUFFICES ASSUME NEW j \in Ids
                   PROVE  /\ RowMoves(rows[j], rows'[j]) /\ rows'[j].by = rows[j].by
                          /\ rows'[j].state = rows[j].state /\ rows'[j].rev = rows[j].rev
      OBVIOUS
    <3>2. CASE j # i BY <1>1, <2>1, <3>2 DEF Ledgers, RowMoves
    <3>3. CASE j = i
      <4>1. rows'[i] = [rows[i] EXCEPT !.live = FALSE] /\ rows[i] \in Rows BY <1>1, <2>1 DEF Ledgers
      <4>2. QED BY <2>1, <3>3, <4>1 DEF Rows, RowMoves, Unsettled
    <3>4. QED BY <3>2, <3>3
  <2>3. Moves(rows, rows') /\ Kept(rows, rows') /\ Idle(rows, rows') BY <2>2 DEF Moves, Kept, Idle
  <2>4. QED BY <1>1, <2>2, <2>3, NothingStruck DEF MovesOn
<1>10. CASE EventHappens \/ ChatSaid \/ ServerRestarts BY <1>2, <1>10 DEF EventHappens, ChatSaid, ServerRestarts
<1>11. CASE UNCHANGED vars BY <1>2, <1>11 DEF vars
<1>12. QED BY <1>4, <1>5, <1>6, <1>7, <1>8, <1>9, <1>10, <1>11 DEF Next

\* ----- unknown outcomes --------------------------------------------------

LEMMA StepStrikes ==
    ASSUME TypeOK, [Next]_vars, Strikes(rows)
    PROVE  Strikes(rows')
<1>1. rows \in Ledgers BY DEF TypeOK, Ledgers
<1>2. CASE OpenQueue BY <1>1, <1>2, AbandonedReported DEF OpenQueue
<1>3. CASE Entering
  <2>1. \E kind, key, events, orphs : Enter(kind, key, events, orphs)
    BY <1>3 DEF Entering, EnqueueReconciliation, EnterEvent, FactArrives, SubmitEnqueue, StdinEnqueue
  <2>2. PICK kind, key, events, orphs : Enter(kind, key, events, orphs) BY <2>1
  <2>3. rows' = rows \/ \E i \in Ids : NewRow(i, kind, events, orphs) BY <1>1, <2>2, EnterNew
  <2>4. QED BY <1>1, <2>3, EnterStrikes
<1>4. CASE LoopStep /\ ~ FactArrives BY <1>4, LoopStepMoves DEF MovesOn
<1>5. QED BY <1>2, <1>3, <1>4, OtherStepMoves DEF MovesOn, Entering

(* _retire_reconciled_orphans runs in the transaction that binds or        *)
(* completes a reconciliation, so that an unknown outcome is struck off    *)
(* only once a turn has been told of it, whatever dies in between.         *)
THEOREM RetiredAlways == Spec => []RetiredByReconciliation
<1>1. Init => Strikes(rows) BY DEF Init, Strikes, EmptyLedger, AbsentRow
<1>2. TypeOK /\ Strikes(rows) /\ [Next]_vars => Strikes(rows)' BY StepStrikes DEF Strikes
<1>3. Strikes(rows) => RetiredByReconciliation BY DEF Strikes, RetiredByReconciliation
<1>4. QED BY <1>1, <1>2, <1>3, QueueTypeCorrect, PTL DEF Spec

(* Whether there is an event log is a fact of the scope. *)
LEMMA LogStays ==
    ASSUME [Next]_vars
    PROVE  eventLog' = eventLog
<1>1. CASE Dies \/ DiesStarting BY <1>1 DEF Dies, DiesStarting, GiveUp
<1>2. CASE StartUp
  BY <1>2 DEF StartUp, OpenQueue, DropStaleQuits, PlaceCursor, RefuseConflict, SupersedeStale, StartupFails,
              EnqueueReconciliation, AckStartup, GiveUp
<1>3. CASE LoopStep
  BY <1>3 DEF LoopStep, TakeNext, Admitted, DeliverFacts, BindAdmission, BindRaises, Overlook, BeginSteering,
     SteerNext, SteerDone, CompleteStep, PreemptStep, Settle, EndProcess, StepCancelled, FactArrives
<1>4. CASE PumpStep \/ ChatStep \/ StdinStep
  BY <1>4 DEF PumpStep, PollBody, EnterEvent, AckBody, ChatStep, PollChat, SubmitKnown, SubmitSupersede,
              SubmitEnqueue, AckChat, StdinStep, StdinSupersede, StdinEnqueue
<1>5. CASE (\E t \in Threads : FlagStep(t)) \/ (\E i \in Ids : LeaseExpires(i)) \/ UNCHANGED vars
  BY <1>5 DEF FlagStep, CountQueued, WriteFlag, LeaseExpires, vars
<1>6. CASE EventHappens \/ ChatSaid \/ ServerRestarts BY <1>6 DEF EventHappens, ChatSaid, ServerRestarts
<1>7. QED BY <1>1, <1>2, <1>3, <1>4, <1>5, <1>6 DEF Next

(* How far a process has come, and what it knows, changes only as it       *)
(* starts.                                                                 *)
LEMMA BootGoesOn ==
    ASSUME TypeOK, [Next]_vars, ~ OpenQueue, ~ EnqueueReconciliation
    PROVE  /\ boot' # "down" => boot # "down" /\ orphans' = orphans
           /\ eventLog /\ boot' \in Running => boot \in Running
<1> USE DEF durable, process, wake, session, reader, counts
<1>1. CASE Dies \/ DiesStarting BY <1>1 DEF Dies, DiesStarting, GiveUp, Vanish, Running
<1>2. CASE StartUp
  BY <1>2 DEF StartUp, DropStaleQuits, PlaceCursor, RefuseConflict, SupersedeStale, StartupFails, AckStartup,
              GiveUp, Vanish, Running
<1>3. CASE LoopStep
  <2>1. CASE EndProcess BY <2>1 DEF EndProcess, Vanish, Running
  <2>2. CASE ~ EndProcess
    <3>1. UNCHANGED <<boot, orphans>>
      BY <1>3, <2>2 DEF LoopStep, TakeNext, Admitted, DeliverFacts, BindAdmission, BindRaises, Overlook,
         BeginSteering, SteerNext, SteerDone, CompleteStep, PreemptStep, Settle, StepCancelled, FactArrives
    <3>2. QED BY <3>1
  <2>3. QED BY <2>1, <2>2
<1>4. CASE PumpStep \/ ChatStep \/ StdinStep
  <2>1. boot # "down"
    BY <1>4 DEF PumpStep, PollBody, EnterEvent, AckBody, ChatStep, PollChat, SubmitKnown, SubmitSupersede,
                SubmitEnqueue, AckChat, StdinStep, StdinSupersede, StdinEnqueue, Submitting, ChatReady, LoopReady
  <2>2. UNCHANGED <<boot, orphans>>
    BY <1>4 DEF PumpStep, PollBody, EnterEvent, AckBody, ChatStep, PollChat, SubmitKnown, SubmitSupersede,
                SubmitEnqueue, AckChat, StdinStep, StdinSupersede, StdinEnqueue
  <2>3. QED BY <2>1, <2>2
<1>5. CASE \E t \in Threads : FlagStep(t) BY <1>5 DEF FlagStep, CountQueued, WriteFlag
<1>6. CASE \E i \in Ids : LeaseExpires(i) BY <1>6 DEF LeaseExpires
<1>7. CASE EventHappens \/ ChatSaid \/ ServerRestarts BY <1>7 DEF EventHappens, ChatSaid, ServerRestarts
<1>8. CASE UNCHANGED vars BY <1>8 DEF vars
<1>9. QED BY <1>1, <1>2, <1>3, <1>4, <1>5, <1>6, <1>7, <1>8 DEF Next

(* Nothing becomes unsettled but by the start of a process.                *)
LEMMA NothingNewOutstanding ==
    ASSUME TypeOK, [Next]_vars, ~ OpenQueue
    PROVE  /\ Outstanding(rows') \subseteq Outstanding(rows)
           /\ \A j \in Ids : rows[j].state # "absent" =>
                rows'[j].state # "absent" /\ rows'[j].kind = rows[j].kind /\ rows'[j].orphans = rows[j].orphans
<1>1. rows \in Ledgers BY DEF TypeOK, Ledgers
<1>2. CASE Moves(rows, rows') BY <1>2 DEF Moves, RowMoves, Unsettled, Outstanding
<1>3. CASE Entering
  <2>1. \E kind, key, events, orphs : Enter(kind, key, events, orphs)
    BY <1>3 DEF Entering, EnqueueReconciliation, EnterEvent, FactArrives, SubmitEnqueue, StdinEnqueue
  <2>2. PICK kind, key, events, orphs : Enter(kind, key, events, orphs) BY <2>1
  <2>3. rows' = rows \/ \E i \in Ids : NewRow(i, kind, events, orphs) BY <1>1, <2>2, EnterNew
  <2>4. CASE rows' = rows BY <2>4
  <2>5. CASE \E i \in Ids : NewRow(i, kind, events, orphs)
    <3>1. PICK i \in Ids : NewRow(i, kind, events, orphs) BY <2>5
    <3>2. QED BY <3>1 DEF NewRow, Outstanding
  <2>6. QED BY <2>3, <2>4, <2>5
<1>4. CASE LoopStep /\ ~ FactArrives BY <1>2, <1>4, LoopStepMoves DEF MovesOn
<1>5. QED BY <1>2, <1>3, <1>4, OtherStepMoves DEF MovesOn, Entering

LEMMA StepRemembers ==
    ASSUME TypeOK, [Next]_vars, OrphansReported
    PROVE  OrphansReported'
<1>1. rows \in Ledgers BY DEF TypeOK, Ledgers
<1>2. CASE OpenQueue
  <2>1. rows' = Abandoned(rows) /\ orphans' = Reported(rows) /\ boot' = "quits" BY <1>2 DEF OpenQueue
  <2>2. \A i \in Ids : Unsettled(rows'[i]) => rows[i].state = "leased" \/ Unsettled(rows[i])
    BY <1>1, <2>1, AbandonedReported
  <2>3. Outstanding(rows') \subseteq orphans' BY <2>1, <2>2 DEF Outstanding, Reported, Leased, Unsettled
  <2>4. QED BY <2>1, <2>3 DEF OrphansReported, OrphansKept, OrphansNamed
<1>3. ~ OpenQueue => OrphansKept'
  <2>1. SUFFICES ASSUME ~ OpenQueue, boot' # "down" PROVE Outstanding(rows') \subseteq orphans' BY DEF OrphansKept
  <2>2. boot # "down" /\ orphans' = orphans
    <3>1. CASE EnqueueReconciliation BY <3>1 DEF EnqueueReconciliation
    <3>2. CASE ~ EnqueueReconciliation BY <2>1, <3>2, BootGoesOn
    <3>3. QED BY <3>1, <3>2
  <2>3. QED BY <2>1, <2>2, NothingNewOutstanding DEF OrphansReported, OrphansKept
<1>4. CASE EnqueueReconciliation
  <2>1. Enter("recovery_reconcile", NoKey, carried \cup FreshEvents, orphans) /\ boot = "interrupt" /\ boot' = "ack"
        /\ orphans' = orphans
    BY <1>4 DEF EnqueueReconciliation
  <2>2. PICK i \in Ids : NewRow(i, "recovery_reconcile", carried \cup FreshEvents, orphans)
    BY <1>1, <2>1, EnterNew
  <2>3. ~ OpenQueue BY <2>1 DEF OpenQueue
  <2>4. Outstanding(rows') \subseteq orphans BY <1>3, <2>1, <2>3 DEF OrphansKept
  <2>5. OrphansNamed' BY <2>2, <2>4 DEF OrphansNamed, NewRow
  <2>6. QED BY <1>3, <2>3, <2>5 DEF OrphansReported
<1>5. CASE ~ OpenQueue /\ ~ EnqueueReconciliation
  <2>1. eventLog /\ boot' \in Running => boot \in Running BY <1>5, BootGoesOn
  <2>2. /\ Outstanding(rows') \subseteq Outstanding(rows)
        /\ \A j \in Ids : rows[j].state # "absent" =>
             rows'[j].state # "absent" /\ rows'[j].kind = rows[j].kind /\ rows'[j].orphans = rows[j].orphans
    BY <1>5, NothingNewOutstanding
  <2>3. ASSUME eventLog, boot' \in Running
        PROVE  \E j \in Ids : /\ rows'[j].kind = "recovery_reconcile" /\ rows'[j].state # "absent"
                              /\ Outstanding(rows') \subseteq rows'[j].orphans
    <3>1. PICK j \in Ids : /\ rows[j].kind = "recovery_reconcile" /\ rows[j].state # "absent"
                           /\ Outstanding(rows) \subseteq rows[j].orphans
      BY <2>1, <2>3 DEF OrphansReported, OrphansNamed, Running
    <3>2. QED BY <2>2, <3>1
  <2>4. OrphansNamed' BY <2>3, LogStays DEF OrphansNamed, Running
  <2>5. QED BY <1>3, <1>5, <2>4 DEF OrphansReported
<1>6. QED BY <1>2, <1>4, <1>5

(* Every process is handed the unknown outcomes of all its predecessors,   *)
(* and over a Body with an event log each of them is named by a            *)
(* reconciliation of every process that comes up until one was read,       *)
(* however many processes die while they start.                            *)
THEOREM OrphansReportedAlways == Spec => []OrphansReported
<1>1. Init => OrphansReported BY DEF Init, OrphansReported, OrphansKept, OrphansNamed
<1>2. TypeOK /\ OrphansReported /\ [Next]_vars => OrphansReported' BY StepRemembers
<1>3. QED BY <1>1, <1>2, QueueTypeCorrect, PTL DEF Spec

\* ----- Body events -------------------------------------------------------

(* The places of the logs and of the cursor are numbers.                   *)
LEMMA Places ==
    ASSUME TypeOK
    PROVE  /\ cursor.epoch \in Nat /\ cursor.ev \in Nat /\ cursor.chat \in Nat
           /\ world.epoch \in Nat /\ world.ev \in Nat /\ world.chat \in Nat
           /\ mem.epoch \in Nat /\ mem.ev \in Nat /\ mem.chat \in Nat
           /\ \A i \in Ids : \A k \in rows[i].events : k.epoch \in Nat /\ k.seq \in Nat
           /\ \A k \in carried : k.epoch \in Nat /\ k.seq \in Nat
           /\ polled \subseteq Nat /\ rows \in Ledgers
<1>1. \A i \in Ids : rows[i].events \subseteq Keys BY DEF TypeOK, Rows
<1>2. \A k \in Keys : k.epoch \in Nat /\ k.seq \in Nat BY DEF Keys
<1>3. carried \subseteq Keys /\ polled \subseteq Nat /\ rows \in Ledgers BY DEF TypeOK, Ledgers
<1>4. QED BY <1>1, <1>2, <1>3 DEF TypeOK, Position

(* Rows that only move keep their events with one teller.                  *)
LEMMA MovesToldOnce ==
    ASSUME ToldInv, Moves(rows, rows'), UNCHANGED world
    PROVE  OneTeller' /\ Carriers'
<1>1. OneTeller' BY DEF ToldInv, OneTeller, Moves, RowMoves
<1>2. Carriers'
  <2>1. SUFFICES ASSUME NEW i \in Ids
                 PROVE  /\ rows'[i].events # {} => rows'[i].kind \in {"body_event", "recovery_reconcile"}
                        /\ rows'[i].state = "absent" => rows'[i].events = {}
                        /\ \A k \in rows'[i].events : Happened(k)'
    BY DEF Carriers
  <2>2. rows'[i].events = rows[i].events /\ rows'[i].kind = rows[i].kind
        /\ (rows'[i].state = "absent" => rows[i].state = "absent")
    BY DEF Moves, RowMoves
  <2>3. \A k : Happened(k) => Happened(k)' BY DEF Happened
  <2>4. QED BY <2>2, <2>3 DEF ToldInv, Carriers
<1>3. QED BY <1>1, <1>2

(* What is taken up is taken up when all that was entered is behind the    *)
(* cursor.                                                                 *)
LEMMA MovesBehind ==
    ASSUME TypeOK, ToldInv, Moves(rows, rows'), Idle(rows, rows') \/ TakesUp, UNCHANGED <<cursor, world>>
    PROVE  TakenBehindCursor'
<1>1. \A i \in Ids : rows'[i].events = rows[i].events /\ (rows'[i].state \in Live => rows[i].state \in Live)
  BY DEF Moves, RowMoves
<1>2. SUFFICES ASSUME NEW i \in Ids, rows'[i].state \in Begun, NEW k \in rows[i].events
               PROVE  k.epoch < world.epoch \/ (cursor.epoch = world.epoch /\ k.seq <= cursor.ev)
  BY <1>1 DEF TakenBehindCursor
<1>3. CASE rows[i].state \in Begun BY <1>3 DEF ToldInv, TakenBehindCursor
<1>4. CASE TakesUp
  <2>1. rows[i].state \in Live BY <1>1, <1>2 DEF Begun, Live
  <2>2. boot \in Running /\ mem.ev = cursor.ev /\ cursor.epoch = world.epoch
    BY <1>4 DEF TakesUp, ToldInv, Reading, Running
  <2>3. k.epoch = world.epoch => k.seq <= mem.ev BY <2>1, <2>2 DEF ToldInv, NotYetTold
  <2>4. k.epoch < world.epoch \/ k.epoch = world.epoch BY DEF ToldInv, Carriers, Happened
  <2>5. QED BY <2>2, <2>3, <2>4
<1>5. QED BY <1>2, <1>3, <1>4 DEF Idle

(* A step within a process that reads no log and writes no cursor.         *)
LEMMA InsideTold ==
    ASSUME TypeOK, ToldInv, Moves(rows, rows'), Idle(rows, rows') \/ TakesUp,
           UNCHANGED <<cursor, world, mem, boot, carried, polled>>,
           loop' = "polling" <=> loop = "polling", boot # "up" => loop' = loop,
           boot \in {"interrupt"} => rows' = rows, boot # "up" => Leased(rows') \subseteq Leased(rows)
    PROVE  ToldInv'
<1>1. OneTeller' /\ Carriers' BY MovesToldOnce
<1>2. \A i \in Ids : rows'[i].events = rows[i].events /\ (rows'[i].state \in Live => rows[i].state \in Live)
  BY DEF Moves, RowMoves
<1>3. TakenBehindCursor' BY MovesBehind
<1>4. Reading' BY DEF ToldInv, Reading
<1>5. TakenOver'
  <2>1. boot \in Starting \cup {"ack"} => Leased(rows') = {} BY DEF ToldInv, TakenOver, Starting
  <2>2. \A k : Happened(k) => Happened(k)' BY DEF Happened
  <2>3. QED BY <2>1, <2>2 DEF ToldInv, TakenOver
<1>6. NotYetTold' BY <1>2 DEF ToldInv, NotYetTold
<1>7. QED BY <1>1, <1>3, <1>4, <1>5, <1>6 DEF ToldInv

(* The process is gone: the ledger and the cursor stay.                    *)
LEMMA VanishTold ==
    ASSUME TypeOK, ToldInv, Moves(rows, rows'), Idle(rows, rows') \/ TakesUp, Vanish, UNCHANGED <<cursor, world>>
    PROVE  ToldInv'
<1>1. OneTeller' /\ Carriers' BY MovesToldOnce
<1>3. TakenBehindCursor' BY MovesBehind
<1>4. boot' = "down" /\ loop' = "top" /\ polled' = {} /\ carried' = {} BY DEF Vanish
<1>5. Reading' BY <1>4 DEF ToldInv, Reading, Running
<1>6. TakenOver' /\ NotYetTold' BY <1>4 DEF TakenOver, NotYetTold, Starting, Running
<1>7. QED BY <1>1, <1>3, <1>5, <1>6 DEF ToldInv

(* A row that is new carries nothing that a living row carries.            *)
LEMMA NewToldOnce ==
    ASSUME TypeOK, ToldInv, NEW i \in Ids, NEW kind, NEW events, NEW orphs, NewRow(i, kind, events, orphs),
           UNCHANGED <<world, cursor>>,
           \A j \in Ids : rows[j].state \in Live => rows[j].events \cap events = {},
           events # {} => kind \in {"body_event", "recovery_reconcile"}, \A k \in events : Happened(k)
    PROVE  OneTeller' /\ Carriers' /\ TakenBehindCursor'
<1>1. OneTeller' BY DEF ToldInv, OneTeller, NewRow
<1>2. \A k : Happened(k) => Happened(k)' BY DEF Happened
<1>3. Carriers'
  <2>1. SUFFICES ASSUME NEW j \in Ids
                 PROVE  /\ rows'[j].events # {} => rows'[j].kind \in {"body_event", "recovery_reconcile"}
                        /\ rows'[j].state = "absent" => rows'[j].events = {}
                        /\ \A k \in rows'[j].events : Happened(k)
    BY <1>2 DEF Carriers
  <2>2. CASE j = i BY <2>2 DEF NewRow
  <2>3. CASE j # i BY <2>3 DEF NewRow, ToldInv, Carriers
  <2>4. QED BY <2>2, <2>3
<1>4. TakenBehindCursor' BY DEF ToldInv, TakenBehindCursor, NewRow, Begun
<1>5. QED BY <1>1, <1>3, <1>4

(* A row without events is entered by a running process.                   *)
LEMMA PlainEntryTold ==
    ASSUME TypeOK, ToldInv, boot = "up", NEW kind, NEW key, Enter(kind, key, {}, {}),
           UNCHANGED <<cursor, world, mem, boot, carried, polled, loop>>
    PROVE  ToldInv'
<1>1. CASE rows' = rows
  <2>1. Moves(rows, rows') /\ Idle(rows, rows') BY <1>1, MovesNot DEF Idle
  <2>2. QED BY <1>1, <2>1, InsideTold
<1>2. CASE \E i \in Ids : NewRow(i, kind, {}, {})
  <2>1. PICK i \in Ids : NewRow(i, kind, {}, {}) BY <1>2
  <2>2. OneTeller' /\ Carriers' /\ TakenBehindCursor'
    <3>1. \A j \in Ids : rows[j].state \in Live => rows[j].events \cap {} = {} OBVIOUS
    <3>2. QED BY <2>1, <3>1, NewToldOnce
  <2>3. Reading' BY DEF ToldInv, Reading
  <2>4. TakenOver'
    <3>1. \A k : Happened(k) => Happened(k)' BY DEF Happened
    <3>2. QED BY <3>1 DEF ToldInv, TakenOver, Starting
  <2>5. NotYetTold' BY <2>1 DEF ToldInv, NotYetTold, NewRow
  <2>6. QED BY <2>2, <2>3, <2>4, <2>5 DEF ToldInv
<1>3. QED BY <1>1, <1>2, EnterNew, Places

LEMMA OpenQueueTold ==
    ASSUME TypeOK, ToldInv, OpenQueue
    PROVE  ToldInv'
<1> USE DEF session
<1>1. /\ rows' = Abandoned(rows) /\ boot = "down" /\ boot' = "quits"
      /\ UNCHANGED <<cursor, world, mem, carried, loop, polled>>
  BY DEF OpenQueue
<1>2. \A i \in Ids : /\ rows'[i].kind = rows[i].kind /\ rows'[i].events = rows[i].events
                     /\ rows'[i].state = (IF rows[i].state = "leased" THEN "failed" ELSE rows[i].state)
  BY <1>1, AbandonedReported, Places
<1>3. \A i \in Ids : /\ rows'[i].state # "leased" /\ (rows'[i].state \in Live => rows[i].state \in Live)
                     /\ (rows'[i].state \in Begun => rows[i].state \in Begun)
                     /\ (rows'[i].state = "absent" => rows[i].state = "absent")
  BY <1>2 DEF Live, Begun
<1>4. \A k : Happened(k) => Happened(k)' BY <1>1 DEF Happened
<1>5. OneTeller' /\ Carriers' BY <1>2, <1>3, <1>4 DEF ToldInv, OneTeller, Carriers
<1>6. TakenBehindCursor' BY <1>1, <1>2, <1>3 DEF ToldInv, TakenBehindCursor
<1>7. Reading' BY <1>1 DEF ToldInv, Reading, Running
<1>8. TakenOver' BY <1>1, <1>3, <1>4 DEF ToldInv, TakenOver, Leased
<1>9. NotYetTold' BY <1>1 DEF NotYetTold, Running
<1>10. QED BY <1>5, <1>6, <1>7, <1>8, <1>9 DEF ToldInv

LEMMA DropStaleQuitsTold ==
    ASSUME TypeOK, ToldInv, DropStaleQuits, eventLog
    PROVE  ToldInv'
<1> USE DEF session
<1>1. /\ rows' = Superseded(rows, {"quit"}, "earlier_process_quit") /\ boot = "quits" /\ boot' = "head"
      /\ UNCHANGED <<cursor, world, mem, carried, loop, polled>>
  BY DEF DropStaleQuits
<1>2. "earlier_process_quit" \in Reasons BY DEF Reasons
<1>3. Moves(rows, rows') /\ Idle(rows, rows') BY <1>1, <1>2, SupersededMoves, Places
<1>4. OneTeller' /\ Carriers' /\ TakenBehindCursor' BY <1>1, <1>3, MovesToldOnce, MovesBehind
<1>5. Leased(rows') = {}
  <2>1. Leased(rows) = {} BY <1>1 DEF ToldInv, TakenOver, Starting
  <2>2. ASSUME NEW j \in Ids, rows'[j].state = "leased" PROVE rows[j].state = "leased"
    <3>1. PICK r \in Rows : r = rows[j] BY Places DEF Ledgers
    <3>2. rows'[j] = r \/ rows'[j] = [r EXCEPT !.state = "superseded", !.rev = @ + 1, !.reason = "earlier_process_quit"]
      BY <1>1, <3>1 DEF Superseded
    <3>3. QED BY <2>2, <3>1, <3>2 DEF Rows
  <2>3. QED BY <2>1, <2>2 DEF Leased
<1>6. Reading' BY <1>1 DEF ToldInv, Reading, Running
<1>7. \A k : Happened(k) => Happened(k)' BY <1>1 DEF Happened
<1>8. TakenOver' /\ NotYetTold' BY <1>1, <1>5, <1>7 DEF ToldInv, TakenOver, NotYetTold, Running
<1>9. QED BY <1>4, <1>6, <1>8 DEF ToldInv

LEMMA PlaceCursorTold ==
    ASSUME TypeOK, ToldInv, PlaceCursor
    PROVE  ToldInv'
<1> USE DEF session
<1>1. /\ boot = "head" /\ boot' = "stale" /\ cursor' = mem' /\ UNCHANGED <<rows, world, carried, loop, polled>>
      /\ mem' = IF cursor.epoch = 0 THEN world ELSE IF Resumable THEN cursor
                ELSE [epoch |-> world.epoch, ev |-> 0, chat |-> 0]
  BY DEF PlaceCursor
<1>2. \A k : Happened(k) => Happened(k)' BY <1>1 DEF Happened
<1>3. OneTeller' /\ Carriers' BY <1>1, <1>2 DEF ToldInv, OneTeller, Carriers
<1>4. /\ mem'.epoch = world.epoch /\ mem'.ev <= world.ev /\ mem'.chat <= world.chat /\ mem'.ev \in Nat
      /\ \/ mem'.ev = world.ev
         \/ mem' = cursor
         \/ cursor.epoch # world.epoch
  <2>1. CASE cursor.epoch = 0 BY <1>1, <2>1, Places
  <2>2. CASE cursor.epoch # 0 /\ Resumable BY <1>1, <2>2, Places DEF Resumable
  <2>3. CASE cursor.epoch # 0 /\ ~ Resumable
    <3>1. mem' = [epoch |-> world.epoch, ev |-> 0, chat |-> 0] BY <1>1, <2>3
    <3>2. cursor.epoch # world.epoch BY <2>3 DEF Resumable, ToldInv, Reading
    <3>3. QED BY <3>1, <3>2, Places
  <2>4. QED BY <2>1, <2>2, <2>3
<1>5. TakenBehindCursor'
  <2>1. SUFFICES ASSUME NEW i \in Ids, rows[i].state \in Begun, NEW k \in rows[i].events
                 PROVE  k.epoch < world.epoch \/ (mem'.epoch = world.epoch /\ k.seq <= mem'.ev)
    BY <1>1 DEF TakenBehindCursor
  <2>2. k.epoch < world.epoch \/ (cursor.epoch = world.epoch /\ k.seq <= cursor.ev)
    BY <2>1 DEF ToldInv, TakenBehindCursor
  <2>3. k.epoch < world.epoch \/ (k.epoch = world.epoch /\ k.seq <= world.ev) BY DEF ToldInv, Carriers, Happened
  <2>4. QED BY <1>4, <2>2, <2>3
<1>6. Reading'
  <2>1. loop = "top" /\ polled = {} BY <1>1 DEF ToldInv, Reading
  <2>2. mem'.ev <= mem'.ev /\ mem'.epoch <= world.epoch BY <1>4, Places
  <2>3. QED BY <1>1, <1>4, <2>1, <2>2 DEF Reading, Running
<1>7. TakenOver' /\ NotYetTold'
  BY <1>1, <1>2 DEF ToldInv, TakenOver, NotYetTold, Starting, Running
<1>8. QED BY <1>3, <1>5, <1>6, <1>7 DEF ToldInv

LEMMA SupersedeStaleTold ==
    ASSUME TypeOK, ToldInv, SupersedeStale
    PROVE  ToldInv'
<1> USE DEF session
<1>1. /\ rows' = Superseded(rows, StaleKinds, "startup_reconcile_refreshed") /\ boot = "stale" /\ boot' = "interrupt"
      /\ carried' = UNION {rows[i].events : i \in StaleEvents}
      /\ UNCHANGED <<cursor, world, mem, loop, polled>>
  BY DEF SupersedeStale
<1>2. "startup_reconcile_refreshed" \in Reasons BY DEF Reasons
<1>3. Moves(rows, rows') /\ Idle(rows, rows') BY <1>1, <1>2, SupersededMoves, Places
<1>4. OneTeller' /\ Carriers' /\ TakenBehindCursor' BY <1>1, <1>3, MovesToldOnce, MovesBehind
<1>5. Leased(rows) = {} BY <1>1 DEF ToldInv, TakenOver, Starting
<1>6. ASSUME NEW i \in Ids, rows'[i].state \in Live
      PROVE  rows'[i].events = rows[i].events /\ rows[i].state \in Live /\ rows[i].state # "leased"
             /\ (rows[i].state = "queued" => rows[i].kind \notin StaleKinds)
             /\ rows'[i].state = rows[i].state
  <2>1. rows'[i].events = rows[i].events /\ rows[i].state \in Live BY <1>3, <1>6 DEF Moves, RowMoves
  <2>2. rows[i].state # "leased" BY <1>5 DEF Leased
  <2>3. i \notin QueuedOf(rows, StaleKinds)
    <3>1. SUFFICES ASSUME i \in QueuedOf(rows, StaleKinds) PROVE FALSE OBVIOUS
    <3>2. rows'[i] = [rows[i] EXCEPT !.state = "superseded", !.rev = @ + 1, !.reason = "startup_reconcile_refreshed"]
      BY <1>1, <3>1 DEF Superseded
    <3>3. rows'[i].state = "superseded" BY <3>2, Places DEF Ledgers, Rows
    <3>4. QED BY <1>6, <3>3 DEF Live
  <2>4. rows'[i] = rows[i] BY <1>1, <2>3 DEF Superseded
  <2>5. QED BY <2>1, <2>2, <2>3, <2>4 DEF QueuedOf, Queued
<1>7. Leased(rows') = {} BY <1>6 DEF Leased, Live
<1>8. \A i \in Ids : rows'[i].state \in Live =>
         rows'[i].events \cap carried' = {} /\ (rows'[i].events # {} => rows'[i].state = "completed")
  <2>1. SUFFICES ASSUME NEW i \in Ids, rows'[i].state \in Live
                 PROVE  rows[i].events \cap carried' = {} /\ (rows[i].events # {} => rows[i].state = "completed")
    BY <1>6
  <2>2. rows[i].events # {} => rows[i].state = "completed"
    BY <1>6, <2>1 DEF ToldInv, Carriers, StaleKinds, Live
  <2>3. \A j \in StaleEvents : j \in Ids /\ rows[j].state = "queued" BY DEF StaleEvents, QueuedOf, Queued
  <2>4. \A j \in StaleEvents : rows[i].events \cap rows[j].events = {}
    <3>1. CASE rows[i].events = {} BY <3>1
    <3>2. CASE rows[i].events # {}
      <4>1. rows[i].state = "completed" BY <2>2, <3>2
      <4>2. QED BY <2>3, <4>1 DEF ToldInv, OneTeller, Live
    <3>3. QED BY <3>1, <3>2
  <2>5. QED BY <1>1, <2>2, <2>4
<1>9. \A k \in carried' : Happened(k)'
  <2>1. \A j \in StaleEvents : j \in Ids BY DEF StaleEvents, QueuedOf, Queued
  <2>2. \A k \in carried' : Happened(k) BY <1>1, <2>1 DEF ToldInv, Carriers
  <2>3. QED BY <1>1, <2>2 DEF Happened
<1>10. TakenOver' BY <1>1, <1>7, <1>8, <1>9 DEF TakenOver
<1>11. Reading' /\ NotYetTold' BY <1>1 DEF ToldInv, Reading, NotYetTold, Running
<1>12. QED BY <1>4, <1>10, <1>11 DEF ToldInv

LEMMA EnqueueReconciliationTold ==
    ASSUME TypeOK, ToldInv, EnqueueReconciliation
    PROVE  ToldInv'
<1> USE DEF session
<1> DEFINE events == carried \cup FreshEvents
<1>1. /\ boot = "interrupt" /\ boot' = "ack" /\ Enter("recovery_reconcile", NoKey, events, orphans)
      /\ mem' = [mem EXCEPT !.ev = world.ev] /\ carried' = {} /\ UNCHANGED <<cursor, world, loop, polled>>
  BY DEF EnqueueReconciliation
<1>2. \A k \in FreshEvents : k.epoch = world.epoch /\ k.seq > mem.ev /\ k.seq <= world.ev /\ k.seq \in Nat
  BY Places DEF FreshEvents, BodyKey
<1>3. \A k \in events : Happened(k) BY <1>2 DEF ToldInv, TakenOver, Happened
<1>4. ASSUME NEW i \in Ids, rows[i].state \in Live PROVE rows[i].events \cap events = {}
  <2>1. rows[i].events \cap carried = {} /\ (rows[i].events # {} => rows[i].state = "completed")
    BY <1>1, <1>4 DEF ToldInv, TakenOver
  <2>2. ASSUME NEW k \in rows[i].events, k \in FreshEvents PROVE FALSE
    <3>1. k.epoch < world.epoch \/ k.seq <= cursor.ev
      BY <2>1, <2>2 DEF ToldInv, TakenBehindCursor, Begun
    <3>2. mem.ev = cursor.ev BY <1>1 DEF ToldInv, Reading
    <3>3. QED BY <1>2, <2>2, <3>1, <3>2, Places
  <2>3. QED BY <2>1, <2>2
<1> HIDE DEF events
<1>5. PICK i \in Ids : NewRow(i, "recovery_reconcile", events, orphans) BY <1>1, EnterNew, Places
<1>6. OneTeller' /\ Carriers' /\ TakenBehindCursor' BY <1>1, <1>3, <1>4, <1>5, NewToldOnce
<1>7. /\ mem'.ev = world.ev /\ mem'.epoch = mem.epoch /\ mem'.chat = mem.chat BY <1>1 DEF TypeOK, Position
<1>8. loop = "top" /\ polled = {} BY <1>1 DEF ToldInv, Reading
<1>9. Reading'
  <2>1. /\ mem.epoch = world.epoch /\ cursor.epoch = world.epoch /\ mem.chat <= world.chat /\ cursor.ev <= world.ev
    BY <1>1 DEF ToldInv, Reading
  <2>2. world.ev <= world.ev BY Places
  <2>3. QED BY <1>1, <1>7, <1>8, <2>1, <2>2 DEF ToldInv, Reading, Running
<1>10. TakenOver'
  <2>1. Leased(rows) = {} BY <1>1 DEF ToldInv, TakenOver, Starting
  <2>2. Leased(rows') = {} BY <1>5, <2>1 DEF Leased, NewRow
  <2>3. QED BY <1>1, <2>2 DEF TakenOver
<1>11. NotYetTold'
  <2>1. SUFFICES ASSUME NEW j \in Ids, NEW k \in rows'[j].events, k.epoch = world.epoch
                 PROVE  k.seq <= world.ev
    BY <1>1, <1>7, <1>8 DEF NotYetTold
  <2>2. Happened(k)' BY <1>6 DEF Carriers
  <2>3. QED BY <1>1, <2>1, <2>2, Places DEF Happened
<1>12. QED BY <1>6, <1>9, <1>10, <1>11 DEF ToldInv

LEMMA AckStartupTold ==
    ASSUME TypeOK, ToldInv, AckStartup
    PROVE  ToldInv'
<1> USE DEF session
<1>1. boot = "ack" /\ boot' = "up" /\ cursor' = mem /\ UNCHANGED <<rows, world, mem, carried, loop, polled>>
  BY DEF AckStartup
<1>2. \A k : Happened(k) => Happened(k)' BY <1>1 DEF Happened
<1>3. OneTeller' /\ Carriers' BY <1>1, <1>2 DEF ToldInv, OneTeller, Carriers
<1>4. /\ mem.epoch = world.epoch /\ cursor.epoch = world.epoch /\ cursor.ev <= mem.ev /\ mem.ev <= world.ev
      /\ mem.chat <= world.chat /\ loop = "top" /\ polled = {}
  BY <1>1 DEF ToldInv, Reading, Running
<1>5. TakenBehindCursor'
  <2>1. SUFFICES ASSUME NEW i \in Ids, rows[i].state \in Begun, NEW k \in rows[i].events
                 PROVE  k.epoch < world.epoch \/ k.seq <= mem.ev
    BY <1>1, <1>4 DEF TakenBehindCursor
  <2>2. k.epoch < world.epoch \/ k.seq <= cursor.ev BY <2>1 DEF ToldInv, TakenBehindCursor
  <2>3. QED BY <1>4, <2>2, Places
<1>6. Reading'
  <2>1. mem.ev <= mem.ev /\ mem.epoch <= world.epoch BY <1>4, Places
  <2>2. QED BY <1>1, <1>4, <2>1 DEF Reading
<1>7. TakenOver' BY <1>1, <1>2 DEF ToldInv, TakenOver, Starting
<1>8. NotYetTold' BY <1>1 DEF ToldInv, NotYetTold, Running
<1>9. QED BY <1>3, <1>5, <1>6, <1>7, <1>8 DEF ToldInv

(* The cursor is set to where the process has read to; the cursor of a     *)
(* running process is never ahead of that.                                 *)
LEMMA CursorMoves ==
    ASSUME TypeOK, ToldInv, boot = "up", cursor' = mem, UNCHANGED <<rows, world, mem, boot, carried, polled>>,
           loop' # "polling" => polled = {}
    PROVE  ToldInv'
<1>1. \A k : Happened(k) => Happened(k)' BY DEF Happened
<1>2. OneTeller' /\ Carriers' BY <1>1 DEF ToldInv, OneTeller, Carriers
<1>3. /\ mem.epoch = world.epoch /\ cursor.epoch = world.epoch /\ cursor.ev <= mem.ev /\ mem.ev <= world.ev
      /\ mem.chat <= world.chat
  BY DEF ToldInv, Reading, Running
<1>4. TakenBehindCursor'
  <2>1. SUFFICES ASSUME NEW i \in Ids, rows[i].state \in Begun, NEW k \in rows[i].events
                 PROVE  k.epoch < world.epoch \/ k.seq <= mem.ev
    BY <1>3 DEF TakenBehindCursor
  <2>2. k.epoch < world.epoch \/ k.seq <= cursor.ev BY <2>1 DEF ToldInv, TakenBehindCursor
  <2>3. QED BY <1>3, <2>2, Places
<1>5. Reading'
  <2>1. mem.ev <= mem.ev /\ mem.epoch <= world.epoch BY <1>3, Places
  <2>2. QED BY <1>3, <2>1 DEF ToldInv, Reading
<1>6. TakenOver' BY <1>1 DEF ToldInv, TakenOver, Starting
<1>7. NotYetTold' BY DEF ToldInv, NotYetTold
<1>8. QED BY <1>2, <1>4, <1>5, <1>6, <1>7 DEF ToldInv

\* Reading the Body's log, entering what was read, and writing the cursor.
LEMMA PumpTold ==
    ASSUME TypeOK, ToldInv, PumpStep
    PROVE  ToldInv'
<1> USE DEF session, process, durable
<1>1. CASE PollBody
  <2>1. /\ boot = "up" /\ loop = "top" /\ loop' = "polling" /\ polled' = (mem.ev + 1)..world.ev
        /\ mem' = [mem EXCEPT !.ev = world.ev] /\ UNCHANGED <<rows, cursor, world, boot, carried>>
    BY <1>1 DEF PollBody, LoopReady
  <2>2. mem'.ev = world.ev /\ mem'.epoch = mem.epoch /\ mem'.chat = mem.chat BY <2>1 DEF TypeOK, Position
  <2>3. /\ mem.epoch = world.epoch /\ cursor.epoch = world.epoch /\ mem.chat <= world.chat
        /\ mem.ev = cursor.ev /\ mem.ev <= world.ev
    BY <2>1 DEF ToldInv, Reading, Running
  <2>4. \A k : Happened(k) => Happened(k)' BY <2>1 DEF Happened
  <2>5. OneTeller' /\ Carriers' /\ TakenBehindCursor' /\ TakenOver'
    BY <2>1, <2>4 DEF ToldInv, OneTeller, Carriers, TakenBehindCursor, TakenOver, Starting
  <2>6. Reading'
    <3>1. world.ev <= world.ev /\ \A n \in polled' : n <= world.ev BY <2>1, Places
    <3>2. QED BY <2>1, <2>2, <2>3, <3>1 DEF ToldInv, Reading, Running
  <2>7. NotYetTold'
    <3>1. SUFFICES ASSUME NEW i \in Ids, rows[i].state \in Live, NEW k \in rows[i].events, k.epoch = world.epoch
                   PROVE  k.seq <= world.ev /\ k.seq \notin (mem.ev + 1)..world.ev
      BY <2>1, <2>2 DEF NotYetTold
    <3>2. k.seq <= mem.ev BY <2>1, <3>1 DEF ToldInv, NotYetTold, Running
    <3>3. QED BY <2>3, <3>2, Places
  <2>8. QED BY <2>5, <2>6, <2>7 DEF ToldInv
<1>2. CASE EnterEvent
  <2>1. PICK n \in polled : Enter("body_event", BodyKey(n), {BodyKey(n)}, {}) /\ polled' = polled \ {n}
    BY <1>2 DEF EnterEvent
  <2>2. boot = "up" /\ loop = "polling" /\ UNCHANGED <<cursor, world, mem, boot, carried, loop>>
    BY <1>2 DEF EnterEvent
  <2>3. \A k : Happened(k) => Happened(k)' BY <2>2 DEF Happened
  <2>4. Reading' BY <2>1, <2>2 DEF ToldInv, Reading, Running
  <2>5. TakenOver' BY <2>2, <2>3 DEF ToldInv, TakenOver, Starting
  <2>6. CASE rows' = rows
    <3>1. OneTeller' /\ Carriers' /\ TakenBehindCursor'
      BY <2>2, <2>3, <2>6 DEF ToldInv, OneTeller, Carriers, TakenBehindCursor
    <3>2. NotYetTold' BY <2>1, <2>2, <2>6 DEF ToldInv, NotYetTold
    <3>3. QED BY <2>4, <2>5, <3>1, <3>2 DEF ToldInv
  <2>7. CASE \E i \in Ids : NewRow(i, "body_event", {BodyKey(n)}, {})
    <3>1. PICK i \in Ids : NewRow(i, "body_event", {BodyKey(n)}, {}) BY <2>7
    <3>2. BodyKey(n).epoch = world.epoch /\ BodyKey(n).seq = n BY DEF BodyKey
    <3>3. n <= mem.ev /\ n <= world.ev /\ n \in Nat
      <4>1. n <= mem.ev /\ mem.ev <= world.ev BY <2>2 DEF ToldInv, Reading, Running
      <4>2. QED BY <4>1, Places
    <3>4. \A j \in Ids : rows[j].state \in Live => rows[j].events \cap {BodyKey(n)} = {}
      BY <2>2, <3>2 DEF ToldInv, NotYetTold, Running
    <3>5. \A k \in {BodyKey(n)} : Happened(k) BY <3>2, <3>3 DEF Happened
    <3>6. OneTeller' /\ Carriers' /\ TakenBehindCursor' BY <2>2, <3>1, <3>4, <3>5, NewToldOnce
    <3>7. NotYetTold'
      <4>1. SUFFICES ASSUME NEW j \in Ids, rows'[j].state \in Live, NEW k \in rows'[j].events, k.epoch = world.epoch
                     PROVE  k.seq <= mem.ev /\ k.seq \notin polled'
        BY <2>2 DEF NotYetTold
      <4>2. CASE j = i
        <5>1. k = BodyKey(n) BY <3>1, <4>2 DEF NewRow
        <5>2. QED BY <2>1, <3>2, <3>3, <5>1
      <4>3. CASE j # i
        <5>1. rows'[j] = rows[j] BY <3>1, <4>3 DEF NewRow
        <5>2. k.seq <= mem.ev /\ k.seq \notin polled BY <2>2, <4>1, <5>1 DEF ToldInv, NotYetTold, Running
        <5>3. QED BY <2>1, <5>2
      <4>4. QED BY <4>2, <4>3
    <3>8. QED BY <2>4, <2>5, <3>6, <3>7 DEF ToldInv
  <2>8. QED BY <2>1, <2>6, <2>7, EnterNew, Places
<1>3. CASE AckBody
  <2>1. /\ boot = "up" /\ loop = "polling" /\ polled = {} /\ cursor' = mem /\ loop' = "top"
        /\ UNCHANGED <<rows, world, mem, boot, carried, polled>>
    BY <1>3 DEF AckBody
  <2>2. QED BY <2>1, CursorMoves
<1>4. QED BY <1>1, <1>2, <1>3 DEF PumpStep

LEMMA ChatTold ==
    ASSUME TypeOK, ToldInv, ChatStep
    PROVE  ToldInv'
<1> USE DEF session, process, durable
<1>1. boot = "up" BY DEF ChatStep, PollChat, SubmitKnown, SubmitSupersede, SubmitEnqueue, AckChat, Submitting, ChatReady
<1>2. CASE PollChat
  <2>1. mem' = [mem EXCEPT !.chat = world.chat] /\ UNCHANGED <<rows, cursor, world, boot, carried, loop, polled>>
    BY <1>2 DEF PollChat
  <2>2. mem'.ev = mem.ev /\ mem'.epoch = mem.epoch /\ mem'.chat = world.chat BY <2>1 DEF TypeOK, Position
  <2>3. \A k : Happened(k) => Happened(k)' BY <2>1 DEF Happened
  <2>4. OneTeller' /\ Carriers' /\ TakenBehindCursor' /\ TakenOver' /\ NotYetTold'
    BY <2>1, <2>2, <2>3 DEF ToldInv, OneTeller, Carriers, TakenBehindCursor, TakenOver, NotYetTold
  <2>5. Reading'
    <3>1. world.chat <= world.chat BY Places
    <3>2. QED BY <2>1, <2>2, <3>1 DEF ToldInv, Reading
  <2>6. QED BY <2>4, <2>5 DEF ToldInv
<1>3. CASE SubmitKnown
  <2>1. UNCHANGED <<rows, cursor, world, mem, boot, carried, loop, polled>> BY <1>3 DEF SubmitKnown
  <2>2. Moves(rows, rows') /\ Idle(rows, rows') BY <2>1, MovesNot DEF Idle
  <2>3. QED BY <1>1, <2>1, <2>2, InsideTold
<1>4. CASE SubmitSupersede
  <2>1. UNCHANGED <<cursor, world, mem, boot, carried, loop, polled>> BY <1>4 DEF SubmitSupersede
  <2>2. PICK kind : rows' = Superseded(rows, SupersededKindsFor(kind), "control") BY <1>4 DEF SubmitSupersede
  <2>3. "control" \in Reasons BY DEF Reasons
  <2>4. Moves(rows, rows') /\ Idle(rows, rows') BY <2>2, <2>3, SupersededMoves, Places
  <2>5. QED BY <1>1, <2>1, <2>4, InsideTold
<1>5. CASE SubmitEnqueue
  <2>1. UNCHANGED <<cursor, world, mem, boot, carried, loop, polled>> BY <1>5 DEF SubmitEnqueue
  <2>2. PICK kind, key : Enter(kind, key, {}, {}) BY <1>5 DEF SubmitEnqueue
  <2>3. QED BY <1>1, <2>1, <2>2, PlainEntryTold
<1>6. CASE AckChat
  <2>1. cursor' = mem /\ UNCHANGED <<rows, world, mem, boot, carried, loop, polled>> BY <1>6 DEF AckChat
  <2>2. loop # "polling" => polled = {} BY <1>1 DEF ToldInv, Reading
  <2>3. QED BY <1>1, <2>1, <2>2, CursorMoves
<1>7. QED BY <1>2, <1>3, <1>4, <1>5, <1>6 DEF ChatStep

LEMMA WorldTold ==
    ASSUME TypeOK, ToldInv, EventHappens \/ ChatSaid \/ ServerRestarts
    PROVE  ToldInv'
<1> USE DEF session, process, durable
<1>1. UNCHANGED <<rows, cursor, mem, boot, carried, loop, polled>>
  BY DEF EventHappens, ChatSaid, ServerRestarts
<1>2. CASE EventHappens \/ ChatSaid
  <2>1. /\ world'.epoch = world.epoch /\ world'.ev >= world.ev /\ world'.chat >= world.chat
        /\ world'.ev \in Nat /\ world'.chat \in Nat
    BY <1>2 DEF EventHappens, ChatSaid, TypeOK, Position
  <2>2. \A k : k.seq \in Nat /\ Happened(k) => Happened(k)' BY <2>1, Places DEF Happened
  <2>3. OneTeller' BY <1>1 DEF ToldInv, OneTeller
  <2>4. Carriers' BY <1>1, <2>2, Places DEF ToldInv, Carriers
  <2>5. TakenBehindCursor' BY <1>1, <2>1 DEF ToldInv, TakenBehindCursor
  <2>6. Reading' BY <1>1, <2>1, Places DEF ToldInv, Reading
  <2>7. TakenOver' BY <1>1, <2>2, Places DEF ToldInv, TakenOver
  <2>8. NotYetTold' BY <1>1, <2>1 DEF ToldInv, NotYetTold
  <2>9. QED BY <2>3, <2>4, <2>5, <2>6, <2>7, <2>8 DEF ToldInv
<1>3. CASE ServerRestarts
  <2>1. boot = "down" /\ world' = [epoch |-> world.epoch + 1, ev |-> 0, chat |-> 0] BY <1>3 DEF ServerRestarts
  <2>2. world'.epoch = world.epoch + 1 BY <2>1
  <2>3. \A k : Happened(k) /\ k.epoch \in Nat => Happened(k)' /\ k.epoch < world'.epoch
    BY <2>2, Places DEF Happened
  <2>4. OneTeller' BY <1>1 DEF ToldInv, OneTeller
  <2>5. Carriers' BY <1>1, <2>3, Places DEF ToldInv, Carriers
  <2>6. TakenBehindCursor' BY <1>1, <2>3, Places DEF ToldInv, Carriers, TakenBehindCursor
  <2>7. Reading'
    <3>1. cursor.epoch <= world'.epoch /\ cursor.epoch # world'.epoch BY <2>2, Places DEF ToldInv, Reading
    <3>2. QED BY <1>1, <2>1, <3>1 DEF ToldInv, Reading, Running
  <2>8. TakenOver' BY <1>1, <2>1, <2>3, Places DEF ToldInv, TakenOver, Starting
  <2>9. NotYetTold' BY <1>1, <2>1 DEF NotYetTold, Running
  <2>10. QED BY <2>4, <2>5, <2>6, <2>7, <2>8, <2>9 DEF ToldInv
<1>4. QED BY <1>2, <1>3

LEMMA LoopTold ==
    ASSUME TypeOK, ToldInv, LoopStep
    PROVE  ToldInv'
<1> USE DEF session, process, durable
<1>1. CASE FactArrives
  <2>1. boot = "up" /\ UNCHANGED <<cursor, world, mem, boot, carried, polled, loop>>
    BY <1>1 DEF FactArrives, LoopReady
  <2>2. PICK kind : Enter(kind, NoKey, {}, {}) BY <1>1 DEF FactArrives
  <2>3. QED BY <2>1, <2>2, PlainEntryTold
<1>2. CASE ~ FactArrives
  <2>1. Moves(rows, rows') /\ (Idle(rows, rows') \/ TakesUp) BY <1>2, LoopStepMoves DEF MovesOn
  <2>2. CASE EndProcess
    <3>1. Vanish /\ UNCHANGED <<cursor, world>> BY <2>2 DEF EndProcess
    <3>2. QED BY <2>1, <3>1, VanishTold
  <2>3. CASE ~ EndProcess
    <3>1. /\ boot = "up" /\ loop # "polling" /\ loop' # "polling"
          /\ UNCHANGED <<cursor, world, mem, boot, carried, polled>>
      BY <1>2, <2>3 DEF LoopStep, TakeNext, Admitted, DeliverFacts, BindAdmission, BindRaises, Overlook,
         BeginSteering, SteerNext, SteerDone, CompleteStep, PreemptStep, Settle, StepCancelled, InStep, LoopReady
    <3>2. QED BY <2>1, <3>1, InsideTold
  <2>4. QED BY <2>2, <2>3
<1>3. QED BY <1>1, <1>2

LEMMA StepTold ==
    ASSUME TypeOK, ToldInv, [Next]_vars, eventLog
    PROVE  ToldInv'
<1> USE DEF session, process, durable
<1>1. rows' = rows => Moves(rows, rows') /\ Idle(rows, rows') BY MovesNot DEF Idle
<1>2. CASE Dies \/ DiesStarting \/ RefuseConflict \/ StartupFails
  <2>1. Vanish /\ UNCHANGED <<rows, cursor, world>>
    BY <1>2 DEF Dies, DiesStarting, RefuseConflict, StartupFails, GiveUp
  <2>2. QED BY <1>1, <2>1, VanishTold
<1>3. CASE StartUp
  BY <1>2, <1>3, OpenQueueTold, DropStaleQuitsTold, PlaceCursorTold, SupersedeStaleTold, EnqueueReconciliationTold,
     AckStartupTold
  DEF StartUp
<1>4. CASE (\E t \in Threads : FlagStep(t)) \/ UNCHANGED vars
  <2>1. UNCHANGED <<rows, cursor, world, mem, boot, carried, polled, loop>>
    BY <1>4 DEF FlagStep, CountQueued, WriteFlag, vars
  <2>2. QED BY <1>1, <2>1, InsideTold
<1>5. CASE \E i \in Ids : LeaseExpires(i)
  <2>1. PICK i \in Ids : LeaseExpires(i) BY <1>5
  <2>2. /\ rows' = [rows EXCEPT ![i].live = FALSE] /\ rows[i].state = "leased"
        /\ UNCHANGED <<cursor, world, mem, boot, carried, polled, loop>>
    BY <2>1 DEF LeaseExpires
  <2>3. boot \notin Starting BY <2>2 DEF ToldInv, TakenOver, Leased
  <2>4. \A j \in Ids : rows'[j].state = rows[j].state BY <2>2, Places DEF Ledgers, Rows
  <2>5. Leased(rows') = Leased(rows) BY <2>4 DEF Leased
  <2>6. \A j \in Ids : RowMoves(rows[j], rows'[j])
    <3>1. SUFFICES ASSUME NEW j \in Ids PROVE RowMoves(rows[j], rows'[j]) OBVIOUS
    <3>2. CASE j # i BY <2>2, <3>2, Places DEF Ledgers, RowMoves
    <3>3. CASE j = i
      <4>1. rows'[i] = [rows[i] EXCEPT !.live = FALSE] /\ rows[i] \in Rows BY <2>2, Places DEF Ledgers
      <4>2. QED BY <2>2, <3>3, <4>1 DEF Rows, RowMoves, Unsettled
    <3>4. QED BY <3>2, <3>3
  <2>7. Moves(rows, rows') /\ Idle(rows, rows') BY <2>4, <2>6 DEF Moves, Idle
  <2>8. QED BY <2>2, <2>3, <2>5, <2>7, InsideTold DEF Starting
<1>6. ~ StdinStep BY DEF StdinStep, StdinSupersede, StdinEnqueue
<1>7. QED BY <1>2, <1>3, <1>4, <1>5, <1>6, LoopTold, PumpTold, ChatTold, WorldTold DEF Next

(* Over a Body without an event log no intent carries an event.            *)
NoEvents ==
    /\ boot \in {"down", "quits", "up"} /\ loop # "polling"
    /\ \A i \in Ids : rows[i].events = {}

LEMMA StepNoEvents ==
    ASSUME TypeOK, NoEvents, [Next]_vars, ~ eventLog
    PROVE  NoEvents'
<1> USE DEF durable, process, wake, session, reader, counts
<1>1. rows \in Ledgers BY DEF TypeOK, Ledgers
<1>2. ~ EnqueueReconciliation /\ ~ EnterEvent /\ ~ PlaceCursor /\ ~ SupersedeStale /\ ~ AckStartup
  BY DEF NoEvents, EnqueueReconciliation, EnterEvent, PlaceCursor, SupersedeStale, AckStartup
<1>3. \A i \in Ids : rows'[i].events = {}
  <2>1. CASE OpenQueue
    <3>1. \A i \in Ids : rows'[i].events = rows[i].events BY <1>1, <2>1, AbandonedReported DEF OpenQueue
    <3>2. QED BY <3>1 DEF NoEvents
  <2>2. CASE Moves(rows, rows') BY <2>2 DEF Moves, RowMoves, NoEvents
  <2>3. CASE FactArrives \/ SubmitEnqueue \/ StdinEnqueue
    <3>1. \E kind, key : Enter(kind, key, {}, {})
      BY <2>3 DEF FactArrives, SubmitEnqueue, StdinEnqueue
    <3>2. PICK kind, key : Enter(kind, key, {}, {}) BY <3>1
    <3>3. rows' = rows \/ \E i \in Ids : NewRow(i, kind, {}, {}) BY <1>1, <3>2, EnterNew
    <3>4. QED BY <3>3 DEF NewRow, NoEvents
  <2>4. CASE LoopStep /\ ~ FactArrives BY <2>2, <2>4, LoopStepMoves DEF MovesOn
  <2>5. QED BY <1>2, <2>1, <2>2, <2>3, <2>4, OtherStepMoves DEF MovesOn, Entering
<1>4. boot' \in {"down", "quits", "up"} /\ loop' # "polling"
  <2>1. CASE Vanish BY <2>1 DEF Vanish
  <2>2. CASE Dies \/ DiesStarting \/ RefuseConflict \/ StartupFails \/ EndProcess
    BY <2>1, <2>2 DEF Dies, DiesStarting, RefuseConflict, StartupFails, GiveUp, EndProcess
  <2>3. CASE OpenQueue \/ DropStaleQuits BY <2>3 DEF OpenQueue, DropStaleQuits, NoEvents
  <2>4. CASE LoopStep /\ ~ EndProcess
    BY <2>4 DEF LoopStep, TakeNext, Admitted, DeliverFacts, BindAdmission, BindRaises, Overlook, BeginSteering,
       SteerNext, SteerDone, CompleteStep, PreemptStep, Settle, StepCancelled, FactArrives, NoEvents
  <2>5. CASE PumpStep \/ ChatStep \/ StdinStep
    BY <2>5 DEF PumpStep, PollBody, EnterEvent, AckBody, ChatStep, PollChat, SubmitKnown, SubmitSupersede,
       SubmitEnqueue, AckChat, StdinStep, StdinSupersede, StdinEnqueue, NoEvents
  <2>6. CASE (\E t \in Threads : FlagStep(t)) \/ (\E i \in Ids : LeaseExpires(i)) \/ UNCHANGED vars
    BY <2>6 DEF FlagStep, CountQueued, WriteFlag, LeaseExpires, vars, NoEvents
  <2>7. CASE EventHappens \/ ChatSaid \/ ServerRestarts
    BY <2>7 DEF EventHappens, ChatSaid, ServerRestarts, NoEvents
  <2>8. QED BY <1>2, <2>2, <2>3, <2>4, <2>5, <2>6, <2>7 DEF Next, StartUp
<1>5. QED BY <1>3, <1>4 DEF NoEvents

(* No Body event is told to the Agent by two intents that are carried out, *)
(* although an event read again after a crash, one taken over from a stale *)
(* intent and one still in the log all end up in the new reconciliation.   *)
THEOREM ToldOnceAlways == Spec => []ToldOnce
<1>1. Init => ToldInv
  <2> SUFFICES ASSUME Init PROVE ToldInv OBVIOUS
  <2>2. \A i \in Ids : rows[i].state = "absent" /\ rows[i].events = {}
    BY DEF Init, EmptyLedger, AbsentRow
  <2>3. OneTeller /\ Carriers /\ TakenBehindCursor BY <2>2 DEF OneTeller, Carriers, TakenBehindCursor
  <2>4. Reading BY DEF Init, Reading, Running
  <2>5. TakenOver /\ NotYetTold BY DEF Init, TakenOver, NotYetTold, Starting, Running
  <2>6. QED BY <2>3, <2>4, <2>5 DEF ToldInv
<1>2. Init => NoEvents BY DEF Init, NoEvents, EmptyLedger, AbsentRow
<1>3. TypeOK /\ eventLog /\ ToldInv /\ [Next]_vars => ToldInv' BY StepTold
<1>4. TypeOK /\ ~ eventLog /\ NoEvents /\ [Next]_vars => NoEvents' BY StepNoEvents
<1> DEFINE Told == (eventLog => ToldInv) /\ (~ eventLog => NoEvents)
<1>5. Init => Told BY <1>1, <1>2
<1>6. TypeOK /\ Told /\ [Next]_vars => Told' BY <1>3, <1>4, LogStays
<1>7. Told => ToldOnce BY DEF ToldInv, OneTeller, ToldOnce, Live, NoEvents
<1>8. QED BY <1>5, <1>6, <1>7, QueueTypeCorrect, PTL DEF Spec
=============================================================================
