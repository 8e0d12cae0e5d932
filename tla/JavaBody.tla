----------------------------- MODULE JavaBody -----------------------------
(* The Body behind the server mod (game/java_body_adapter.py, java_body.py *)
(* and java_body_protocol.py): an action is sent once over a socket, its   *)
(* end is awaited as an event and asked for, and the blocks it wants to    *)
(* break are put to the governance by the thread that awaits it.  The      *)
(* server mod is modelled from what Python asks of it.                     *)
EXTENDS Governance

CONSTANTS Jobs,      \* the actions, in the order they are called
          MaxDrops   \* breaks of the socket and restarts of the server

ASSUME DropAssumption == MaxDrops \in Nat

VARIABLES
    job,       \* Job -> "none", "running", or the end the server keeps: "done", "failed"
    began,     \* history: the jobs the server has begun
    ended,     \* history: Job -> how it ended
    pushed,    \* jobs whose terminal event is on the socket
    asked,     \* the proposal the server waits for an answer to
    broken,    \* the places that were broken
    drops,     \* breaks of the socket and restarts so far
    client,    \* the JavaBodyClient
    result     \* what the caller was told

javaVars == <<job, began, ended, pushed, asked, broken, drops, client, result>>
mod == <<job, began, ended, pushed, asked, broken>>

NoJob == "none"
NoProposal == [job |-> NoJob, place |-> NoJob, ctx |-> NoJob, verdict |-> "none"]
Ends == {"done", "failed"}

JavaInit ==
    /\ job = [j \in Jobs |-> "none"] /\ began = {} /\ ended = [j \in Jobs |-> "none"]
    /\ pushed = {} /\ asked = NoProposal /\ broken = {} /\ drops = 0
    /\ client = [pc |-> "idle", j |-> NoJob, up |-> FALSE]
    /\ result = [j \in Jobs |-> "none"]

\* ----- the server mod ----------------------------------------------------

Busy == \E j \in Jobs : job[j] = "running"

(* A request for an action: begun, or refused while another runs.          *)
Submit(j) ==
    IF Busy THEN UNCHANGED <<job, began>>
    ELSE job' = [job EXCEPT ![j] = "running"] /\ began' = began \cup {j}

(* The action ends.  The event reaches whoever is connected.               *)
Finished(j) ==
    /\ job[j] = "running"
    /\ \E e \in Ends : job' = [job EXCEPT ![j] = e] /\ ended' = [ended EXCEPT ![j] = e]
    /\ pushed' = IF client.up THEN pushed \cup {j} ELSE pushed
    /\ asked' = IF asked.job = j THEN NoProposal ELSE asked
    /\ UNCHANGED <<began, broken, drops, client, result, govVars>>

(* interrupt_body, over a connection of its own: what runs is stopped.     *)
interrupt_body ==
    /\ \E j \in Jobs :
         /\ job[j] = "running"
         /\ job' = [job EXCEPT ![j] = "failed"] /\ ended' = [ended EXCEPT ![j] = "failed"]
         /\ pushed' = IF client.up THEN pushed \cup {j} ELSE pushed
    /\ asked' = NoProposal
    /\ UNCHANGED <<began, broken, drops, client, result, govVars>>

(* The server asks before each break, and waits.                           *)
Propose(j) ==
    /\ job[j] = "running" /\ asked = NoProposal
    /\ \E p \in Places \ broken, ctx \in Contexts :
         asked' = [job |-> j, place |-> p, ctx |-> ctx, verdict |-> "none"]
    /\ UNCHANGED <<job, began, ended, pushed, broken, drops, client, result, govVars>>

(* An allowed break is carried out; a denied or unanswered one is not.     *)
Break ==
    /\ asked.verdict = "allow"
    /\ broken' = broken \cup {asked.place}
    /\ asked' = NoProposal
    /\ UNCHANGED <<job, began, ended, pushed, drops, client, result, govVars>>

NotBroken ==
    /\ asked.job # NoJob /\ asked.verdict # "allow"
    /\ asked' = NoProposal
    /\ UNCHANGED <<job, began, ended, pushed, broken, drops, client, result, govVars>>

(* The server keeps the ends of the last actions only.                     *)
Forgets(j) ==
    /\ job[j] \in Ends
    /\ job' = [job EXCEPT ![j] = "none"]
    /\ UNCHANGED <<began, ended, pushed, asked, broken, drops, client, result, govVars>>

(* The server starts again and remembers nothing.                          *)
Restarts ==
    /\ drops < MaxDrops /\ drops' = drops + 1
    /\ job' = [j \in Jobs |-> "none"] /\ asked' = NoProposal /\ pushed' = {}
    /\ client' = [client EXCEPT !.up = FALSE]
    /\ UNCHANGED <<began, ended, broken, result, govVars>>

Drops ==
    /\ client.up /\ drops < MaxDrops /\ drops' = drops + 1
    /\ pushed' = {} /\ asked' = NoProposal
    /\ client' = [client EXCEPT !.up = FALSE]
    /\ UNCHANGED <<job, began, ended, broken, result, govVars>>

\* ----- the client --------------------------------------------------------

Give(what) ==
    /\ client' = [client EXCEPT !.pc = "idle", !.j = NoJob]
    /\ result' = [result EXCEPT ![client.j] = what]

Step(pc) == client' = [client EXCEPT !.pc = pc] /\ UNCHANGED result

Still == UNCHANGED <<mod, drops, govVars>>

(* An objective: connect when there is no connection, and send.            *)
Objective(j) ==
    \E up \in {client.up, TRUE} :
        IF up THEN client' = [pc |-> "ack", j |-> j, up |-> TRUE] /\ UNCHANGED result
        ELSE client' = client /\ result' = [result EXCEPT ![j] = "unsent"]

Dispatch(j) ==
    /\ client.pc = "idle" /\ result[j] = "none"
    /\ Objective(j)
    /\ Still

(* _run_action: the acknowledgement says accepted, or is an error.         *)
Acknowledged ==
    /\ client.pc = "ack" /\ client.up
    /\ Submit(client.j)
    /\ IF job'[client.j] = "running" THEN Step("await") ELSE Give("refused")
    /\ UNCHANGED <<ended, pushed, asked, broken, drops, govVars>>

(* The request or its acknowledgement is lost with the connection.         *)
AckLost ==
    /\ client.pc = "ack"
    /\ Submit(client.j) \/ UNCHANGED <<job, began>>
    /\ client' = [client EXCEPT !.pc = "reconcile", !.up = FALSE] /\ UNCHANGED result
    /\ pushed' = {} /\ asked' = NoProposal
    /\ UNCHANGED <<ended, broken, drops, govVars>>

(* The end of an action is told; a success takes the action's name off the *)
(* challenges (_with_governance_confirmation).                             *)
Ended(j, e) ==
    /\ Give(e)
    /\ pushed' = pushed \ {j}
    /\ IF e = "done" /\ client.pc = "await" THEN dismiss_action_confirmations(j) ELSE UNCHANGED govVars
    /\ UNCHANGED <<job, began, ended, asked, broken, drops>>

Awaiting == {"await", "again", "canceled"}

(* _await_terminal: the event, or the answer to a query.                   *)
TerminalEvent ==
    /\ client.pc \in {"await", "again"} /\ client.up /\ client.j \in pushed
    /\ Ended(client.j, ended[client.j])

TerminalQueried ==
    /\ client.pc = "canceled" \/ (client.pc \in Awaiting /\ client.up)
    /\ job[client.j] \in Ends
    /\ Ended(client.j, job[client.j])

\* Mutant: an action the server does not know is taken for one that failed.
QueriedUnknownAsFailed ==
    /\ client.pc = "await" /\ client.up /\ job[client.j] = "none"
    /\ Give("failed") /\ Still

(* The server does not know the action any more: the connection counts as  *)
(* lost.                                                                   *)
QueriedUnknown ==
    /\ client.pc = "await" /\ client.up /\ job[client.j] = "none"
    /\ Step("reconcile") /\ Still

(* The connection is lost during the wait.                                 *)
WaitCut ==
    /\ client.pc \in {"await", "again"} /\ ~client.up
    /\ IF client.pc = "await" THEN Step("reconcile") ELSE Give("unknown")
    /\ Still

(* The wall deadline passes.                                               *)
Deadline ==
    /\ client.pc \in Awaiting
    /\ \/ client.pc = "await" /\ Step("cancel")
       \/ client.pc = "again" /\ Give("unknown")
       \/ client.pc = "canceled" /\ Give("timeout")
    /\ Still

(* _reconcile_after_drop: connect, replay the events, ask for the action.  *)
Reconcile ==
    /\ client.pc = "reconcile"
    /\ \/ Give("unknown") /\ Still
       \/ job[client.j] \in Ends /\ Ended(client.j, job[client.j])
       \/ /\ job[client.j] = "running"
          /\ client' = [client EXCEPT !.pc = "again", !.up = TRUE]
          /\ UNCHANGED result /\ Still

(* _cancel_and_reconcile_deadline, over the lane for reading.              *)
Cancel ==
    /\ client.pc = "cancel"
    /\ \/ Give("timeout") /\ Still
       \/ job[client.j] \in Ends /\ Ended(client.j, job[client.j])
       \/ job[client.j] = "running" /\ Step("canceled") /\ Still

(* GovernanceAnswerer.verdict on a break.                                  *)
verdict(p, ctx, same, complete) == IF Allows(p, ctx, same, complete) THEN "allow" ELSE "deny"

(* A proposal is answered by whatever exchange reads the socket.           *)
_answer_proposal ==
    /\ client.up /\ client.pc \in {"ack", "await", "again"}
    /\ asked.job # NoJob /\ asked.verdict = "none"
    /\ \E same, complete \in BOOLEAN :
         /\ can_break(asked.place, asked.ctx, asked.job, same, complete)
         /\ asked' = [asked EXCEPT !.verdict = verdict(asked.place, asked.ctx, same, complete)]
    /\ UNCHANGED <<job, began, ended, pushed, broken, drops, client, result>>

(* observe_event: a death, or a block the Body has put under itself.       *)
ObserveDeath == client.up /\ client.pc # "idle" /\ invalidate_confirmation_state /\ UNCHANGED javaVars
ObservePillar(p) == client.up /\ client.pc # "idle" /\ record_bot_placement(p) /\ UNCHANGED javaVars

AgentConfirms(x) == client.pc = "idle" /\ confirm_scope(x) /\ UNCHANGED javaVars
Elsewhere == (TaskChanges \/ TimePasses) /\ UNCHANGED javaVars

JavaNext ==
    \/ \E j \in Jobs : Finished(j) \/ Forgets(j) \/ Propose(j) \/ Dispatch(j)
    \/ interrupt_body \/ Break \/ NotBroken \/ Restarts \/ Drops
    \/ Acknowledged \/ AckLost \/ TerminalEvent \/ TerminalQueried \/ QueriedUnknown \/ WaitCut
    \/ Deadline \/ Reconcile \/ Cancel \/ _answer_proposal
    \/ ObserveDeath \/ (\E p \in Places : ObservePillar(p))
    \/ (\E x \in challenges : AgentConfirms(x)) \/ Elsewhere

JavaSpec == JavaInit /\ GovInit /\ [][JavaNext]_<<javaVars, govVars>>

\* ----- properties --------------------------------------------------------

(* The caller is told how the action ended, or that this is not known: a   *)
(* success or a failure is the one the server came to, and an action that  *)
(* was refused or not sent was never begun.                                *)
EndsToldTruly ==
    \A j \in Jobs :
        /\ result[j] \in Ends => ended[j] = result[j]
        /\ result[j] \in {"refused", "unsent"} => j \notin began
=============================================================================
