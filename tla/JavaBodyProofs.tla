--------------------------- MODULE JavaBodyProofs ---------------------------
(* What the caller of the server mod is told of an action is what became   *)
(* of it, and no break is allowed beyond what the Agent has confirmed: for *)
(* any set of actions and places, any number of broken connections and any *)
(* sequence of challenges, deaths and changes of task.                     *)
EXTENDS JavaBody, FiniteSetTheorems, WellFoundedInduction, TLAPS

\* ----- what the caller is told -------------------------------------------

JobStates == {"none", "running"} \cup Ends

ClientType ==
    /\ job \in [Jobs -> JobStates]
    /\ ended \in [Jobs -> {"none"} \cup Ends]
    /\ result \in [Jobs -> {"none", "unsent", "refused", "unknown", "timeout"} \cup Ends]
    /\ began \in SUBSET Jobs /\ pushed \in SUBSET Jobs
    /\ client.pc # "idle" => client.j \in Jobs
    /\ client = [pc |-> client.pc, j |-> client.j, up |-> client.up]

(* What the server keeps of an action is how it ended; an event on the     *)
(* socket is of an action that has ended; an action that has ended does    *)
(* not run again.                                                          *)
EndsKept ==
    \A j \in Jobs :
        /\ job[j] \in Ends => ended[j] = job[j]
        /\ j \in pushed => ended[j] \in Ends
        /\ ended[j] \in Ends => j \in began /\ job[j] # "running"
        /\ job[j] = "running" => j \in began

(* An action is begun only for the call that sent it, and that call has    *)
(* no result until it is over.                                             *)
BegunForItsCall ==
    /\ client.pc # "idle" => result[client.j] = "none"
    /\ client.pc = "ack" => client.j \notin began
    /\ \A j \in began : result[j] # "none" \/ (client.pc # "idle" /\ client.j = j)

TellInv == ClientType /\ EndsKept /\ BegunForItsCall /\ EndsToldTruly

LEMMA TellInit == JavaInit => TellInv
BY DEF JavaInit, TellInv, ClientType, EndsKept, BegunForItsCall, EndsToldTruly, JobStates, Ends

(* The call in hand is given an outcome that is true of its action.        *)
LEMMA GiveTrue ==
    ASSUME TellInv, client.pc \notin {"idle", "ack"}, NEW e, Give(e),
           UNCHANGED <<job, began, ended>>, pushed' \subseteq pushed,
           e \in {"unknown", "timeout"} \cup Ends,
           e \in Ends => ended[client.j] = e
    PROVE  TellInv'
<1>1. ClientType' BY DEF TellInv, ClientType, Give
<1>2. EndsKept' BY DEF TellInv, ClientType, EndsKept, Give
<1>3. BegunForItsCall' BY DEF TellInv, ClientType, BegunForItsCall, Give, Ends
<1>4. EndsToldTruly'
  <2>1. SUFFICES ASSUME NEW j \in Jobs
                 PROVE  /\ result'[j] \in Ends => ended[j] = result'[j]
                        /\ result'[j] \in {"refused", "unsent"} => j \notin began
    BY DEF EndsToldTruly
  <2>2. CASE j = client.j BY <2>2 DEF TellInv, ClientType, Give, Ends
  <2>3. CASE j # client.j BY <2>3 DEF TellInv, ClientType, EndsToldTruly, Give
  <2>4. QED BY <2>2, <2>3
<1>5. QED BY <1>1, <1>2, <1>3, <1>4 DEF TellInv

LEMMA EndedTrue ==
    ASSUME TellInv, client.pc \notin {"idle", "ack"}, NEW e \in Ends, Ended(client.j, e), ended[client.j] = e
    PROVE  TellInv'
BY GiveTrue DEF Ended

\* The call goes on; nothing becomes of its action meanwhile.
LEMMA GoesOn ==
    ASSUME TellInv, UNCHANGED <<job, began, ended, result>>, pushed' \subseteq pushed,
           client'.j = client.j, client' = [pc |-> client'.pc, j |-> client'.j, up |-> client'.up],
           (client'.pc = "idle") = (client.pc = "idle"), client'.pc = "ack" => client.pc = "ack"
    PROVE  TellInv'
BY DEF TellInv, ClientType, EndsKept, BegunForItsCall, EndsToldTruly

\* A running action ends.
LEMMA ActionEnds ==
    ASSUME TellInv, NEW j \in Jobs, job[j] = "running", NEW e \in Ends,
           job' = [job EXCEPT ![j] = e], ended' = [ended EXCEPT ![j] = e],
           pushed' \subseteq pushed \cup {j}, UNCHANGED <<began, client, result>>
    PROVE  TellInv'
<1>1. ended[j] = "none" /\ j \in began /\ result[j] \notin Ends BY DEF TellInv, ClientType, EndsKept, EndsToldTruly, Ends
<1>2. ClientType' BY DEF TellInv, ClientType, JobStates
<1>3. EndsKept' BY <1>1 DEF TellInv, ClientType, EndsKept, Ends
<1>4. BegunForItsCall' BY DEF TellInv, BegunForItsCall
<1>5. EndsToldTruly' BY <1>1 DEF TellInv, ClientType, EndsToldTruly
<1>6. QED BY <1>2, <1>3, <1>4, <1>5 DEF TellInv

\* The action of the call is begun, or nothing is.
LEMMA SubmitBegins ==
    ASSUME TellInv, client.pc = "ack", Submit(client.j) \/ UNCHANGED <<job, began>>,
           UNCHANGED ended, pushed' \subseteq pushed,
           client' = [pc |-> client'.pc, j |-> client'.j, up |-> client'.up]
    PROVE  /\ (UNCHANGED result /\ client'.j = client.j /\ client'.pc \notin {"idle", "ack"}) => TellInv'
           /\ (Give("refused") /\ job'[client.j] # "running") => TellInv'
<1>1. client.j \in Jobs /\ client.j \notin began /\ result[client.j] = "none" /\ ended[client.j] = "none"
  BY DEF TellInv, ClientType, BegunForItsCall, EndsKept
<1>2. job' \in [Jobs -> JobStates] /\ began' \in SUBSET Jobs
  BY <1>1 DEF TellInv, ClientType, Submit, JobStates
<1>3. EndsKept' BY <1>1 DEF TellInv, ClientType, EndsKept, Submit, Ends
<1>4. began' = began \/ (began' = began \cup {client.j} /\ job'[client.j] = "running")
  BY <1>1 DEF TellInv, ClientType, Submit
<1>5. ASSUME UNCHANGED result, client'.j = client.j, client'.pc \notin {"idle", "ack"}
      PROVE  TellInv'
  <2>1. ClientType' BY <1>1, <1>2, <1>5 DEF TellInv, ClientType
  <2>2. BegunForItsCall' BY <1>1, <1>4, <1>5 DEF TellInv, BegunForItsCall
  <2>3. EndsToldTruly' BY <1>1, <1>4, <1>5 DEF TellInv, EndsToldTruly
  <2>4. QED BY <1>3, <2>1, <2>2, <2>3 DEF TellInv
<1>6. ASSUME Give("refused"), job'[client.j] # "running"
      PROVE  TellInv'
  <2>1. began' = began BY <1>4, <1>6
  <2>2. ClientType' BY <1>1, <1>2, <1>6 DEF TellInv, ClientType, Give
  <2>3. BegunForItsCall' BY <1>1, <1>6, <2>1 DEF TellInv, ClientType, BegunForItsCall, Give
  <2>4. EndsToldTruly' BY <1>1, <1>6, <2>1 DEF TellInv, ClientType, EndsToldTruly, Give, Ends
  <2>5. QED BY <1>3, <2>2, <2>3, <2>4 DEF TellInv
<1>7. QED BY <1>5, <1>6

LEMMA TellStep ==
    ASSUME TellInv, JavaNext
    PROVE  TellInv'
<1>0. client = [pc |-> client.pc, j |-> client.j, up |-> client.up] BY DEF TellInv, ClientType
<1>1. ASSUME NEW j \in Jobs, Finished(j) PROVE TellInv'
  <2>1. PICK e \in Ends : job' = [job EXCEPT ![j] = e] /\ ended' = [ended EXCEPT ![j] = e]
    BY <1>1 DEF Finished
  <2>2. QED BY <1>1, <2>1, ActionEnds DEF Finished
<1>2. ASSUME NEW j \in Jobs, Forgets(j) PROVE TellInv'
  BY <1>2 DEF Forgets, TellInv, ClientType, EndsKept, BegunForItsCall, EndsToldTruly, JobStates, Ends
<1>3. ASSUME NEW j \in Jobs, Propose(j) PROVE TellInv'
  BY <1>0, <1>3, GoesOn DEF Propose
<1>4. ASSUME NEW j \in Jobs, Dispatch(j) PROVE TellInv'
  <2>1. client.pc = "idle" /\ result[j] = "none" /\ j \notin began
    BY <1>4 DEF Dispatch, TellInv, BegunForItsCall
  <2>2. UNCHANGED <<job, began, ended, pushed>> BY <1>4 DEF Dispatch, Still, mod
  <2>3. CASE client' = [pc |-> "ack", j |-> j, up |-> TRUE] /\ UNCHANGED result
    BY <2>1, <2>2, <2>3 DEF TellInv, ClientType, EndsKept, BegunForItsCall, EndsToldTruly
  <2>4. CASE client' = client /\ result' = [result EXCEPT ![j] = "unsent"]
    BY <2>1, <2>2, <2>4 DEF TellInv, ClientType, EndsKept, BegunForItsCall, EndsToldTruly, Ends
  <2>5. QED BY <1>4, <2>3, <2>4 DEF Dispatch, Objective
<1>5. CASE interrupt_body
  <2>1. PICK j \in Jobs : /\ job[j] = "running" /\ job' = [job EXCEPT ![j] = "failed"]
                          /\ ended' = [ended EXCEPT ![j] = "failed"]
                          /\ pushed' = IF client.up THEN pushed \cup {j} ELSE pushed
    BY <1>5 DEF interrupt_body
  <2>2. QED BY <1>5, <2>1, ActionEnds DEF interrupt_body, Ends
<1>6. CASE Break \/ NotBroken
  BY <1>0, <1>6, GoesOn DEF Break, NotBroken
<1>7. CASE Restarts
  BY <1>7 DEF Restarts, TellInv, ClientType, EndsKept, BegunForItsCall, EndsToldTruly, JobStates, Ends
<1>8. CASE Drops
  BY <1>0, <1>8, GoesOn DEF Drops
<1>9. CASE Acknowledged
  <2>1. client' = [pc |-> client'.pc, j |-> client'.j, up |-> client'.up]
    BY <1>0, <1>9 DEF Acknowledged, Step, Give
  <2>2. client.pc = "ack" /\ Submit(client.j) /\ UNCHANGED <<ended, pushed>> BY <1>9 DEF Acknowledged
  <2>3. CASE Step("await") BY <1>0, <2>1, <2>2, <2>3, SubmitBegins DEF Step
  <2>4. CASE Give("refused") /\ job'[client.j] # "running" BY <2>1, <2>2, <2>4, SubmitBegins
  <2>5. QED BY <1>9, <2>3, <2>4 DEF Acknowledged
<1>10. CASE AckLost
  <2>1. /\ client.pc = "ack" /\ (Submit(client.j) \/ UNCHANGED <<job, began>>)
        /\ UNCHANGED <<ended, result>> /\ pushed' = {}
        /\ client' = [client EXCEPT !.pc = "reconcile", !.up = FALSE]
    BY <1>10 DEF AckLost
  <2>2. /\ client' = [pc |-> client'.pc, j |-> client'.j, up |-> client'.up]
        /\ client'.j = client.j /\ client'.pc \notin {"idle", "ack"}
    BY <1>0, <2>1
  <2>3. QED BY <2>1, <2>2, SubmitBegins
<1>11. CASE TerminalEvent
  BY <1>11, EndedTrue DEF TerminalEvent, TellInv, ClientType, EndsKept
<1>12. CASE TerminalQueried
  <2>1. client.pc \notin {"idle", "ack"} BY <1>12 DEF TerminalQueried, Awaiting
  <2>2. QED BY <1>12, <2>1, EndedTrue DEF TerminalQueried, TellInv, ClientType, EndsKept
<1>13. CASE QueriedUnknown
  BY <1>0, <1>13, GoesOn DEF QueriedUnknown, Step, Still, mod
<1>14. CASE WaitCut
  <2>1. CASE Step("reconcile") BY <1>0, <1>14, <2>1, GoesOn DEF WaitCut, Step, Still, mod
  <2>2. CASE Give("unknown") BY <1>14, <2>2, GiveTrue DEF WaitCut, Still, mod, Ends
  <2>3. QED BY <1>14, <2>1, <2>2 DEF WaitCut
<1>15. CASE Deadline
  <2>1. CASE Step("cancel") BY <1>0, <1>15, <2>1, GoesOn DEF Deadline, Awaiting, Step, Still, mod
  <2>2. ASSUME NEW e \in {"unknown", "timeout"}, Give(e) PROVE TellInv'
    BY <1>15, <2>2, GiveTrue DEF Deadline, Awaiting, Still, mod, Ends
  <2>3. QED BY <1>15, <2>1, <2>2 DEF Deadline
<1>16. CASE Reconcile
  <2>1. CASE Give("unknown") /\ Still BY <1>16, <2>1, GiveTrue DEF Reconcile, Still, mod, Ends
  <2>2. CASE job[client.j] \in Ends /\ Ended(client.j, job[client.j])
    BY <1>16, <2>2, EndedTrue DEF Reconcile, TellInv, ClientType, EndsKept
  <2>3. CASE client' = [client EXCEPT !.pc = "again", !.up = TRUE] /\ UNCHANGED result /\ Still
    BY <1>0, <1>16, <2>3, GoesOn DEF Reconcile, Still, mod
  <2>4. QED BY <1>16, <2>1, <2>2, <2>3 DEF Reconcile
<1>17. CASE Cancel
  <2>1. CASE Give("timeout") /\ Still BY <1>17, <2>1, GiveTrue DEF Cancel, Still, mod, Ends
  <2>2. CASE job[client.j] \in Ends /\ Ended(client.j, job[client.j])
    BY <1>17, <2>2, EndedTrue DEF Cancel, TellInv, ClientType, EndsKept
  <2>3. CASE Step("canceled") /\ Still BY <1>0, <1>17, <2>3, GoesOn DEF Cancel, Step, Still, mod
  <2>4. QED BY <1>17, <2>1, <2>2, <2>3 DEF Cancel
<1>18. CASE _answer_proposal
  BY <1>0, <1>18, GoesOn DEF _answer_proposal
<1>19. ASSUME UNCHANGED javaVars PROVE TellInv'
  BY <1>0, <1>19, GoesOn DEF javaVars
<1>20. QED
  BY <1>1, <1>2, <1>3, <1>4, <1>5, <1>6, <1>7, <1>8, <1>9, <1>10, <1>11, <1>12, <1>13, <1>14,
     <1>15, <1>16, <1>17, <1>18, <1>19
     DEF JavaNext, ObserveDeath, ObservePillar, AgentConfirms, Elsewhere

(* The caller is told how its action ended or that this is not known,      *)
(* however often the connection breaks and the server forgets or restarts: *)
(* _await_terminal, _reconcile_after_drop, _cancel_and_reconcile_deadline. *)
THEOREM ToldTrulyAlways == JavaSpec => []EndsToldTruly
<1>1. TellInv /\ UNCHANGED <<javaVars, govVars>> => TellInv'
  BY DEF TellInv, ClientType, EndsKept, BegunForItsCall, EndsToldTruly, javaVars
<1>2. TellInv /\ [JavaNext]_<<javaVars, govVars>> => TellInv' BY <1>1, TellStep
<1>3. TellInv => EndsToldTruly BY DEF TellInv
<1>4. QED BY <1>2, <1>3, TellInit, PTL DEF JavaSpec

\* ----- what the Agent has confirmed --------------------------------------

Epochs == Nat \X Nat
ChallengeSet == [id : Nat, place : Places, ctx : Contexts, epoch : Epochs, dead : Int, jobs : SUBSET (Jobs \cup {NoJob})]
PermitSet == [id : Nat, place : Places, ctx : Contexts, epoch : Epochs, dead : Int, used : SUBSET Places]
ConfirmationSet == [id : Nat, place : Places, ctx : Contexts, epoch : Epochs, dead : Int]
ProposalSet == [job : Jobs \cup {NoJob}, place : Places \cup {NoJob}, ctx : Contexts \cup {NoJob},
                verdict : {"none", "allow", "deny"}]

GovType ==
    /\ challenges \subseteq ChallengeSet /\ permits \subseteq PermitSet
    /\ confirmed \subseteq ConfirmationSet /\ IsFiniteSet(confirmed)
    /\ conf \in Nat /\ scope \in {0, 1} /\ now \in Nat /\ issued \in Nat
    /\ asked \in ProposalSet
    /\ asked.job # NoJob => asked.place \in Places /\ asked.ctx \in Contexts

GrantedTo(id) == {g.place : g \in {h \in granted : h.id = id}}

(* A confirmation is known by its number.                                  *)
Numbered ==
    /\ \A x \in confirmed : x.id \in 1..Cardinality(confirmed)
    /\ \A x, y \in confirmed : x.id = y.id => x = y

(* A permit is a confirmation with a count of what was broken under it,    *)
(* and the count is right.                                                 *)
Confirms(x, y) == x.id = y.id /\ x.epoch = y.epoch /\ x.ctx = y.ctx /\ x.place = y.place /\ x.dead = y.dead
PermitsConfirmed == \A y \in permits : \E x \in confirmed : Confirms(x, y)
PermitsApart == \A y, z \in permits : y.id = z.id => y = z
UsedCounted ==
    \A y \in permits :
        y.used = GrantedTo(y.id) /\ IsFiniteSet(y.used) /\ Cardinality(y.used) <= MaxUnique[y.ctx]

Confirmed(g, x) ==
    /\ x.id = g.id /\ x.epoch = g.epoch /\ x.ctx = g.ctx /\ g.at < x.dead
    /\ g.place \in Region[x.ctx][x.place] /\ Type[g.place] = Type[x.place]
GrantedConfirmed == \A g \in granted : \E x \in confirmed : Confirmed(g, x)
WithinBounds == \A x \in confirmed : Cardinality(GrantedTo(x.id)) <= MaxUnique[x.ctx]

PermitInv ==
    GovType /\ Numbered /\ PermitsConfirmed /\ PermitsApart /\ UsedCounted /\ GrantedConfirmed /\ WithinBounds

LEMMA PermitInvConfirms == PermitInv => ConfirmedOnly
BY DEF PermitInv, GrantedConfirmed, WithinBounds, ConfirmedOnly, Confirmed, GrantedTo

LEMMA PermitInit == JavaInit /\ GovInit => PermitInv
<1>1. IsFiniteSet({}) BY FS_EmptySet
<1>2. QED
  BY <1>1 DEF JavaInit, GovInit, PermitInv, GovType, Numbered, PermitsConfirmed, PermitsApart, UsedCounted,
     GrantedConfirmed, WithinBounds, ProposalSet, NoProposal, NoJob

\* A set of numbers has a least one.
LEMMA LeastNumber ==
    ASSUME NEW T, T \subseteq Nat, T # {}
    PROVE  \E x \in T : \A y \in T : x <= y
<1>1. PICK x \in T : \A y \in T : ~(<<y, x>> \in OpToRel(<, Nat))
  BY NatLessThanWellFounded, WFMin
<1>2. ASSUME NEW y \in T PROVE x <= y
  <2>1. ~(<<y, x>> \in OpToRel(<, Nat)) BY <1>1
  <2>2. ~(y < x) BY <2>1 DEF OpToRel
  <2>3. QED BY <2>2
<1>3. QED BY <1>2

LEMMA OldestIn ==
    ASSUME NEW S, S # {}, \A x \in S : x.id \in Nat
    PROVE  Oldest(S) \in S
<1>1. PICK n \in {x.id : x \in S} : \A m \in {x.id : x \in S} : n <= m
  BY LeastNumber
<1>2. \E x \in S : \A y \in S : x.id <= y.id BY <1>1
<1>3. QED BY <1>2 DEF Oldest

(* Permits and challenges may be dropped, and the tables of the governance *)
(* may change, without a confirmation being exceeded.                      *)
LEMMA NothingGranted ==
    ASSUME PermitInv, permits' \subseteq permits, UNCHANGED <<confirmed, granted>>, GovType'
    PROVE  PermitInv'
<1>1. Numbered' /\ WithinBounds' /\ GrantedConfirmed'
  BY DEF PermitInv, Numbered, WithinBounds, GrantedConfirmed, GrantedTo, Confirmed
<1>2. PermitsConfirmed' /\ PermitsApart' BY DEF PermitInv, PermitsConfirmed, PermitsApart, Confirms
<1>3. UsedCounted' BY DEF PermitInv, UsedCounted, GrantedTo
<1>4. QED BY <1>1, <1>2, <1>3 DEF PermitInv

\* The governance is left alone, whatever the connection does.
LEMMA GovUntouched ==
    ASSUME PermitInv, UNCHANGED govVars, asked' \in ProposalSet,
           asked'.job # NoJob => asked'.place \in Places /\ asked'.ctx \in Contexts
    PROVE  PermitInv'
<1>1. GovType' BY DEF PermitInv, GovType, govVars
<1>2. QED BY <1>1, NothingGranted DEF govVars

LEMMA AuthorizeWithin ==
    ASSUME PermitInv, NEW p \in Places, NEW ctx \in Contexts, Usable(p, ctx) # {}, Authorize(p, ctx),
           UNCHANGED authority, GovType'
    PROVE  PermitInv'
<1> DEFINE x == Oldest(Usable(p, ctx))
           z == [x EXCEPT !.used = @ \cup {p}]
           g == [id |-> x.id, place |-> p, ctx |-> ctx, at |-> now, epoch |-> _current_confirmation_epoch]
<1>1. x \in permits /\ x \in Usable(p, ctx)
  <2>1. \A y \in Usable(p, ctx) : y.id \in Nat BY DEF PermitInv, GovType, PermitSet, Usable, Live
  <2>2. x \in Usable(p, ctx) BY <2>1, OldestIn
  <2>3. QED BY <2>2 DEF Usable, Live
<1>2. x \in PermitSet BY <1>1 DEF PermitInv, GovType
<1>3. /\ x.dead > now /\ x.epoch = _current_confirmation_epoch /\ x.ctx = ctx
      /\ Type[p] = Type[x.place] /\ p \in Region[x.ctx][x.place]
      /\ p \in x.used \/ Cardinality(x.used) < MaxUnique[x.ctx]
  BY <1>1 DEF Usable, Live, Covers, HasRoom
<1>4. permits' \subseteq (permits \ {x}) \cup {z} /\ granted' = granted \cup {g} /\ confirmed' = confirmed
  BY DEF Authorize, Live, authority
<1>5. /\ z.id = x.id /\ z.epoch = x.epoch /\ z.ctx = x.ctx /\ z.place = x.place /\ z.dead = x.dead
      /\ z.used = x.used \cup {p}
  BY <1>2 DEF PermitSet
<1>6. g.id = x.id /\ g.place = p /\ g.ctx = ctx /\ g.at = now /\ g.epoch = x.epoch BY <1>3
<1>7. \A y \in permits : y.id = x.id => y = x BY <1>1 DEF PermitInv, PermitsApart
<1>8. PICK c \in confirmed : Confirms(c, x) BY <1>1 DEF PermitInv, PermitsConfirmed
<1>9. IsFiniteSet(x.used) /\ Cardinality(x.used) <= MaxUnique[x.ctx] /\ x.used = GrantedTo(x.id)
  BY <1>1 DEF PermitInv, UsedCounted
<1> HIDE DEF x, z, g
<1>10. \A id : GrantedTo(id)' = IF id = x.id THEN GrantedTo(id) \cup {p} ELSE GrantedTo(id)
  BY <1>4, <1>6 DEF GrantedTo
<1>11. IsFiniteSet(z.used) /\ Cardinality(z.used) <= MaxUnique[x.ctx]
  <2>1. IsFiniteSet(x.used \cup {p}) BY <1>9, FS_AddElement
  <2>2. Cardinality(x.used \cup {p}) = IF p \in x.used THEN Cardinality(x.used) ELSE Cardinality(x.used) + 1
    BY <1>9, FS_AddElement
  <2>3. Cardinality(x.used) \in Nat BY <1>9, FS_CardinalityType
  <2>4. MaxUnique[x.ctx] \in Nat BY <1>2, GovernanceAssumption DEF PermitSet
  <2>5. QED BY <1>3, <1>5, <1>9, <2>1, <2>2, <2>3, <2>4
<1>12. Numbered' BY <1>4 DEF PermitInv, Numbered
<1>13. PermitsConfirmed' BY <1>4, <1>5, <1>8 DEF PermitInv, PermitsConfirmed, Confirms
<1>14. PermitsApart' BY <1>4, <1>5, <1>7 DEF PermitInv, PermitsApart
<1>15. UsedCounted'
  <2>1. SUFFICES ASSUME NEW y \in permits'
                 PROVE  y.used = GrantedTo(y.id)' /\ IsFiniteSet(y.used) /\ Cardinality(y.used) <= MaxUnique[y.ctx]
    BY DEF UsedCounted
  <2>2. CASE y = z BY <1>5, <1>9, <1>10, <1>11, <2>2
  <2>3. CASE y \in permits /\ y # x BY <1>7, <1>10, <2>3 DEF PermitInv, UsedCounted
  <2>4. QED BY <1>4, <2>1, <2>2, <2>3
<1>16. GrantedConfirmed'
  <2>1. now < c.dead
    BY <1>2, <1>3, <1>8 DEF Confirms, PermitInv, GovType, PermitSet
  <2>2. Confirmed(g, c) BY <1>3, <1>6, <1>8, <2>1 DEF Confirms, Confirmed
  <2>3. QED BY <1>4, <2>2 DEF PermitInv, GrantedConfirmed, Confirmed
<1>17. WithinBounds'
  <2>1. SUFFICES ASSUME NEW y \in confirmed
                 PROVE  Cardinality(GrantedTo(y.id)') <= MaxUnique[y.ctx]
    BY <1>4 DEF WithinBounds
  <2>2. CASE y.id = x.id
    <3>1. y = c BY <1>8, <2>2 DEF PermitInv, Numbered, Confirms
    <3>2. GrantedTo(y.id)' = z.used BY <1>5, <1>9, <1>10, <2>2
    <3>3. QED BY <1>8, <1>11, <3>1, <3>2 DEF Confirms
  <2>3. CASE y.id # x.id BY <1>10, <2>3 DEF PermitInv, WithinBounds
  <2>4. QED BY <2>2, <2>3
<1>18. QED BY <1>12, <1>13, <1>14, <1>15, <1>16, <1>17 DEF PermitInv

LEMMA ConfirmWithin ==
    ASSUME PermitInv, NEW x, confirm_scope(x), UNCHANGED asked
    PROVE  PermitInv'
<1> DEFINE n == Cardinality(confirmed) + 1
           c == [id |-> n, place |-> x.place, ctx |-> x.ctx, epoch |-> x.epoch, dead |-> x.dead]
           y == [id |-> n, place |-> x.place, ctx |-> x.ctx, epoch |-> x.epoch, dead |-> x.dead, used |-> {}]
<1>1. x \in ChallengeSet BY DEF confirm_scope, Live, PermitInv, GovType
<1>2. Cardinality(confirmed) \in Nat /\ n \in Nat BY FS_CardinalityType DEF PermitInv, GovType
<1>3. c \in ConfirmationSet /\ y \in PermitSet BY <1>1, <1>2 DEF ChallengeSet, ConfirmationSet, PermitSet
<1>4. /\ permits' \subseteq permits \cup {y} /\ confirmed' = confirmed \cup {c}
      /\ challenges' \subseteq challenges
      /\ UNCHANGED <<placements, conf, scope, now, issued, granted>>
  BY DEF confirm_scope, Live
<1>5. Confirms(c, y) /\ y.id = n /\ y.used = {} /\ c.id = n /\ y.ctx = x.ctx /\ c.ctx = x.ctx BY DEF Confirms
<1> HIDE DEF c, y
<1>6. c \notin confirmed BY <1>2, <1>5 DEF PermitInv, Numbered, n
<1>7. IsFiniteSet(confirmed') /\ Cardinality(confirmed') = n
  BY <1>4, <1>6, FS_AddElement DEF PermitInv, GovType, n
<1>8. GrantedTo(n) = {}
  <2>1. ASSUME NEW g \in granted PROVE g.id # n
    BY <1>2 DEF PermitInv, GrantedConfirmed, Confirmed, Numbered, n
  <2>2. QED BY <2>1 DEF GrantedTo
<1>9. \A id : GrantedTo(id)' = GrantedTo(id) BY <1>4 DEF GrantedTo
<1>10. MaxUnique[x.ctx] \in Nat BY <1>1, GovernanceAssumption DEF ChallengeSet
<1>11. GovType' BY <1>3, <1>4, <1>7 DEF PermitInv, GovType
<1>12. Numbered'
  <2>1. \A z \in confirmed : z.id \in 1..n /\ z.id # n BY <1>2 DEF PermitInv, Numbered, n
  <2>2. c.id \in 1..n BY <1>2, <1>5 DEF n
  <2>3. QED BY <1>4, <1>5, <1>7, <2>1, <2>2 DEF PermitInv, Numbered
<1>13. PermitsConfirmed' BY <1>4, <1>5 DEF PermitInv, PermitsConfirmed
<1>14. \A z \in permits : z.id # n
  BY <1>2 DEF PermitInv, PermitsConfirmed, Confirms, Numbered, n
<1>15. PermitsApart' BY <1>4, <1>5, <1>14 DEF PermitInv, PermitsApart
<1>16. UsedCounted'
  <2>1. IsFiniteSet(y.used) /\ Cardinality(y.used) = 0 BY <1>5, FS_EmptySet
  <2>2. SUFFICES ASSUME NEW z \in permits'
                 PROVE  z.used = GrantedTo(z.id)' /\ IsFiniteSet(z.used) /\ Cardinality(z.used) <= MaxUnique[z.ctx]
    BY DEF UsedCounted
  <2>3. CASE z = y
    <3>1. z.used = GrantedTo(z.id)' BY <1>5, <1>8, <1>9, <2>3
    <3>2. QED BY <1>5, <1>10, <2>1, <2>3, <3>1
  <2>4. CASE z \in permits BY <1>9, <2>4 DEF PermitInv, UsedCounted
  <2>5. QED BY <1>4, <2>3, <2>4
<1>17. GrantedConfirmed' BY <1>4 DEF PermitInv, GrantedConfirmed, Confirmed
<1>18. WithinBounds'
  <2>1. Cardinality(GrantedTo(c.id)) = 0 BY <1>5, <1>8, FS_EmptySet
  <2>2. SUFFICES ASSUME NEW z \in confirmed'
                 PROVE  Cardinality(GrantedTo(z.id)') <= MaxUnique[z.ctx]
    BY DEF WithinBounds
  <2>3. CASE z = c
    <3>1. Cardinality(GrantedTo(z.id)') = 0 BY <1>9, <2>1, <2>3
    <3>2. QED BY <1>5, <1>10, <2>3, <3>1
  <2>4. CASE z \in confirmed BY <1>9, <2>4 DEF PermitInv, WithinBounds
  <2>5. QED BY <1>4, <2>3, <2>4
<1>19. QED BY <1>11, <1>12, <1>13, <1>15, <1>16, <1>17, <1>18 DEF PermitInv

LEMMA ChallengeWithin ==
    ASSUME PermitInv, NEW p \in Places, NEW ctx \in Contexts, NEW j \in Jobs \cup {NoJob},
           Challenge(p, ctx, j), UNCHANGED authority, asked' \in ProposalSet,
           asked'.job # NoJob => asked'.place \in Places /\ asked'.ctx \in Contexts
    PROVE  PermitInv'
<1> DEFINE open == {x \in Live(challenges) : Covers(x, p, ctx)}
           old == Oldest(open)
           joined == [old EXCEPT !.jobs = @ \cup {j}]
           new == [id |-> issued + 1, place |-> p, ctx |-> ctx, epoch |-> _current_confirmation_epoch,
                   dead |-> now + TTL, jobs |-> {j}]
<1>1. permits' \subseteq permits /\ UNCHANGED <<granted, confirmed, conf, scope, now>>
  BY DEF Challenge, Live, authority
<1>2. Live(challenges) \subseteq ChallengeSet BY DEF PermitInv, GovType, Live
<1>3. issued' \in Nat /\ challenges' \subseteq ChallengeSet
  <2>1. CASE open # {}
    <3>1. \A x \in open : x.id \in Nat BY <1>2 DEF ChallengeSet
    <3>2. old \in open BY <2>1, <3>1, OldestIn
    <3>3. old \in ChallengeSet BY <1>2, <3>2
    <3> HIDE DEF old
    <3>4. joined \in ChallengeSet BY <3>3 DEF ChallengeSet
    <3>5. challenges' = (Live(challenges) \ {old}) \cup {joined} /\ issued' = issued
      BY <2>1 DEF Challenge, old
    <3> HIDE DEF joined
    <3>6. QED BY <1>2, <3>4, <3>5 DEF PermitInv, GovType
  <2>2. CASE open = {}
    <3>1. challenges' = Live(challenges) \cup {new} /\ issued' = issued + 1 BY <2>2 DEF Challenge
    <3>2. issued + 1 \in Nat /\ now + TTL \in Int BY GovernanceAssumption DEF PermitInv, GovType
    <3>3. _current_confirmation_epoch \in Epochs BY DEF PermitInv, GovType, Epochs, _current_confirmation_epoch
    <3>4. new \in ChallengeSet BY <3>2, <3>3 DEF ChallengeSet
    <3>5. QED BY <1>2, <3>1, <3>2, <3>4
  <2>3. QED BY <2>1, <2>2
<1>4. GovType' BY <1>1, <1>3 DEF PermitInv, GovType
<1>5. QED BY <1>1, <1>4, NothingGranted

(* can_break, with the answer that goes back to the server.                *)
LEMMA AnswerWithin ==
    ASSUME PermitInv, _answer_proposal
    PROVE  PermitInv'
<1>1. /\ asked.job \in Jobs \cup {NoJob} /\ asked.place \in Places /\ asked.ctx \in Contexts
      /\ asked.job # NoJob
  BY DEF _answer_proposal, PermitInv, GovType, ProposalSet
<1>2. PICK same, complete \in BOOLEAN :
        /\ can_break(asked.place, asked.ctx, asked.job, same, complete)
        /\ asked' = [asked EXCEPT !.verdict = verdict(asked.place, asked.ctx, same, complete)]
  BY DEF _answer_proposal
<1>3. asked' \in ProposalSet /\ asked'.place = asked.place /\ asked'.ctx = asked.ctx
  BY <1>2 DEF PermitInv, GovType, ProposalSet, verdict
<1>4. UNCHANGED authority BY <1>2 DEF can_break
<1>5. CASE UNCHANGED <<challenges, permits, granted, issued>>
  BY <1>1, <1>3, <1>4, <1>5, GovUntouched DEF authority, govVars
<1>6. CASE Usable(asked.place, asked.ctx) # {} /\ Authorize(asked.place, asked.ctx)
  <2>1. GovType'
    <3> DEFINE x == Oldest(Usable(asked.place, asked.ctx))
               z == [x EXCEPT !.used = @ \cup {asked.place}]
    <3>1. \A y \in Usable(asked.place, asked.ctx) : y.id \in Nat
      BY DEF PermitInv, GovType, PermitSet, Usable, Live
    <3>2. x \in Usable(asked.place, asked.ctx) BY <1>6, <3>1, OldestIn
    <3>3. x \in PermitSet BY <3>2 DEF Usable, Live, PermitInv, GovType
    <3> HIDE DEF x
    <3>4. z \in PermitSet BY <1>1, <3>3 DEF PermitSet
    <3>5. permits' \subseteq permits \cup {z} BY <1>6 DEF Authorize, Live, x
    <3>6. challenges' \subseteq challenges /\ issued' = issued BY <1>6 DEF Authorize, Live
    <3> HIDE DEF z
    <3>7. QED BY <1>1, <1>3, <1>4, <3>4, <3>5, <3>6 DEF PermitInv, GovType, authority
  <2>2. QED BY <1>1, <1>4, <1>6, <2>1, AuthorizeWithin
<1>7. CASE Challenge(asked.place, asked.ctx, asked.job)
  BY <1>1, <1>3, <1>4, <1>7, ChallengeWithin
<1>8. QED BY <1>2, <1>5, <1>6, <1>7 DEF can_break

\* The challenges lose names, or go.
LEMMA DismissWithin ==
    ASSUME PermitInv, NEW j, dismiss_action_confirmations(j), UNCHANGED asked
    PROVE  PermitInv'
<1>1. challenges' \subseteq ChallengeSet
  <2>1. SUFFICES ASSUME NEW x \in challenges', x \notin challenges PROVE x \in ChallengeSet
    BY DEF PermitInv, GovType
  <2>2. PICK y \in challenges : x = [y EXCEPT !.jobs = @ \ {j}]
    BY <2>1 DEF dismiss_action_confirmations
  <2>3. y \in ChallengeSet BY DEF PermitInv, GovType
  <2>4. QED BY <2>2, <2>3 DEF ChallengeSet
<1>2. GovType' BY <1>1 DEF PermitInv, GovType, dismiss_action_confirmations
<1>3. QED BY <1>2, NothingGranted DEF dismiss_action_confirmations

LEMMA EndedWithin ==
    ASSUME PermitInv, NEW j, NEW e, Ended(j, e)
    PROVE  PermitInv'
<1>1. UNCHANGED asked BY DEF Ended
<1>2. CASE UNCHANGED govVars BY <1>1, <1>2, GovUntouched DEF PermitInv, GovType
<1>3. QED BY <1>1, <1>2, DismissWithin DEF Ended

LEMMA PermitStep ==
    ASSUME PermitInv, JavaNext
    PROVE  PermitInv'
<1>0. asked \in ProposalSet /\ (asked.job # NoJob => asked.place \in Places /\ asked.ctx \in Contexts)
  BY DEF PermitInv, GovType
<1>1. NoProposal \in ProposalSet /\ NoProposal.job = NoJob BY DEF NoProposal, ProposalSet
<1>2. ASSUME UNCHANGED govVars, asked' \in {asked, NoProposal} PROVE PermitInv'
  BY <1>0, <1>1, <1>2, GovUntouched
<1>3. ASSUME NEW j \in Jobs, Propose(j) PROVE PermitInv'
  <2>1. PICK p \in Places \ broken, ctx \in Contexts :
          asked' = [job |-> j, place |-> p, ctx |-> ctx, verdict |-> "none"]
    BY <1>3 DEF Propose
  <2>2. UNCHANGED govVars BY <1>3 DEF Propose
  <2>3. asked' \in ProposalSet /\ asked'.place \in Places /\ asked'.ctx \in Contexts
    BY <2>1 DEF ProposalSet
  <2>4. QED BY <2>2, <2>3, GovUntouched
<1>4. ASSUME NEW j \in Jobs, Finished(j) \/ Forgets(j) \/ Dispatch(j) PROVE PermitInv'
  BY <1>2, <1>4 DEF Finished, Forgets, Dispatch, Still, mod
<1>5. CASE interrupt_body \/ Break \/ NotBroken \/ Restarts \/ Drops
  BY <1>2, <1>5 DEF interrupt_body, Break, NotBroken, Restarts, Drops
<1>6. CASE Acknowledged \/ AckLost \/ QueriedUnknown \/ WaitCut \/ Deadline
  BY <1>2, <1>6 DEF Acknowledged, AckLost, QueriedUnknown, WaitCut, Deadline, Still, mod
<1>7. CASE TerminalEvent \/ TerminalQueried BY <1>7, EndedWithin DEF TerminalEvent, TerminalQueried
<1>8. CASE Reconcile BY <1>2, <1>8, EndedWithin DEF Reconcile, Still, mod
<1>9. CASE Cancel BY <1>2, <1>9, EndedWithin DEF Cancel, Still, mod
<1>10. CASE _answer_proposal BY <1>10, AnswerWithin
<1>11. CASE ObserveDeath
  <2>1. GovType' BY <1>11 DEF ObserveDeath, invalidate_confirmation_state, PermitInv, GovType, javaVars
  <2>2. QED BY <1>11, <2>1, NothingGranted DEF ObserveDeath, invalidate_confirmation_state
<1>12. ASSUME NEW p \in Places, ObservePillar(p) PROVE PermitInv'
  <2>1. GovType' BY <1>12 DEF ObservePillar, record_bot_placement, PermitInv, GovType, javaVars
  <2>2. QED BY <1>12, <2>1, NothingGranted DEF ObservePillar, record_bot_placement
<1>13. ASSUME NEW x \in challenges, AgentConfirms(x) PROVE PermitInv'
  BY <1>13, ConfirmWithin DEF AgentConfirms, javaVars
<1>14. CASE Elsewhere
  <2>1. UNCHANGED <<challenges, permits, conf, issued, confirmed, granted, asked>>
    BY <1>14 DEF Elsewhere, TaskChanges, TimePasses, javaVars
  <2>2. scope' \in {0, 1} /\ now' \in Nat
    BY <1>14 DEF Elsewhere, TaskChanges, TimePasses, PermitInv, GovType
  <2>3. GovType' BY <2>1, <2>2 DEF PermitInv, GovType
  <2>4. QED BY <2>1, <2>3, NothingGranted
<1>15. QED
  BY <1>3, <1>4, <1>5, <1>6, <1>7, <1>8, <1>9, <1>10, <1>11, <1>12, <1>13, <1>14 DEF JavaNext

(* A block that might belong to a structure is broken only under a permit  *)
(* confirmed for the same task, life, context and kind of block, before    *)
(* its deadline, and never more blocks than the permit says: can_break,    *)
(* confirm_scope and _authorize_from_confirmed_scope, for any sequence of  *)
(* proposals, confirmations, deaths and changes of task.                   *)
THEOREM ConfirmedOnlyAlways == JavaSpec => []ConfirmedOnly
<1>1. PermitInv /\ UNCHANGED <<javaVars, govVars>> => PermitInv'
  BY GovUntouched DEF PermitInv, GovType, javaVars
<1>2. PermitInv /\ [JavaNext]_<<javaVars, govVars>> => PermitInv' BY <1>1, PermitStep
<1>3. QED BY <1>2, PermitInit, PermitInvConfirms, PTL DEF JavaSpec
=============================================================================
