---------------------------- MODULE Governance ----------------------------
(* Which blocks the Body may break (game/governance.py).  Most questions   *)
(* are settled by tables; a block that might belong to a structure is      *)
(* broken only under a permit: the Agent confirms a challenge, and the     *)
(* permit covers one kind of block in one region, for one task and for a   *)
(* limited number of blocks and time.                                      *)
EXTENDS Integers, FiniteSets

CONSTANTS
    Places,      \* the blocks
    Type,        \* Place -> "crop", "strong", "target", "terrain" or "made"
    Natural,     \* the places in a declared natural region
    Protected,   \* the places in a protected region
    Level,       \* Place -> "low", "ambiguous" or "high": the structure risk
    Contexts,    \* the contexts of a break
    Region,      \* Context and place -> the places in the region of a challenge about it
    MaxUnique,   \* Context -> the blocks a permit covers
    TTL,         \* how long a challenge and its permit live
    MaxNow, MaxConf, MaxChallenges

ASSUME GovernanceAssumption ==
    /\ Region \in [Contexts -> [Places -> SUBSET Places]]
    /\ MaxUnique \in [Contexts -> Nat] /\ TTL \in Nat /\ MaxNow \in Nat /\ MaxConf \in Nat /\ MaxChallenges \in Nat

VARIABLES
    challenges,  \* _pending_challenges
    permits,     \* _active_permits
    placements,  \* bot_placements: places with a temporary block of the Body
    conf,        \* _confirmation_epoch
    scope,       \* the current task, as _confirmation_scope tells it
    now,         \* the clock
    issued,      \* challenges put so far
    confirmed,   \* history: the challenges that were confirmed
    granted      \* history: the breaks that were allowed under a permit

govVars == <<challenges, permits, placements, conf, scope, now, issued, confirmed, granted>>
authority == <<placements, conf, scope, now, confirmed>>

GovInit ==
    /\ challenges = {} /\ permits = {} /\ placements = {}
    /\ conf = 0 /\ scope = 0 /\ now = 0 /\ issued = 0
    /\ confirmed = {} /\ granted = {}

_current_confirmation_epoch == <<conf, scope>>

(* _prune_confirmation_state                                               *)
Live(S) == {x \in S : x.dead > now /\ x.epoch = _current_confirmation_epoch}

Covers(x, p, ctx) ==
    /\ x.epoch = _current_confirmation_epoch /\ x.ctx = ctx
    /\ Type[p] = Type[x.place] /\ p \in Region[x.ctx][x.place]

\* A block of the Body's own: the same kind of block it has put there, for a while.
_can_break_bot_owned(same) == IF same THEN "allow" ELSE "deny"

_assess_structure_risk(p) == Level[p]

(* The tables of can_break: a definite answer, or the risk decides.        *)
Ruling(p, ctx, same) ==
    CASE p \in Protected -> "deny"
      [] p \notin Protected /\ p \in placements -> _can_break_bot_owned(same)
      [] p \notin Protected \cup placements /\ ctx = "farm" /\ Type[p] = "crop" ->
            IF p \in Natural THEN "allow" ELSE "deny"
      [] p \notin Protected \cup placements /\ ~(ctx = "farm" /\ Type[p] = "crop") ->
            IF \/ Type[p] \notin {"target", "terrain"}
               \/ p \notin Natural /\ ctx = "travel"
               \/ ctx \in {"path", "bot_cleanup"}
               \/ ctx = "recovery" /\ Type[p] = "target"
            THEN "deny" ELSE _assess_structure_risk(p)

\* Mutant: one block too many.
HasRoomForOneMore(x, p) == p \in x.used \/ Cardinality(x.used) <= MaxUnique[x.ctx]

HasRoom(x, p) == p \in x.used \/ Cardinality(x.used) < MaxUnique[x.ctx]
Usable(p, ctx) == {x \in Live(permits) : Covers(x, p, ctx) /\ HasRoom(x, p)}
Oldest(S) == CHOOSE x \in S : \A y \in S : x.id <= y.id

(* _authorize_from_confirmed_scope: the oldest permit that covers the      *)
(* block and has room; those before it are used up and dropped.            *)
Authorize(p, ctx) ==
    LET x == Oldest(Usable(p, ctx))
        dropped == {y \in Live(permits) : Covers(y, p, ctx) /\ ~HasRoom(y, p) /\ y.id < x.id}
    IN  /\ permits' = (Live(permits) \ ({x} \cup dropped)) \cup {[x EXCEPT !.used = @ \cup {p}]}
        /\ granted' = granted \cup {[id |-> x.id, place |-> p, ctx |-> ctx, at |-> now,
                                     epoch |-> _current_confirmation_epoch]}
        /\ challenges' = Live(challenges)
        /\ UNCHANGED issued

(* _pending_confirmation: the action joins the challenge that covers the   *)
(* block, or a new one is put about it.                                    *)
Challenge(p, ctx, job) ==
    LET used == {y \in Live(permits) : Covers(y, p, ctx) /\ ~HasRoom(y, p)}
        open == {x \in Live(challenges) : Covers(x, p, ctx)}
        new == [id |-> issued + 1, place |-> p, ctx |-> ctx, epoch |-> _current_confirmation_epoch,
                dead |-> now + TTL, jobs |-> {job}]
    IN  /\ permits' = Live(permits) \ used
        /\ UNCHANGED granted
        /\ IF open # {}
           THEN challenges' = (Live(challenges) \ {Oldest(open)})
                              \cup {[Oldest(open) EXCEPT !.jobs = @ \cup {job}]}
                /\ UNCHANGED issued
           ELSE /\ issued < MaxChallenges /\ issued' = issued + 1
                /\ challenges' = Live(challenges) \cup {new}

(* can_break, after an assessment that is complete or not.                 *)
Allows(p, ctx, same, complete) ==
    LET r == Ruling(p, ctx, same)
    IN  r = "allow" \/ (complete /\ (r = "low" \/ (r = "ambiguous" /\ Usable(p, ctx) # {})))

can_break(p, ctx, job, same, complete) ==
    /\ IF Ruling(p, ctx, same) # "ambiguous" \/ ~complete
       THEN UNCHANGED <<challenges, permits, granted, issued>>
       ELSE IF Usable(p, ctx) # {} THEN Authorize(p, ctx) ELSE Challenge(p, ctx, job)
    /\ UNCHANGED authority

(* The Agent confirms a challenge: it becomes a permit with its bounds and *)
(* its deadline.                                                           *)
confirm_scope(x) ==
    LET permit == [id |-> Cardinality(confirmed) + 1, place |-> x.place, ctx |-> x.ctx,
                   epoch |-> x.epoch, dead |-> x.dead]
    IN  /\ x \in Live(challenges)
        /\ challenges' = Live(challenges) \ {x}
        /\ permits' = Live(permits) \cup
             {[id |-> permit.id, place |-> x.place, ctx |-> x.ctx, epoch |-> x.epoch, dead |-> x.dead, used |-> {}]}
        /\ confirmed' = confirmed \cup {permit}
        /\ UNCHANGED <<placements, conf, scope, now, issued, granted>>

(* An action that succeeds takes its name off the challenges; a challenge  *)
(* without a name is dropped.                                              *)
dismiss_action_confirmations(job) ==
    /\ challenges' = {x \in challenges : job \notin x.jobs}
                      \cup {[x EXCEPT !.jobs = @ \ {job}] : x \in {y \in challenges : {job} # y.jobs /\ job \in y.jobs}}
    /\ UNCHANGED <<permits, placements, conf, scope, now, issued, confirmed, granted>>

(* invalidate_confirmation_state: a death or a lost Body; a new runtime    *)
(* does the same (begin_confirmation_epoch).                               *)
invalidate_confirmation_state ==
    /\ conf < MaxConf /\ conf' = conf + 1
    /\ challenges' = {} /\ permits' = {}
    /\ UNCHANGED <<placements, scope, now, issued, confirmed, granted>>

record_bot_placement(p) ==
    /\ placements' = placements \cup {p}
    /\ UNCHANGED <<challenges, permits, conf, scope, now, issued, confirmed, granted>>

(* The Agent turns to another task, and back.                              *)
TaskChanges ==
    /\ scope' = 1 - scope
    /\ UNCHANGED <<challenges, permits, placements, conf, now, issued, confirmed, granted>>

TimePasses ==
    /\ now < MaxNow /\ now' = now + 1
    /\ UNCHANGED <<challenges, permits, placements, conf, scope, issued, confirmed, granted>>

\* ----- properties --------------------------------------------------------

(* A block that might belong to a structure is broken only under a permit  *)
(* that was confirmed for the same task and life, the same context and     *)
(* kind of block, before its deadline; and never more blocks than it says. *)
ConfirmedOnly ==
    /\ \A g \in granted : \E x \in confirmed :
          /\ x.id = g.id /\ x.epoch = g.epoch /\ x.ctx = g.ctx /\ g.at < x.dead
          /\ g.place \in Region[x.ctx][x.place] /\ Type[g.place] = Type[x.place]
    /\ \A x \in confirmed : Cardinality({g.place : g \in {h \in granted : h.id = x.id}}) <= MaxUnique[x.ctx]
=============================================================================
