---------------------------- MODULE BodyControl ----------------------------
(***************************************************************************)
(* The single-owner record of the physical Body (minebot/app/              *)
(* body_control.py) together with the generation counter of the progress   *)
(* authority it mirrors (minebot/brain/progress.py).                       *)
(*                                                                         *)
(* Every method of the class runs under one re-entrant lock, so each is an *)
(* operator from a record to a record.  Times, last_stop and the payload   *)
(* of the snapshot are only reported and are left out.                     *)
(***************************************************************************)
EXTENDS Integers

CONSTANTS
    Claims,   \* claim ids: tool call ids and plan activity ids
    None      \* Python's None, where a claim id may be missing

ASSUME NoneIsNoClaim == None \notin Claims

Holders == {"none", "agent_call", "agent_plan", "unknown", "life", "threat"}
StopStates == {"running", "stopping", "settled", "unknown"}

(* gen is BodyControl._generation, auth is ProgressAuthority._generation. *)
BodyRecord == [holder : Holders, claim : Claims \cup {None}, gen : Nat,
               stop : StopStates, auth : Nat]

(* BodyControl.__init__: free, settled, at the authority's generation. *)
FreeBody == [holder |-> "none", claim |-> None, gen |-> 0,
             stop |-> "settled", auth |-> 0]

(* The two refusals of claim(): a Body whose stop is unconfirmed, and a    *)
(* Body that another claim holds.                                          *)
Unconfirmed(b) == b.stop \in {"unknown", "stopping"}
BusyWith(b, c) == b.holder \notin {"none", "unknown"} /\ b.claim # c
CanClaim(b, c) == ~ Unconfirmed(b) /\ ~ BusyWith(b, c)

(* Mutant: a new claim is admitted under the generation in force. *)
ClaimedInPlace(b, c, h) ==
    [b EXCEPT !.holder = h, !.claim = c, !.stop = "running"]

(* claim() after its refusals: a new claim takes a new generation, the     *)
(* present holder asking again keeps its own.                              *)
Claimed(b, c, h) ==
    LET fresh == b.claim # c \/ b.holder = "none"
        g     == IF fresh THEN b.auth + 1 ELSE b.auth
    IN  [holder |-> h, claim |-> c, stop |-> "running", auth |-> g,
         gen |-> IF fresh THEN g ELSE b.gen]

(* Mutant: the stop leaves the generation as it is. *)
StoppingInPlace(b) == [b EXCEPT !.stop = "stopping"]

(* mark_stopping() as its callers use it, without a claim id. *)
Stopping(b) ==
    [b EXCEPT !.stop = "stopping", !.gen = b.auth + 1, !.auth = b.auth + 1]

(* settle() without a claim id: whatever claim is recorded is cleared. *)
Settled(b) ==
    [b EXCEPT !.holder = "none", !.claim = None, !.stop = "settled",
              !.gen = b.auth]

(* settle(claim_id=c): a foreign claim is left alone. *)
SettledBy(b, c) == IF b.claim \in {None, c} THEN Settled(b) ELSE b

(* mark_unknown() without a claim id. *)
MarkedUnknown(b) == [b EXCEPT !.holder = "unknown", !.stop = "unknown"]

(* ProgressAuthority.invalidate_generation and its listener in BodyControl. *)
Invalidated(b) ==
    LET bumped == [b EXCEPT !.auth = b.auth + 1, !.gen = b.auth + 1]
    IN  IF b.holder \notin {"none", "unknown"}
        THEN [bumped EXCEPT !.holder = "unknown", !.stop = "unknown"]
        ELSE bumped

(* owns(claim_id, generation) and owns(claim_id). *)
OwnsClaim(b, c) ==
    /\ b.claim = c
    /\ b.holder \notin {"none", "unknown"}
    /\ b.stop = "running"
    /\ b.gen = b.auth
Owns(b, c, g) == OwnsClaim(b, c) /\ b.gen = g
=============================================================================
