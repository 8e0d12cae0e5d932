-------------------------- MODULE TransactionScope -------------------------
(***************************************************************************)
(* What the scope of a Body transaction promises to the supervisor that    *)
(* opened it (src/minebot/contract/execution.py): the transaction runs and *)
(* then returns or raises, once; it starts native work only while it runs  *)
(* and is not cancelled; what it has started comes to an end, and after    *)
(* the cancellation nothing is added to it.                                *)
(***************************************************************************)
EXTENDS Naturals

VARIABLES
    phase,      \* "running", "returned" or "raised"
    cancelled,  \* the supervisor has cancelled the scope
    due         \* native actions started and not known to have ended

scopeVars == <<phase, cancelled, due>>

ScopeInit == phase = "running" /\ cancelled = FALSE /\ due = 0

Begin ==
    /\ phase = "running" /\ ~cancelled
    /\ due' = due + 1
    /\ UNCHANGED <<phase, cancelled>>

Settle ==
    /\ due > 0
    /\ due' = due - 1
    /\ UNCHANGED <<phase, cancelled>>

End ==
    /\ phase = "running"
    /\ phase' \in {"returned", "raised"}
    /\ cancelled' \in {cancelled, TRUE}
    /\ cancelled' # cancelled => phase' = "raised"
    /\ UNCHANGED due

Cancel ==
    /\ phase = "running" /\ ~cancelled
    /\ cancelled' = TRUE
    /\ UNCHANGED <<phase, due>>

ScopeNext == Begin \/ Settle \/ End \/ Cancel

ScopeSpec == ScopeInit /\ [][ScopeNext]_scopeVars

============================================================================
