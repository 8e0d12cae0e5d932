----------------------------- MODULE MCBodies -----------------------------
(* The three Bodies under Python, one per behaviour: the client with its   *)
(* histories, the server behind RCON with one action of each kind, the     *)
(* server mod with either a bad link or a governance that has to be asked. *)
EXTENDS MCClientLink, MCScarpetBody, JavaBody

VARIABLE via   \* the Body of this behaviour

\* Two blocks a permit may cover, and one of the terrain.
Blocks == [a |-> "target", b |-> "target", stone |-> "terrain"]
Risks == [a |-> "ambiguous", b |-> "ambiguous", stone |-> "low"]
Around == [x \in Contexts |-> [p \in Places |-> {"a", "b"}]]
One == [x \in Contexts |-> 1]

AnyLoad == CHOOSE l \in Loads : TRUE

bodyVars == <<vars, rconVars, javaVars, govVars, via>>

BodiesInit ==
    /\ via \in {"client", "rcon", "socket"}
    /\ Init /\ RconInit /\ JavaInit /\ GovInit
    /\ via # "client" => load = AnyLoad.kinds /\ may = AnyLoad.may

BodiesNext ==
    /\ \/ via = "client" /\ Next /\ UNCHANGED <<rconVars, javaVars, govVars>>
       \/ via = "rcon" /\ RconNext /\ UNCHANGED <<vars, javaVars, govVars>>
       \/ via = "socket" /\ JavaNext /\ UNCHANGED <<vars, rconVars>>
    /\ UNCHANGED via

BodiesSpec == BodiesInit /\ [][BodiesNext]_bodyVars /\ Fairness

\* One action behind RCON.
Begun(a) == outcome[a] # "none" \/ body.a = a
OneAction == \A a, b \in Actions : Begun(a) /\ Begun(b) => a = b

\* A bad link, or a governance that is asked.
BadLink == issued = 0 /\ now = 0 /\ conf = 0 /\ scope = 0 /\ placements = {} /\ broken = {}
Governed ==
    /\ drops = 0 /\ client.pc \in {"idle", "ack", "await"}
    /\ \A j \in Jobs : result[j] \in {"none", "done", "failed"}
    /\ \A j \in Jobs : ended[j] # "none" => job[j] # "none"
    /\ conf + now + scope + Cardinality(placements) <= 1

OneTrouble == OneAction /\ (BadLink \/ Governed)
===========================================================================
