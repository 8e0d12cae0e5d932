---------------------------- MODULE MCWorkQueue ----------------------------
(* The instances TLC checks.  Over a Body with an event log: Body events,  *)
(* crashes and restarts of the server, or chat with commands, facts and    *)
(* steering, one of the two per behaviour, so that each can have more of   *)
(* its own kind of trouble.  Over a Body without one: commands of standard *)
(* input, facts and crashes.                                               *)
EXTENDS WorkQueue

Unexpired == \A i \in Ids : rows[i].state = "leased" => rows[i].live
Restarts == /\ world.chat = 0 /\ facts = 0 /\ cursor.chat = 0
            /\ \A i \in Ids : rows[i].kind \notin CommandKinds
Chatter == /\ world.ev = 0 /\ world.epoch = 1 /\ failed = 0 /\ Unexpired
           /\ \A i \in Ids : i > 4 => rows[i].state = "absent"
Logged == deaths < 2 /\ facts < 2 /\ (Restarts \/ Chatter)
Client == world.chat = 0 /\ world.ev = 0 /\ world.epoch = 1 /\ Unexpired
OneTrouble == IF eventLog THEN Logged ELSE Client
=============================================================================
