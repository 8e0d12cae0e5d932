---------------------------- MODULE MCClientLink ---------------------------
(***************************************************************************)
(* Histories for TLC: every kind of action with an interrupt; the ones     *)
(* that hold keys or settings with a death and with the loss of the world; *)
(* two calls around a quarantine, with the link breaking, closing or the   *)
(* process starting anew; edges that fall while the link is down; menus    *)
(* and Baritone set going by controls.                                     *)
(***************************************************************************)
EXTENDS ClientLink

Histories(K, M) == {[kinds |-> k, may |-> m] : k \in K, m \in M}

MCLoads ==
    Histories({<<k, "none">> : k \in Objectives \cup Structured}, {{"interrupt"}}) \cup
    Histories({<<k, "none">> : k \in {"follow", "ascend", "useItem", "builderBuildFile", "collectBlocks"}},
              {{"die"}, {"leave"}}) \cup
    Histories({<<"goal", "goal">>}, {{"confirm", "interrupt"}, {"confirm", "break"}, {"confirm", "close"}}) \cup
    Histories({<<"craftItem", "containerTransfer">>}, {{"read", "close_screen"}}) \cup
    Histories({<<"follow", "goal">>}, {{"restart"}, {"break"}}) \cup
    Histories({<<"goal", "none">>}, {{"restart", "die"}, {"close", "die"}, {"break", "leave"}, {"builder_open", "interrupt"}, {"world_read"}})

============================================================================
