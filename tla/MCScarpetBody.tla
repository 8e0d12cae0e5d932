--------------------------- MODULE MCScarpetBody ---------------------------
(* The Body behind RCON for TLC: one action of each kind.                  *)
EXTENDS ScarpetBody

Kinds == [mine |-> "block", drop |-> "other", decide |-> "result"]
============================================================================
