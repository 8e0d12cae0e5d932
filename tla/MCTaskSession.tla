--------------------------- MODULE MCTaskSession ---------------------------
(* The loads TLC checks: one task whose turns run three tool batches,      *)
(* and two commands with a death, whose turns run none, both with a crash; *)
(* and one task that is cut off twice.                                     *)
EXTENDS TaskSession

SmallLoads ==
    {[command |-> 1, kinds |-> {"start"}, death |-> 0, crash |-> 1,
      batch |-> 3, checkpoint |-> 2, intent |-> 3],
     [command |-> 2, kinds |-> UserKinds, death |-> 1, crash |-> 1,
      batch |-> 0, checkpoint |-> 1, intent |-> 4],
     [command |-> 1, kinds |-> {"start"}, death |-> 0, crash |-> 2,
      batch |-> 1, checkpoint |-> 2, intent |-> 3]}
=============================================================================
