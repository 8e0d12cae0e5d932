------------------------- MODULE TransactionProofs -------------------------
(***************************************************************************)
(* The scope of a Body transaction: the transactions of BodyTransactions   *)
(* implement TransactionScope, and the client is never given two native    *)
(* actions; and the harm one may do: mining and digging do none as long as *)
(* nobody else changes the ground.                                         *)
(*                                                                         *)
(* Every step of every transaction is made of a few: it works on its stack *)
(* and leaves token and client alone, starts a native action, leaves one   *)
(* behind, or is cut off.  Shape says so, one lemma per family shows it,   *)
(* and the first two properties follow from Shape alone.  The third needs  *)
(* to know what is on the stack: what a frame of any transaction may hold, *)
(* which frames a hazard leaves room for, and where a transaction that     *)
(* digs down is between the look under the floor and the break.            *)
(***************************************************************************)
EXTENDS BodyTransactions, SequenceTheorems, TLAPS

(* The stack is a sequence of frames, whatever the frames hold.            *)
IsStack == stack \in Seq(Range(stack))

(* A native action of this kind is handed to the client.                   *)
Started(k) == [client EXCEPT !.run = k, !.term = "none",
                             !.late = IF client.run = Idle THEN @ ELSE client.run]

(* The steps a transaction takes.  An action is started, or left behind,   *)
(* only in a live scope and with a client that is free.                    *)
Shape ==
    /\ stack # <<>>
    /\ IsStack'
    /\ \/ UNCHANGED <<token, client>>
       \/ /\ token = "live" /\ ~Busy /\ stack' # <<>> /\ UNCHANGED token
          /\ \E k : client' = Started(k)
       \/ /\ token = "live" /\ ~Busy /\ UNCHANGED token
          /\ client' = [client EXCEPT !.unknown = TRUE]
       \/ /\ token = "live" /\ token' = "cancelled" /\ UNCHANGED client
          /\ stack' = <<>> /\ ret' = "cancelled"

\* ----- the steps on the stack ----------------------------------------------

(* Whatever sequence the stack becomes is a stack.                         *)
LEMMA StackOf ==
    ASSUME NEW S, stack' \in Seq(S)
    PROVE  IsStack'
  BY SeqOfRange DEF IsStack

LEMMA StandKeeps ==
    ASSUME IsStack, stack # <<>>, NEW frame, Stand(frame)
    PROVE  IsStack' /\ stack' # <<>>
  <1> DEFINE S == Range(stack) \cup {frame}
  <1>1. stack \in Seq(S) /\ Len(stack) \in Nat \ {0}
    BY SeqMonotonic, EmptySeq DEF IsStack
  <1>2. [stack EXCEPT ![Len(stack)] = frame] \in Seq(S)
        /\ Len([stack EXCEPT ![Len(stack)] = frame]) = Len(stack)
    BY <1>1, ExceptSeq
  <1>3. stack' \in Seq(S) /\ Len(stack') = Len(stack)
    BY <1>2 DEF Stand
  <1>4. stack' # <<>>
    BY <1>1, <1>3, EmptySeq
  <1> QED
    BY <1>3, <1>4, StackOf

LEMMA PopKeeps ==
    ASSUME IsStack, stack # <<>>, NEW d \in 0..Len(stack), stack' = SubSeq(stack, 1, d)
    PROVE  IsStack'
  <1>1. stack \in Seq(Range(stack)) /\ Len(stack) \in Nat
    BY LenProperties DEF IsStack
  <1>2. \A i \in 1..d : stack[i] \in Range(stack)
    BY <1>1, ElementOfSeq
  <1>3. d \in Int
    BY <1>1
  <1>4. SubSeq(stack, 1, d) \in Seq(Range(stack))
    BY <1>2, <1>3, SubSeqProperties
  <1> QED
    BY <1>4, StackOf

LEMMA PushKeeps ==
    ASSUME IsStack, stack # <<>>, NEW f, NEW v, NEW l,
           stack' = Append([stack EXCEPT ![Len(stack)].at = l], Frame(f, v))
    PROVE  IsStack'
  <1> DEFINE top == [stack[Len(stack)] EXCEPT !.at = l]
             S == Range(stack) \cup {top, Frame(f, v)}
  <1>1. stack \in Seq(S) /\ Len(stack) \in Nat \ {0}
    BY SeqMonotonic, EmptySeq DEF IsStack
  <1>2. [stack EXCEPT ![Len(stack)] = top] \in Seq(S)
    BY <1>1, ExceptSeq
  <1>3. stack' = Append([stack EXCEPT ![Len(stack)] = top], Frame(f, v))
    OBVIOUS
  <1>4. stack' \in Seq(S)
    BY <1>2, <1>3, AppendProperties
  <1> QED
    BY <1>4, StackOf

(* An exception unwinds the stack; a cancellation altogether.              *)
LEMMA RaiseKeeps ==
    ASSUME IsStack, stack # <<>>, NEW e, Raise(e)
    PROVE  /\ IsStack' /\ ret' = e
           /\ e # "timeout" => stack' = <<>>
           /\ UNCHANGED <<token, client>> => Shape
           /\ Outside => Shape
  <1>1. PICK d \in 0..Len(stack) :
           (d > 0 => Catches(stack[d], e)) /\ stack' = SubSeq(stack, 1, d)
    BY DEF Raise
  <1>2. IsStack' /\ ret' = e
    BY <1>1, PopKeeps DEF Raise
  <1>3. ASSUME e # "timeout" PROVE stack' = <<>>
    <2>1. d = 0
      BY <1>1, <1>3, LenProperties DEF Catches, IsStack
    <2> QED
      BY <1>1, <2>1, SubSeqEmpty
  <1>4. UNCHANGED <<token, client>> => Shape
    BY <1>2 DEF Shape
  <1>5. Outside => Shape
    BY <1>4 DEF Outside
  <1> QED
    BY <1>2, <1>3, <1>4, <1>5

(* Going on, with or without a change to what is remembered of the world.  *)
LEMMA EditsKeep ==
    ASSUME IsStack, stack # <<>>, UNCHANGED <<token, client>>
    PROVE  /\ \A frame : Stand(frame) => Shape
           /\ stack' = SubSeq(stack, 1, Len(stack) - 1) => Shape
  <1>1. \A frame : Stand(frame) => Shape
    BY StandKeeps DEF Shape
  <1>2. ASSUME stack' = SubSeq(stack, 1, Len(stack) - 1) PROVE Shape
    <2>1. Len(stack) - 1 \in 0..Len(stack)
      BY EmptySeq DEF IsStack
    <2>2. IsStack'
      BY <1>2, <2>1, PopKeeps
    <2> QED
      BY <2>2 DEF Shape
  <1> QED
    BY <1>1, <1>2

LEMMA CallsKeep ==
    ASSUME IsStack, stack # <<>>
    PROVE  /\ \A l : Goto(l) => Shape
           /\ \A l, v : Keep(l, v) => Shape
           /\ \A l : Count(l) => Shape
           /\ \A l, v, m : KeepCount(l, v, m) => Shape
           /\ \A f, v, l : Call(f, v, l) => Shape
           /\ \A w, f, v, l : CallAfter(w, f, v, l) => Shape
  <1>1. \A l : Goto(l) => Shape
    BY EditsKeep DEF Goto, Outside
  <1>2. \A l, v : Keep(l, v) => Shape
    BY EditsKeep DEF Keep, Outside
  <1>3. \A l : Count(l) => Shape
    BY EditsKeep DEF Count, Outside
  <1>4. \A l, v, m : KeepCount(l, v, m) => Shape
    BY EditsKeep DEF KeepCount, Outside
  <1>5. \A f, v, l : Call(f, v, l) => Shape
    BY PushKeeps DEF Call, Outside, Shape
  <1>6. \A w, f, v, l : CallAfter(w, f, v, l) => Shape
    BY PushKeeps DEF CallAfter, Shape
  <1> QED
    BY <1>1, <1>2, <1>3, <1>4, <1>5, <1>6

LEMMA EndsKeep ==
    ASSUME IsStack, stack # <<>>
    PROVE  \A r : Return(r) => Shape
  BY EditsKeep DEF Return, Outside

(* A native action: refused, started, or not even asked for.               *)
LEMMA ExecuteKeeps ==
    ASSUME IsStack, stack # <<>>, NEW k, NEW l, Execute(k, l)
    PROVE  Shape
  <1>1. CASE token = "cancelled" /\ Raise("cancelled") /\ UNCHANGED <<token, client, world, strays>>
    BY <1>1, RaiseKeeps
  <1>2. CASE Fail
    BY <1>2, EndsKeep DEF Fail
  <1>3. CASE /\ token = "live" /\ ~Busy
             /\ client' = Started(k)
             /\ Stand([Here EXCEPT !.at = l])
             /\ UNCHANGED <<ret, token, world, strays>>
    <2>1. IsStack' /\ stack' # <<>>
      BY <1>3, StandKeeps
    <2> QED
      BY <1>3, <2>1 DEF Shape
  <1> QED
    BY <1>1, <1>2, <1>3 DEF Execute, Started

(* What another family does on the way.                                    *)
LEMMA ContractedKeeps ==
    ASSUME IsStack, stack # <<>>, NEW outcomes, NEW l, Contracted(outcomes, l)
    PROVE  Shape
  <1>1. CASE Stand([Here EXCEPT !.at = l]) /\ UNCHANGED <<token, client>>
    BY <1>1, EditsKeep
  <1>2. CASE Raise("cancelled") /\ UNCHANGED <<token, client>>
    BY <1>2, RaiseKeeps
  <1>3. CASE /\ token = "live" /\ ~Busy /\ UNCHANGED token
             /\ client' \in {client, [client EXCEPT !.unknown = TRUE]}
             /\ Stand([Here EXCEPT !.at = l]) \/ Raise("timeout")
    <2>1. IsStack'
      BY <1>3, StandKeeps, RaiseKeeps
    <2> QED
      BY <1>3, <2>1 DEF Shape
  <1>4. CASE /\ token = "live" /\ token' = "cancelled" /\ UNCHANGED client
             /\ Raise("cancelled")
    <2>1. IsStack' /\ ret' = "cancelled" /\ stack' = <<>>
      BY <1>4, RaiseKeeps
    <2> QED
      BY <1>4, <2>1 DEF Shape
  <1> QED
    BY <1>1, <1>2, <1>3, <1>4 DEF Contracted

LEMMA DealKeeps ==
    ASSUME IsStack, stack # <<>>
    PROVE  \A f, v, l : Deal(f, v, l) => Shape
  BY ContractedKeeps DEF Deal

(* One native action from dispatch to terminal.                            *)
LEMMA DispatchShape ==
    ASSUME IsStack, _dispatch
    PROVE  Shape
  <1>1. stack # <<>>
    BY DEF _dispatch, In
  <1>2. CASE Execute(Here.x, "wait")
    BY <1>1, <1>2, ExecuteKeeps
  <1>3. CASE await_action_terminal
    BY <1>1, <1>3, EndsKeep, RaiseKeeps DEF await_action_terminal
  <1> QED
    BY <1>2, <1>3 DEF _dispatch

(* The transactions on items take only such steps ... *)
LEMMA ItemShape ==
    ASSUME IsStack, ItemStep
    PROVE  Shape
  <1> USE CallsKeep, EndsKeep, RaiseKeeps, ExecuteKeeps, DealKeeps, EditsKeep
      DEF In, Then, OkThen, Read, Ok, Fail, Native, Checkpoint
  <1>1. CASE discard_item
    BY <1>1 DEF discard_item
  <1>2. CASE equip_item
    BY <1>2 DEF equip_item
  <1>3. CASE craft_exact
    BY <1>3 DEF craft_exact
  <1>4. CASE cleanup_crafting_residue
    BY <1>4 DEF cleanup_crafting_residue
  <1>5. CASE craft_recipe_prepare
    BY <1>5 DEF craft_recipe_prepare
  <1>6. CASE craft_recipe_finish
    BY <1>6 DEF craft_recipe_finish
  <1>7. CASE _resolve_crafting_workspace
    BY <1>7 DEF _resolve_crafting_workspace
  <1>8. CASE _prepare_hotbar_slot_for_item
    BY <1>8 DEF _prepare_hotbar_slot_for_item
  <1>9. CASE transfer_item
    BY <1>9 DEF transfer_item
  <1>10. CASE transfer_nearest_container
    BY <1>10 DEF transfer_nearest_container
  <1>11. CASE transfer_slot
    BY <1>11 DEF transfer_slot
  <1>12. CASE clear_furnace
    BY <1>12 DEF clear_furnace
  <1>13. CASE _smelt_preflight
    BY <1>13 DEF _smelt_preflight
  <1>14. CASE smelt_once
    BY <1>14 DEF smelt_once
  <1>15. CASE _reclaim_smelt_slots
    BY <1>15 DEF _reclaim_smelt_slots
  <1>16. CASE _collect_partial_output
    BY <1>16 DEF _collect_partial_output
  <1>17. CASE nearest_furnace
    BY <1>17 DEF nearest_furnace
  <1>18. CASE smelt_with_temporary_furnace
    BY <1>18 DEF smelt_with_temporary_furnace
  <1>19. CASE _reclaim_temporary_furnace
    BY <1>19 DEF _reclaim_temporary_furnace
  <1>20. CASE smelt_with_nearby_temporary_furnace
    BY <1>20 DEF smelt_with_nearby_temporary_furnace
  <1> QED
    BY <1>1, <1>2, <1>3, <1>4, <1>5, <1>6, <1>7, <1>8, <1>9, <1>10, <1>11, <1>12, <1>13, <1>14,
       <1>15, <1>16, <1>17, <1>18, <1>19, <1>20 DEF ItemStep

(* ... those on what the Body uses ... *)
LEMMA UseShape ==
    ASSUME IsStack, UseStep
    PROVE  Shape
  <1> USE CallsKeep, EndsKeep, RaiseKeeps, ExecuteKeeps, DealKeeps, EditsKeep
      DEF In, Then, OkThen, Read, Ok, Fail, Native, Checkpoint
  <1>1. CASE _read_find_blocks_pages
    BY <1>1 DEF _read_find_blocks_pages
  <1>2. CASE find_nearby_block_search
    BY <1>2 DEF find_nearby_block_search
  <1>3. CASE find_entity_target
    BY <1>3 DEF find_entity_target
  <1>4. CASE refresh_entity_target
    BY <1>4 DEF refresh_entity_target
  <1>5. CASE ensure_interaction_range
    BY <1>5 DEF ensure_interaction_range
  <1>6. CASE move_to_block_center
    BY <1>6 DEF move_to_block_center
  <1>7. CASE _stop_body_controls
    BY <1>7 DEF _stop_body_controls
  <1>8. CASE ensure_entity_range
    BY <1>8 DEF ensure_entity_range
  <1>9. CASE consume_item
    BY <1>9 DEF consume_item
  <1>10. CASE use_item
    BY <1>10 DEF use_item
  <1>11. CASE _await_position_delta
    BY <1>11 DEF _await_position_delta
  <1>12. CASE use_on_entity
    BY <1>12 DEF use_on_entity
  <1>13. CASE _attempt_block_use
    BY <1>13 DEF _attempt_block_use
  <1>14. CASE _attempt_fire_ignite
    BY <1>14 DEF _attempt_fire_ignite
  <1>15. CASE _settle_expected_block_properties
    BY <1>15 DEF _settle_expected_block_properties
  <1>16. CASE use_on_block_prepare
    BY <1>16 DEF use_on_block_prepare
  <1>17. CASE use_on_block_attempt
    BY <1>17 DEF use_on_block_attempt
  <1>18. CASE _recover_line_of_sight
    BY <1>18 DEF _recover_line_of_sight
  <1>19. CASE _move_to_stand_center
    BY <1>19 DEF _move_to_stand_center
  <1>20. CASE _sow_crop_on_farmland
    BY <1>20 DEF _sow_crop_on_farmland
  <1>21. CASE _resolve_block_target
    BY <1>21 DEF _resolve_block_target
  <1>22. CASE _approach_openable_target
    BY <1>22 DEF _approach_openable_target
  <1>23. CASE set_openable_state
    BY <1>23 DEF set_openable_state
  <1>24. CASE set_switch_state
    BY <1>24 DEF set_switch_state
  <1>25. CASE _wait_for_switch_state
    BY <1>25 DEF _wait_for_switch_state
  <1>26. CASE _approach_bed_target
    BY <1>26 DEF _approach_bed_target
  <1>27. CASE _move_to_bed_use_stance
    BY <1>27 DEF _move_to_bed_use_stance
  <1>28. CASE go_to_bed
    BY <1>28 DEF go_to_bed
  <1>29. CASE till_farmland
    BY <1>29 DEF till_farmland
  <1>30. CASE sow_crop
    BY <1>30 DEF sow_crop
  <1>31. CASE harvest_and_resow
    BY <1>31 DEF harvest_and_resow
  <1>32. CASE give_player
    BY <1>32 DEF give_player
  <1>33. CASE _await_pickup
    BY <1>33 DEF _await_pickup
  <1>34. CASE _enter_player_distance_band
    BY <1>34 DEF _enter_player_distance_band
  <1>35. CASE search_for_entity
    BY <1>35 DEF search_for_entity
  <1> QED
    BY <1>1, <1>2, <1>3, <1>4, <1>5, <1>6, <1>7, <1>8, <1>9, <1>10, <1>11, <1>12, <1>13, <1>14,
       <1>15, <1>16, <1>17, <1>18, <1>19, <1>20, <1>21, <1>22, <1>23, <1>24, <1>25, <1>26,
       <1>27, <1>28, <1>29, <1>30, <1>31, <1>32, <1>33, <1>34, <1>35 DEF UseStep

(* ... those that get about ... *)
LEMMA FieldShape ==
    ASSUME IsStack, FieldStep
    PROVE  Shape
  <1> USE CallsKeep, EndsKeep, RaiseKeeps, ExecuteKeeps, DealKeeps, EditsKeep
      DEF In, Then, OkThen, Read, Ok, Fail, Native, Checkpoint
  <1>1. CASE _wait_for_survival_reflex_idle
    BY <1>1 DEF _wait_for_survival_reflex_idle
  <1>2. CASE navigate_to_prepare
    BY <1>2 DEF navigate_to_prepare
  <1>3. CASE _recover_survival_hazard
    BY <1>3 DEF _recover_survival_hazard
  <1>4. CASE navigate_to_segment
    BY <1>4 DEF navigate_to_segment
  <1>5. CASE _answer_navigation_mutation
    BY <1>5 DEF _answer_navigation_mutation
  <1>6. CASE navigate_to_ended
    BY <1>6 DEF navigate_to_ended
  <1>7. CASE _wait_for_reflex_completion
    BY <1>7 DEF _wait_for_reflex_completion
  <1>8. CASE _run_navigation_recovery
    BY <1>8 DEF _run_navigation_recovery
  <1>9. CASE follow_entity
    BY <1>9 DEF follow_entity
  <1>10. CASE move_away
    BY <1>10 DEF move_away
  <1>11. CASE _prepare_survival
    BY <1>11 DEF _prepare_survival
  <1>12. CASE navigate_objective
    BY <1>12 DEF navigate_objective
  <1>13. CASE _execute_objective
    BY <1>13 DEF _execute_objective
  <1>14. CASE follow_objective
    BY <1>14 DEF follow_objective
  <1>15. CASE pickup_items
    BY <1>15 DEF pickup_items
  <1>16. CASE _collect_inventory_delta
    BY <1>16 DEF _collect_inventory_delta
  <1>17. CASE _scan_candidates
    BY <1>17 DEF _scan_candidates
  <1>18. CASE _poll_inventory_delta
    BY <1>18 DEF _poll_inventory_delta
  <1>19. CASE resolve_entity_target
    BY <1>19 DEF resolve_entity_target
  <1>20. CASE engage_entity
    BY <1>20 DEF engage_entity
  <1>21. CASE ranged_attack
    BY <1>21 DEF ranged_attack
  <1>22. CASE get_to_block
    BY <1>22 DEF get_to_block
  <1>23. CASE _verify_target
    BY <1>23 DEF _verify_target
  <1>24. CASE block_reach_domains
    BY <1>24 DEF block_reach_domains
  <1>25. CASE read_block_facts
    BY <1>25 DEF read_block_facts
  <1>26. CASE _await_with_progress
    BY <1>26 DEF _await_with_progress
  <1>27. CASE collect_native_cluster
    BY <1>27 DEF collect_native_cluster
  <1>28. CASE collect_block_domain_begin
    BY <1>28 DEF collect_block_domain_begin
  <1>29. CASE collect_block_domain_select
    BY <1>29 DEF collect_block_domain_select
  <1>30. CASE collect_block_domain_navigate
    BY <1>30 DEF collect_block_domain_navigate
  <1>31. CASE collect_block_domain_recover
    BY <1>31 DEF collect_block_domain_recover
  <1>32. CASE collect_block_domain_mine
    BY <1>32 DEF collect_block_domain_mine
  <1>33. CASE _run_designated_target
    BY <1>33 DEF _run_designated_target
  <1>34. CASE _scan_targets
    BY <1>34 DEF _scan_targets
  <1>35. CASE explore_for_begin
    BY <1>35 DEF explore_for_begin, Scanned
  <1>36. CASE explore_for_frontier
    BY <1>36 DEF explore_for_frontier
  <1>37. CASE _safe_frontier_stands
    BY <1>37 DEF _safe_frontier_stands
  <1>38. CASE explore_for_fallback
    BY <1>38 DEF explore_for_fallback
  <1>39. CASE explore_for_reached
    BY <1>39 DEF explore_for_reached
  <1>40. CASE recover_after_death
    BY <1>40 DEF recover_after_death
  <1>41. CASE _recover_from_transport_recheck
    BY <1>41 DEF _recover_from_transport_recheck
  <1>42. CASE _state_recheck_with_retry
    BY <1>42 DEF _state_recheck_with_retry
  <1>43. CASE _wait_for_event
    BY <1>43 DEF _wait_for_event
  <1> QED
    BY <1>1, <1>2, <1>3, <1>4, <1>5, <1>6, <1>7, <1>8, <1>9, <1>10, <1>11, <1>12, <1>13, <1>14,
       <1>15, <1>16, <1>17, <1>18, <1>19, <1>20, <1>21, <1>22, <1>23, <1>24, <1>25, <1>26,
       <1>27, <1>28, <1>29, <1>30, <1>31, <1>32, <1>33, <1>34, <1>35, <1>36, <1>37, <1>38,
       <1>39, <1>40, <1>41, <1>42, <1>43 DEF FieldStep

(* ... and those on blocks. *)
LEMMA BlockShape ==
    ASSUME IsStack, BlockStep
    PROVE  Shape
  <1> USE CallsKeep, EndsKeep, RaiseKeeps, ExecuteKeeps, DealKeeps, EditsKeep
      DEF In, Then, OkThen, Read, Ok, Fail, Native, Checkpoint
  <1>1. CASE mine_block
    BY <1>1 DEF mine_block
  <1>2. CASE _approach_mining_target
    BY <1>2 DEF _approach_mining_target
  <1>3. CASE mine_block_dry
    BY <1>3 DEF mine_block_dry
  <1>4. CASE _approach_seal_face
    BY <1>4 DEF _approach_seal_face
  <1>5. CASE _place_first_available_seal_block
    BY <1>5 DEF _place_first_available_seal_block
  <1>6. CASE mine_block_collect
    BY <1>6 DEF mine_block_collect
  <1>7. CASE _ensure_collect_pickaxe
    BY <1>7 DEF _ensure_collect_pickaxe
  <1>8. CASE dig_down_one
    BY <1>8 DEF dig_down_one
  <1>9. CASE _fall_probe_after_opening
    BY <1>9 DEF _fall_probe_after_opening
  <1>10. CASE dig_down_to_y
    BY <1>10 DEF dig_down_to_y
  <1>11. CASE _align_for_descent
    BY <1>11 DEF _align_for_descent
  <1>12. CASE _wait_for_descent
    BY <1>12 DEF _wait_for_descent
  <1>13. CASE dig_up_one
    BY <1>13 DEF dig_up_one
  <1>14. CASE dig_up_to_y
    BY <1>14 DEF dig_up_to_y
  <1>15. CASE _standable_feet_at
    BY <1>15 DEF _standable_feet_at
  <1>16. CASE _surface_candidate_at
    BY <1>16 DEF _surface_candidate_at
  <1>17. CASE egress_to_dry
    BY <1>17 DEF egress_to_dry
  <1>18. CASE go_to_surface_begin
    BY <1>18 DEF go_to_surface_begin
  <1>19. CASE go_to_surface_walk
    BY <1>19 DEF go_to_surface_walk
  <1>20. CASE _find_surface_domain
    BY <1>20 DEF _find_surface_domain
  <1>21. CASE _constructible_surface_column_at
    BY <1>21 DEF _constructible_surface_column_at
  <1>22. CASE search_for_block
    BY <1>22 DEF search_for_block
  <1>23. CASE place_block
    BY <1>23 DEF place_block
  <1>24. CASE place_here_prepare
    BY <1>24 DEF place_here_prepare
  <1>25. CASE place_here_spots
    BY <1>25 DEF place_here_spots
  <1>26. CASE _approach_place_candidate
    BY <1>26 DEF _approach_place_candidate
  <1>27. CASE _recover_place_here_headroom
    BY <1>27 DEF _recover_place_here_headroom
  <1>28. CASE _recover_place_here_stand_position
    BY <1>28 DEF _recover_place_here_stand_position
  <1> QED
    BY <1>1, <1>2, <1>3, <1>4, <1>5, <1>6, <1>7, <1>8, <1>9, <1>10, <1>11, <1>12, <1>13, <1>14,
       <1>15, <1>16, <1>17, <1>18, <1>19, <1>20, <1>21, <1>22, <1>23, <1>24, <1>25, <1>26,
       <1>27, <1>28 DEF BlockStep

\* ----- the client ----------------------------------------------------------

(* What the properties need to know of the client: it has its fields, and  *)
(* an action that was cut off from its caller keeps it quarantined, unless *)
(* it was a control.                                                       *)
IsClient ==
    /\ client = [run |-> client.run, term |-> client.term,
                 unknown |-> client.unknown, late |-> client.late]
    /\ client.unknown \in BOOLEAN
LateQuarantined == client.late # Idle /\ ~Control(client.late) => client.unknown
ScopeInv ==
    /\ IsStack /\ IsClient
    /\ token \in {"live", "cancelled"}
    /\ LateQuarantined
    /\ OneActionInClient

(* The client after an action is started, and after one is left behind.    *)
LEMMA ClientStarted ==
    ASSUME IsClient, NEW k, client' = Started(k)
    PROVE  /\ IsClient' /\ client'.run = k
           /\ client'.late = IF client.run = Idle THEN client.late ELSE client.run
           /\ client'.unknown = client.unknown
  BY DEF IsClient, Started

LEMMA ClientLeft ==
    ASSUME IsClient, client' = [client EXCEPT !.unknown = TRUE]
    PROVE  /\ IsClient' /\ client'.unknown = TRUE
           /\ client'.run = client.run /\ client'.late = client.late
  BY DEF IsClient

LEMMA ShapeSafe ==
    ASSUME ScopeInv, Shape
    PROVE  ScopeInv'
  <1>1. IsStack' /\ token' \in {"live", "cancelled"}
    BY DEF ScopeInv, Shape
  <1>2. CASE UNCHANGED client
    BY <1>1, <1>2 DEF ScopeInv, IsClient, LateQuarantined, OneActionInClient
  <1>3. ASSUME ~Busy, NEW k, client' = Started(k)
        PROVE  ScopeInv'
    <2>1. /\ IsClient' /\ client'.run = k
          /\ client'.late = IF client.run = Idle THEN client.late ELSE client.run
          /\ client'.unknown = client.unknown
      BY <1>3, ClientStarted DEF ScopeInv
    <2>2. ~client.unknown /\ (client.run = Idle \/ Control(client.run))
      BY <1>3 DEF Busy
    <2>3. client'.late = Idle \/ Control(client'.late)
      BY <2>1, <2>2 DEF ScopeInv, LateQuarantined
    <2>4. LateQuarantined' /\ OneActionInClient'
      BY <2>3 DEF LateQuarantined, OneActionInClient
    <2> QED
      BY <1>1, <2>1, <2>4 DEF ScopeInv
  <1>4. CASE client' = [client EXCEPT !.unknown = TRUE]
    <2>1. /\ IsClient' /\ client'.unknown = TRUE
          /\ client'.run = client.run /\ client'.late = client.late
      BY <1>4, ClientLeft DEF ScopeInv
    <2>2. LateQuarantined' /\ OneActionInClient'
      BY <2>1 DEF ScopeInv, LateQuarantined, OneActionInClient
    <2> QED
      BY <1>1, <2>1, <2>2 DEF ScopeInv
  <1> QED
    BY <1>2, <1>3, <1>4 DEF Shape

(* The end of an action's thread: nothing runs, and what the client may    *)
(* still be doing is quarantined.                                          *)
LEMMA RunEnds ==
    ASSUME IsClient, _run_action
    PROVE  /\ IsClient' /\ client'.run = Idle
           /\ \/ client'.late = client.late /\ client'.unknown = client.unknown
              \/ client'.late = client.run /\ client'.unknown = ~Control(client.run)
  BY DEF IsClient, _run_action, Control

LEMMA ClientSafe ==
    ASSUME ScopeInv, Client
    PROVE  ScopeInv'
  <1>1. UNCHANGED <<stack, token>>
    BY DEF Client, _run_action, LateEffect, confirm_control_idle
  <1>2. IsStack' /\ token' \in {"live", "cancelled"}
    BY <1>1 DEF ScopeInv, IsStack
  <1>3. CASE _run_action
    <2>1. /\ IsClient' /\ client'.run = Idle
          /\ \/ client'.late = client.late /\ client'.unknown = client.unknown
             \/ client'.late = client.run /\ client'.unknown = ~Control(client.run)
      BY <1>3, RunEnds DEF ScopeInv
    <2>2. OneActionInClient'
      BY <2>1 DEF OneActionInClient
    <2>3. CASE client'.late = client.late /\ client'.unknown = client.unknown
      BY <1>2, <2>1, <2>2, <2>3 DEF ScopeInv, LateQuarantined, Control
    <2>4. CASE client'.late = client.run /\ client'.unknown = ~Control(client.run)
      <3>1. LateQuarantined'
        BY <2>4, Zenon DEF LateQuarantined, Control
      <3> QED
        BY <1>2, <2>1, <2>2, <3>1 DEF ScopeInv
    <2> QED
      BY <2>1, <2>3, <2>4
  <1>4. CASE LateEffect
    <2>1. /\ IsClient' /\ client'.late = Idle /\ client'.run = client.run
      BY <1>4 DEF LateEffect, ScopeInv, IsClient
    <2> QED
      BY <1>2, <2>1 DEF ScopeInv, LateQuarantined, OneActionInClient
  <1>5. CASE confirm_control_idle
    <2>1. /\ IsClient' /\ client'.late = client.late /\ client.late = Idle
      BY <1>5 DEF confirm_control_idle, ScopeInv, IsClient
    <2> QED
      BY <1>2, <2>1 DEF ScopeInv, LateQuarantined, OneActionInClient
  <1> QED
    BY <1>3, <1>4, <1>5 DEF Client

(* The steps of the transaction that runs, whichever it is.                *)
LEMMA TransactShape ==
    ASSUME IsStack, Transact
    PROVE  Shape
  BY ItemShape, UseShape, FieldShape, BlockShape, DispatchShape DEF Transact

LEMMA NextSafe ==
    ASSUME ScopeInv, [Next]_allVars
    PROVE  ScopeInv'
  <1>1. CASE Transact
    BY <1>1, TransactShape, ShapeSafe DEF ScopeInv
  <1>2. CASE Client
    BY <1>2, ClientSafe
  <1>3. CASE Game \/ Stray \/ cancel \/ Ended \/ UNCHANGED allVars
    <2>1. UNCHANGED <<stack, client>> /\ token' \in {token, "cancelled"}
      BY <1>3 DEF Game, Stray, cancel, Ended, allVars, vars
    <2> QED
      BY <2>1 DEF ScopeInv, IsStack, IsClient, LateQuarantined, OneActionInClient
  <1> QED
    BY <1>1, <1>2, <1>3 DEF Next

LEMMA InitSafe == Init => ScopeInv
  <1> SUFFICES ASSUME Init PROVE ScopeInv
    OBVIOUS
  <1>1. PICK f, v : stack = <<Frame(f, v)>>
    BY DEF Init
  <1>2. stack \in Seq({Frame(f, v)})
    BY <1>1
  <1>3. IsStack
    BY <1>2, SeqOfRange DEF IsStack
  <1>4. client = ClientStart /\ token = "live"
    BY DEF Init
  <1> QED
    BY <1>3, <1>4 DEF ScopeInv, IsClient, ClientStart, LateQuarantined, OneActionInClient

(* For every number of units, strays and polls: RealClientBody never has   *)
(* two native actions in the client, because _active stays set for an      *)
(* action whose end is unknown until the client reports that nothing runs. *)
THEOREM OneActionAlways == Spec => []OneActionInClient
  <1>1. ScopeInv /\ [Next]_allVars => ScopeInv'
    BY NextSafe
  <1>2. ScopeInv => OneActionInClient
    BY DEF ScopeInv
  <1> QED
    BY <1>1, <1>2, InitSafe, PTL DEF Spec

\* ----- the refinement ------------------------------------------------------

(* How many actions are due, before and after a step.                      *)
LEMMA DueCounts ==
    /\ client.run = Idle /\ client.late = Idle => Due = 0
    /\ client.run = Idle /\ client.late # Idle => Due = 1
    /\ client.run # Idle /\ client.late = Idle => Due = 1
    /\ client.run # Idle /\ client.late # Idle => Due = 2
  BY DEF Due

LEMMA DueCountsNext ==
    /\ client'.run = Idle /\ client'.late = Idle => Due' = 0
    /\ client'.run = Idle /\ client'.late # Idle => Due' = 1
    /\ client'.run # Idle /\ client'.late = Idle => Due' = 1
    /\ client'.run # Idle /\ client'.late # Idle => Due' = 2
  BY DEF Due

Phase == IF stack # <<>> THEN "running" ELSE IF ret \in Raised THEN "raised" ELSE "returned"

(* A step as the supervisor sees it.                                       *)
ScopeStep == [Scope!ScopeNext]_(Scope!scopeVars)

(* The transaction goes on, or is over: what is due only ends.             *)
LEMMA SettleStep ==
    ASSUME Phase' = Phase, UNCHANGED token, Due \in Nat, Due' \in Nat,
           Due' = Due \/ Due' = Due - 1
    PROVE  ScopeStep
  <1>1. CASE Due' = Due
    BY <1>1 DEF ScopeStep, Scope!scopeVars, Phase
  <1>2. CASE Due' = Due - 1
    BY <1>2 DEF ScopeStep, Scope!ScopeNext, Scope!Settle, Phase
  <1> QED
    BY <1>1, <1>2

(* It starts an action.                                                    *)
LEMMA BeginStep ==
    ASSUME stack # <<>>, stack' # <<>>, token = "live", UNCHANGED token, Due' = Due + 1
    PROVE  ScopeStep
  BY DEF ScopeStep, Scope!ScopeNext, Scope!Begin

(* It ends, and if by the cancellation, by raising.                        *)
LEMMA EndStep ==
    ASSUME stack # <<>>, stack' = <<>>, Due' = Due,
           \/ UNCHANGED token
           \/ token' = "cancelled" /\ ret' = "cancelled"
    PROVE  ScopeStep
  <1>1. Phase = "running" /\ Phase' \in {"returned", "raised"}
    BY DEF Phase
  <1>2. ret' = "cancelled" => Phase' = "raised"
    BY DEF Phase, Raised
  <1> QED
    BY <1>1, <1>2 DEF ScopeStep, Scope!ScopeNext, Scope!End, Phase

(* Every step of a transaction is a step of its scope ...                  *)
LEMMA ShapeRefines ==
    ASSUME ScopeInv, Shape
    PROVE  ScopeStep
  <1>0. Due \in Nat
    BY DEF Due
  <1>1. ASSUME UNCHANGED token, Due' = Due PROVE ScopeStep
    <2>1. CASE stack' # <<>>
      BY <1>0, <1>1, <2>1, SettleStep DEF Shape, Phase
    <2>2. CASE stack' = <<>>
      BY <1>1, <2>2, EndStep DEF Shape
    <2> QED
      BY <2>1, <2>2
  <1>2. CASE UNCHANGED <<token, client>>
    BY <1>1, <1>2 DEF Due
  <1>3. ASSUME token = "live", stack' # <<>>, UNCHANGED token, NEW k, client' = Started(k)
        PROVE  ScopeStep
    <2>1. /\ client'.run = k
          /\ client'.late = IF client.run = Idle THEN client.late ELSE client.run
      BY <1>3, ClientStarted DEF ScopeInv
    <2>2. Due' = Due + 1 \/ Due' = Due \/ Due' = Due - 1
      BY <2>1, DueCounts, DueCountsNext
    <2>3. Due' \in Nat /\ Phase' = Phase
      BY <1>3, <2>1, DueCountsNext DEF Phase, Shape
    <2> QED
      BY <1>0, <1>3, <2>2, <2>3, BeginStep, SettleStep DEF Shape
  <1>4. CASE UNCHANGED token /\ client' = [client EXCEPT !.unknown = TRUE]
    <2>1. client'.run = client.run /\ client'.late = client.late
      BY <1>4, ClientLeft DEF ScopeInv
    <2>2. Due' = Due
      BY <2>1 DEF Due
    <2> QED
      BY <1>1, <1>4, <2>2
  <1>5. CASE /\ token = "live" /\ token' = "cancelled" /\ UNCHANGED client
             /\ stack' = <<>> /\ ret' = "cancelled"
    <2>1. Due' = Due
      BY <1>5 DEF Due
    <2> QED
      BY <1>5, <2>1, EndStep DEF Shape
  <1> QED
    BY <1>2, <1>3, <1>4, <1>5 DEF Shape

(* ... and so is every step of the client.                                 *)
LEMMA ClientRefines ==
    ASSUME ScopeInv, Client
    PROVE  ScopeStep
  <1>1. UNCHANGED <<stack, ret, token>>
    BY DEF Client, _run_action, LateEffect, confirm_control_idle
  <1>2. Phase' = Phase
    BY <1>1 DEF Phase
  <1>3. Due \in Nat
    BY DEF Due
  <1>4. Due' \in Nat /\ (Due' = Due \/ Due' = Due - 1)
    <2>1. CASE _run_action
      <3>1. client.run # Idle /\ client'.run = Idle
            /\ client'.late \in {client.late, client.run}
        BY <2>1, RunEnds DEF ScopeInv, _run_action
      <3> QED
        BY <3>1, DueCounts, DueCountsNext
    <2>2. CASE LateEffect
      <3>1. client.late # Idle /\ client'.late = Idle /\ client'.run = client.run
        BY <2>2 DEF LateEffect, ScopeInv, IsClient
      <3> QED
        BY <3>1, DueCounts, DueCountsNext
    <2>3. CASE confirm_control_idle
      <3>1. client'.late = client.late /\ client'.run = client.run
        BY <2>3 DEF confirm_control_idle, ScopeInv, IsClient
      <3> QED
        BY <1>3, <3>1 DEF Due
    <2> QED
      BY <2>1, <2>2, <2>3 DEF Client
  <1> QED
    BY <1>1, <1>2, <1>3, <1>4, SettleStep

LEMMA NextRefines ==
    ASSUME ScopeInv, [Next]_allVars
    PROVE  ScopeStep
  <1>1. CASE Transact
    BY <1>1, TransactShape, ShapeRefines DEF ScopeInv
  <1>2. CASE Client
    BY <1>2, ClientRefines
  <1>3. CASE cancel
    <2>1. /\ stack # <<>> /\ token = "live" /\ token' = "cancelled"
          /\ UNCHANGED <<stack, ret, client>>
      BY <1>3 DEF cancel
    <2>2. Due' = Due
      BY <2>1 DEF Due
    <2> QED
      BY <2>1, <2>2 DEF ScopeStep, Scope!ScopeNext, Scope!Cancel
  <1>4. CASE Game \/ Stray \/ Ended \/ UNCHANGED allVars
    <2>1. UNCHANGED <<stack, ret, client, token>>
      BY <1>4 DEF Game, Stray, Ended, allVars, vars
    <2> QED
      BY <2>1 DEF ScopeStep, Scope!scopeVars, Due
  <1> QED
    BY <1>1, <1>2, <1>3, <1>4 DEF Next

(* For every number of units, strays and polls: the transactions implement *)
(* TransactionScope.  No tool starts a native action after its scope was   *)
(* cancelled or after it ended, whichever of its calls the cancellation or *)
(* a timeout comes in, and each ends once.                                 *)
THEOREM TransactionsKeepScope == Spec => ScopeKept
  <1>1. Init => Scope!ScopeInit
    <2> SUFFICES ASSUME Init PROVE Scope!ScopeInit
      OBVIOUS
    <2>1. PICK f, v : stack = <<Frame(f, v)>>
      BY DEF Init
    <2>2. stack # <<>> /\ client = ClientStart /\ token = "live"
      BY <2>1 DEF Init
    <2>3. Due = 0
      BY <2>2 DEF Due, ClientStart
    <2> QED
      BY <2>2, <2>3 DEF Scope!ScopeInit
  <1>2. ScopeInv /\ [Next]_allVars => ScopeInv'
    BY NextSafe
  <1>3. ScopeInv /\ [Next]_allVars => [Scope!ScopeNext]_(Scope!scopeVars)
    BY NextRefines DEF ScopeStep
  <1> QED
    BY <1>1, <1>2, <1>3, InitSafe, PTL DEF Spec, ScopeKept, Scope!ScopeSpec
\* ----- what is on the stack and in the client ------------------------------

IsFrame(f) == f = [fn |-> f.fn, at |-> f.at, x |-> f.x, n |-> f.n]

(* The functions whose argument becomes what a native action is done to.   *)
Choosy == {"_dispatch", "transfer_slot", "nearest_furnace",
           "mine_block", "mine_block_dry", "mine_block_collect", "place_block", "place_here"}

Verbs == {"ready", "go", "spawn", "wear", "use", "eat", "shift", "dump", "place", "break", "grab",
          "rise", "ascend", "sink", "climb", "pillar", "seal", "mine", "load", "stoke", "take", "unload"}

(* A native action is one of a kind the client has, not on what the        *)
(* properties are about, and where the flag says so it breaks nothing.     *)
Ordinary(k, calm) ==
    /\ k = Idle \/ k[1] \in Verbs
    /\ k[2] \notin {"hurt", "hazard"}
    /\ calm => k[1] # "break"

Fit(f, calm) ==
    /\ IsFrame(f)
    /\ f.fn \in {"_dispatch", "transfer_slot"} => Ordinary(f.x, calm)
    /\ f.fn = "nearest_furnace" => f.x \in {"smelt_once", "clear_furnace"}
    /\ f.fn \in Choosy \ {"_dispatch", "transfer_slot", "nearest_furnace"} =>
          f.x \in {"cell", "site", "seal", "pillar"}

IsWorld == DOMAIN world = DOMAIN Plain

Ground(calm) ==
    /\ IsWorld
    /\ \A i \in 1..Len(stack) : Fit(stack[i], calm)
    /\ Ordinary(client.run, calm) /\ Ordinary(client.late, calm)

Unharmed == world'.hurt = world.hurt /\ world'.hazard = world.hazard

\* Nothing but BlockWork breaks a block.
Elsewhere == entry.family # "block"

(* Where the frames of the stack are after it has been worked on.          *)
LEMMA StandAt ==
    ASSUME IsStack, stack # <<>>, NEW frame, Stand(frame)
    PROVE  /\ Len(stack) \in Nat \ {0} /\ Len(stack') = Len(stack)
           /\ stack'[Len(stack)] = frame
           /\ \A i \in 1..(Len(stack) - 1) : stack'[i] = stack[i]
  <1>1. stack \in Seq(Range(stack) \cup {frame}) /\ Len(stack) \in Nat \ {0}
    BY SeqMonotonic, EmptySeq DEF IsStack
  <1>2. Len(stack) \in 1..Len(stack)
    BY <1>1
  <1>3. stack' = [stack EXCEPT ![Len(stack)] = frame]
    BY DEF Stand
  <1> QED
    BY <1>1, <1>2, <1>3, ExceptSeq

LEMMA PushAt ==
    ASSUME IsStack, stack # <<>>, NEW f, NEW v, NEW l,
           stack' = Append([stack EXCEPT ![Len(stack)].at = l], Frame(f, v))
    PROVE  /\ Len(stack) \in Nat \ {0} /\ Len(stack') = Len(stack) + 1
           /\ stack'[Len(stack) + 1] = Frame(f, v)
           /\ stack'[Len(stack)] = [Here EXCEPT !.at = l]
           /\ \A i \in 1..(Len(stack) - 1) : stack'[i] = stack[i]
  <1>1. PICK top : top = [stack[Len(stack)] EXCEPT !.at = l]
    OBVIOUS
  <1>2. PICK s : s = [stack EXCEPT ![Len(stack)] = top]
    OBVIOUS
  <1> DEFINE S == Range(stack) \cup {top, Frame(f, v)}
  <1>3. stack \in Seq(S) /\ Len(stack) \in Nat \ {0}
    BY SeqMonotonic, EmptySeq DEF IsStack
  <1>4. /\ s \in Seq(S) /\ Len(s) = Len(stack)
        /\ s[Len(stack)] = top
        /\ \A i \in 1..(Len(stack) - 1) : s[i] = stack[i]
    BY <1>2, <1>3, ExceptSeq
  <1>5. stack' = Append(s, Frame(f, v))
    BY <1>1, <1>2
  <1>6. Frame(f, v) \in S
    OBVIOUS
  <1>7. PICK new : new = Frame(f, v)
    OBVIOUS
  <1>8. PICK after : after = Append(s, new)
    OBVIOUS
  <1>9. /\ Len(after) = Len(s) + 1 /\ after[Len(s) + 1] = new
        /\ \A i \in 1..Len(s) : after[i] = s[i]
    BY <1>4, <1>6, <1>7, <1>8, AppendProperties
  <1>10. stack' = after
    BY <1>5, <1>7, <1>8
  <1>11. /\ Len(stack') = Len(stack) + 1 /\ stack'[Len(stack) + 1] = new
         /\ \A i \in 1..Len(stack) : stack'[i] = s[i]
    BY <1>4, <1>9, <1>10
  <1>12. Len(stack) \in 1..Len(stack) /\ \A i \in 1..(Len(stack) - 1) : i \in 1..Len(stack)
    BY <1>3
  <1> QED
    BY <1>1, <1>3, <1>4, <1>7, <1>11, <1>12 DEF Here

LEMMA PopAt ==
    ASSUME IsStack, NEW d \in 0..Len(stack), stack' = SubSeq(stack, 1, d)
    PROVE  Len(stack') = d /\ \A i \in 1..d : stack'[i] = stack[i]
  <1>1. stack \in Seq(Range(stack)) /\ Len(stack) \in Nat
    BY LenProperties DEF IsStack
  <1>2. \A i \in 1..d : stack[i] \in Range(stack)
    BY <1>1, ElementOfSeq
  <1> QED
    BY <1>1, <1>2, SubSeqProperties

LEMMA ReturnAt ==
    ASSUME IsStack, stack # <<>>, stack' = SubSeq(stack, 1, Len(stack) - 1)
    PROVE  /\ Len(stack) \in Nat \ {0} /\ Len(stack') = Len(stack) - 1
           /\ \A i \in 1..(Len(stack) - 1) : stack'[i] = stack[i]
  <1>1. Len(stack) \in Nat \ {0}
    BY EmptySeq DEF IsStack
  <1>2. PICK d : d = Len(stack) - 1
    OBVIOUS
  <1>3. d \in 0..Len(stack)
    BY <1>1, <1>2
  <1> QED
    BY <1>1, <1>2, <1>3, PopAt

LEMMA RaiseAt ==
    ASSUME IsStack, stack # <<>>, NEW e, Raise(e)
    PROVE  \E d \in 0..Len(stack) :
              /\ Len(stack) \in Nat \ {0}
              /\ d > 0 => Catches(stack[d], e)
              /\ \A i \in (d + 1)..Len(stack) : ~Catches(stack[i], e)
              /\ Len(stack') = d /\ \A i \in 1..d : stack'[i] = stack[i]
  <1>1. PICK d \in 0..Len(stack) :
           /\ d > 0 => Catches(stack[d], e)
           /\ \A i \in (d + 1)..Len(stack) : ~Catches(stack[i], e)
           /\ stack' = SubSeq(stack, 1, d)
    BY DEF Raise
  <1>2. Len(stack') = d /\ \A i \in 1..d : stack'[i] = stack[i]
    BY <1>1, PopAt
  <1>3. Len(stack) \in Nat \ {0}
    BY EmptySeq DEF IsStack
  <1> QED
    BY <1>1, <1>2, <1>3


(* What a step leaves as it was.                                           *)
GroundStep(calm) == Ground(calm)' /\ Unharmed

(* A frame that goes on, counts, or takes up another local value.          *)
LEMMA FitEdits ==
    ASSUME NEW h, NEW calm, Fit(h, calm), NEW l, NEW v, NEW m
    PROVE  /\ Fit([h EXCEPT !.at = l], calm)
           /\ Fit([h EXCEPT !.at = l, !.n = @ + 1], calm)
           /\ h.fn \notin Choosy \/ v = h.x => Fit([h EXCEPT !.at = l, !.x = v], calm)
           /\ h.fn \notin Choosy \/ v = h.x => Fit([h EXCEPT !.at = l, !.x = v, !.n = m], calm)
  <1>1. \A g : /\ (g.fn = h.fn /\ g.x = h.x) \/ (g.fn = h.fn /\ h.fn \notin Choosy)
               /\ IsFrame(g)
               => Fit(g, calm)
    BY DEF Fit, Choosy
  <1>2. PICK g : g = [h EXCEPT !.at = l]
    OBVIOUS
  <1>3. g = [fn |-> h.fn, at |-> l, x |-> h.x, n |-> h.n]
    BY <1>2 DEF Fit, IsFrame
  <1>4. PICK c : c = [g EXCEPT !.n = h.n + 1]
    OBVIOUS
  <1>5. c = [fn |-> h.fn, at |-> l, x |-> h.x, n |-> h.n + 1]
    BY <1>3, <1>4
  <1>6. PICK k : k = [g EXCEPT !.x = v]
    OBVIOUS
  <1>7. k = [fn |-> h.fn, at |-> l, x |-> v, n |-> h.n]
    BY <1>3, <1>6
  <1>8. PICK j : j = [k EXCEPT !.n = m]
    OBVIOUS
  <1>9. j = [fn |-> h.fn, at |-> l, x |-> v, n |-> m]
    BY <1>7, <1>8
  <1>10. Fit(g, calm)
    BY <1>1, <1>3 DEF IsFrame
  <1>11. Fit(c, calm)
    BY <1>1, <1>5 DEF IsFrame
  <1>12. h.fn \notin Choosy \/ v = h.x => Fit(k, calm)
    BY <1>1, <1>7 DEF IsFrame
  <1>13. h.fn \notin Choosy \/ v = h.x => Fit(j, calm)
    BY <1>1, <1>9 DEF IsFrame
  <1> QED
    BY <1>2, <1>4, <1>6, <1>8, <1>10, <1>11, <1>12, <1>13

LEMMA HereFits ==
    ASSUME IsStack, stack # <<>>, NEW calm, Ground(calm)
    PROVE  /\ Fit(Here, calm)
           /\ \A l : Fit([Here EXCEPT !.at = l], calm)
           /\ \A l : Fit([Here EXCEPT !.at = l, !.n = @ + 1], calm)
           /\ \A l, v : Here.fn \notin Choosy \/ v = Here.x => Fit([Here EXCEPT !.at = l, !.x = v], calm)
           /\ \A l, v, m : Here.fn \notin Choosy \/ v = Here.x =>
                 Fit([Here EXCEPT !.at = l, !.x = v, !.n = m], calm)
  <1>1. Len(stack) \in Nat \ {0}
    BY EmptySeq DEF IsStack
  <1>2. Fit(Here, calm)
    BY <1>1 DEF Ground, Here
  <1> QED
    BY <1>2, FitEdits

(* A frame that is new.                                                    *)
LEMMA FrameFits ==
    ASSUME NEW f, NEW v, NEW calm
    PROVE  /\ f \notin Choosy => Fit(Frame(f, v), calm)
           /\ f \in {"_dispatch", "transfer_slot"} /\ Ordinary(v, calm) => Fit(Frame(f, v), calm)
           /\ f \in Choosy \ {"_dispatch", "transfer_slot", "nearest_furnace"} /\ v \in {"cell", "site", "seal", "pillar"} =>
                 Fit(Frame(f, v), calm)
  <1>1. PICK h : h = [fn |-> f, at |-> "begin", x |-> v, n |-> 0]
    OBVIOUS
  <1>2. /\ h.fn = f /\ h.x = v
        /\ IsFrame(h)
    BY <1>1 DEF IsFrame
  <1>3. h = Frame(f, v)
    BY <1>1 DEF Frame
  <1>4. f \notin Choosy => Fit(h, calm)
    BY <1>2 DEF Fit, Choosy
  <1>5. f \in {"_dispatch", "transfer_slot"} /\ Ordinary(v, calm) => Fit(h, calm)
    BY <1>2 DEF Fit
  <1>6. f \in Choosy \ {"_dispatch", "transfer_slot", "nearest_furnace"} /\ v \in {"cell", "site", "seal", "pillar"}
        => Fit(h, calm)
    BY <1>2 DEF Fit
  <1> QED
    BY <1>3, <1>4, <1>5, <1>6

(* The stack after a step, when world and client are as they should be.    *)
LEMMA GroundEdits ==
    ASSUME IsStack, stack # <<>>, NEW calm, Ground(calm), IsWorld', Unharmed,
           Ordinary(client'.run, calm), Ordinary(client'.late, calm)
    PROVE  /\ \A frame : Stand(frame) /\ Fit(frame, calm) => GroundStep(calm)
           /\ \A f, v, l : /\ stack' = Append([stack EXCEPT ![Len(stack)].at = l], Frame(f, v))
                           /\ Fit(Frame(f, v), calm)
                           => GroundStep(calm)
           /\ stack' = SubSeq(stack, 1, Len(stack) - 1) => GroundStep(calm)
           /\ \A e : Raise(e) => GroundStep(calm)
  <1>1. (\A i \in 1..Len(stack') : Fit(stack'[i], calm)) => GroundStep(calm)
    BY DEF GroundStep, Ground
  <1>2. \A i \in 1..Len(stack) : Fit(stack[i], calm)
    BY DEF Ground
  <1>3. ASSUME NEW frame, Stand(frame), Fit(frame, calm) PROVE GroundStep(calm)
    <2>1. /\ Len(stack) \in Nat \ {0} /\ Len(stack') = Len(stack)
          /\ stack'[Len(stack)] = frame
          /\ \A i \in 1..(Len(stack) - 1) : stack'[i] = stack[i]
      BY <1>3, StandAt
    <2> QED
      BY <1>1, <1>2, <1>3, <2>1
  <1>4. ASSUME NEW f, NEW v, NEW l,
               stack' = Append([stack EXCEPT ![Len(stack)].at = l], Frame(f, v)),
               Fit(Frame(f, v), calm)
        PROVE  GroundStep(calm)
    <2>1. /\ Len(stack) \in Nat \ {0} /\ Len(stack') = Len(stack) + 1
          /\ stack'[Len(stack) + 1] = Frame(f, v)
          /\ stack'[Len(stack)] = [Here EXCEPT !.at = l]
          /\ \A i \in 1..(Len(stack) - 1) : stack'[i] = stack[i]
      BY <1>4, PushAt
    <2>2. Fit([Here EXCEPT !.at = l], calm)
      BY HereFits
    <2>3. Fit(stack'[Len(stack) + 1], calm) /\ Fit(stack'[Len(stack)], calm)
      BY <1>4, <2>1, <2>2, Zenon
    <2> QED
      BY <1>1, <1>2, <2>1, <2>3
  <1>5. ASSUME stack' = SubSeq(stack, 1, Len(stack) - 1) PROVE GroundStep(calm)
    <2>1. /\ Len(stack) \in Nat \ {0} /\ Len(stack') = Len(stack) - 1
          /\ \A i \in 1..(Len(stack) - 1) : stack'[i] = stack[i]
      BY <1>5, ReturnAt
    <2> QED
      BY <1>1, <1>2, <2>1
  <1>6. ASSUME NEW e, Raise(e) PROVE GroundStep(calm)
    <2>1. PICK d \in 0..Len(stack) :
             Len(stack) \in Nat \ {0} /\ Len(stack') = d /\ \A i \in 1..d : stack'[i] = stack[i]
      BY <1>6, RaiseAt
    <2> QED
      BY <1>1, <1>2, <2>1
  <1> QED
    BY <1>3, <1>4, <1>5, <1>6, Zenon

(* Going on, calling and returning leave the world and the client alone.   *)
LEMMA GroundCalls ==
    ASSUME IsStack, stack # <<>>, NEW calm, Ground(calm)
    PROVE  /\ \A l : Goto(l) => GroundStep(calm)
           /\ \A l : Count(l) => GroundStep(calm)
           /\ \A l, v : Keep(l, v) /\ (Here.fn \notin Choosy \/ v = Here.x) => GroundStep(calm)
           /\ \A l, v, m : KeepCount(l, v, m) /\ (Here.fn \notin Choosy \/ v = Here.x) => GroundStep(calm)
           /\ \A f, v, l : Call(f, v, l) /\ f \notin Choosy => GroundStep(calm)
           /\ \A f, v, l : Call(f, v, l) /\ f \in {"_dispatch", "transfer_slot"} /\ Ordinary(v, calm) => GroundStep(calm)
           /\ \A f, v, l : /\ Call(f, v, l) /\ v \in {"cell", "site", "seal", "pillar"}
                           /\ f \in Choosy \ {"_dispatch", "transfer_slot", "nearest_furnace"}
                           => GroundStep(calm)
           /\ \A r : Return(r) => GroundStep(calm)
           /\ \A e : Raise(e) /\ UNCHANGED <<client, world>> => GroundStep(calm)
  <1>1. ASSUME UNCHANGED <<client, world>>
        PROVE  IsWorld' /\ Unharmed /\ Ordinary(client'.run, calm) /\ Ordinary(client'.late, calm)
    BY <1>1 DEF Ground, IsWorld, Unharmed
  <1>2. \A l : Goto(l) => GroundStep(calm)
    BY <1>1, GroundEdits, HereFits DEF Goto, Outside
  <1>3. \A l : Count(l) => GroundStep(calm)
    BY <1>1, GroundEdits, HereFits DEF Count, Outside
  <1>4. \A l, v : Keep(l, v) /\ (Here.fn \notin Choosy \/ v = Here.x) => GroundStep(calm)
    BY <1>1, GroundEdits, HereFits DEF Keep, Outside
  <1>5. \A l, v, m : KeepCount(l, v, m) /\ (Here.fn \notin Choosy \/ v = Here.x) => GroundStep(calm)
    BY <1>1, GroundEdits, HereFits DEF KeepCount, Outside
  <1>6. \A f, v, l : Call(f, v, l) /\ Fit(Frame(f, v), calm) => GroundStep(calm)
    BY <1>1, GroundEdits DEF Call, Outside
  <1>7. \A f, v, l : Call(f, v, l) /\ f \notin Choosy => GroundStep(calm)
    BY <1>6, FrameFits
  <1>8. \A f, v, l : Call(f, v, l) /\ f \in {"_dispatch", "transfer_slot"} /\ Ordinary(v, calm) => GroundStep(calm)
    BY <1>6, FrameFits
  <1>9. \A f, v, l : /\ Call(f, v, l) /\ v \in {"cell", "site", "seal", "pillar"}
                     /\ f \in Choosy \ {"_dispatch", "transfer_slot", "nearest_furnace"}
                     => GroundStep(calm)
    BY <1>6, FrameFits
  <1>10. \A r : Return(r) => GroundStep(calm)
    BY <1>1, GroundEdits DEF Return, Outside
  <1>11. \A e : Raise(e) /\ UNCHANGED <<client, world>> => GroundStep(calm)
    BY <1>1, GroundEdits
  <1> QED
    BY <1>2, <1>3, <1>4, <1>5, <1>7, <1>8, <1>9, <1>10, <1>11, Zenon

LEMMA GroundExecute ==
    ASSUME IsStack, IsClient, stack # <<>>, NEW calm, Ground(calm), NEW k, NEW l,
           Execute(k, l), Ordinary(k, calm)
    PROVE  GroundStep(calm)
  <1>1. CASE token = "cancelled" /\ Raise("cancelled") /\ UNCHANGED <<token, client, world, strays>>
    BY <1>1, GroundCalls
  <1>2. CASE Fail
    BY <1>2, GroundCalls DEF Fail
  <1>3. CASE /\ client' = Started(k)
             /\ Stand([Here EXCEPT !.at = l])
             /\ UNCHANGED <<ret, token, world, strays>>
    <2>1. /\ client'.run = k
          /\ client'.late = IF client.run = Idle THEN client.late ELSE client.run
      BY <1>3, ClientStarted
    <2>2. Ordinary(client'.run, calm) /\ Ordinary(client'.late, calm)
      BY <2>1 DEF Ground
    <2>3. IsWorld' /\ Unharmed
      BY <1>3 DEF Ground, IsWorld, Unharmed
    <2> QED
      BY <1>3, <2>2, <2>3, GroundEdits, HereFits
  <1> QED
    BY <1>1, <1>2, <1>3 DEF Execute, Started

(* What another family promises leaves the shape of the world, the harm    *)
(* and the hazard as they were.                                            *)
Spared(u, w) == DOMAIN u = DOMAIN w /\ u.hurt = w.hurt /\ u.hazard = w.hazard

HasHarm(w) == {"hurt", "hazard"} \subseteq DOMAIN w

LEMMA EditSpares ==
    ASSUME NEW w, HasHarm(w)
    PROVE  /\ \A b : Spared([w EXCEPT !.near = b], w)
           /\ \A v : v \notin {"hurt", "hazard"} => \A b : Spared([w EXCEPT ![v] = b], w)
           /\ \A u : Spared(u, w) => \A b : Spared([u EXCEPT !.bag = b], w)
  BY DEF Spared, HasHarm

(* A walk changes where the Body is, and nothing else.                     *)
Elsewhither(w, b, c) == [[w EXCEPT !.near = b] EXCEPT !.there = c]

LEMMA SparesNavigate ==
    ASSUME NEW w, NEW v
    PROVE  \A o \in Promise("navigate_to", v, w) : \E b, c : o[1] = Elsewhither(w, b, c)
  <1> DEFINE Us == {[w EXCEPT !.near = b] : b \in BOOLEAN}
             Arrived(u) == <<[u EXCEPT !.there = TRUE], "ok">>
             Walked(u, c, r) == <<[u EXCEPT !.there = @ \/ c], r>>
             P == {Arrived(u) : u \in Us} \cup
                  {Walked(u, c, r) : u \in Us, c \in BOOLEAN, r \in {"failed", "paused"}}
  <1>1. Promise("navigate_to", v, w) = P
    BY DEF Promise
  <1>3. \A u, d, r, o : o = <<[u EXCEPT !.there = d], r>> => o[1] = [u EXCEPT !.there = d]
    OBVIOUS
  <1> HIDE DEF P, Us, Arrived, Walked
  <1>2. ASSUME NEW o \in P
        PROVE  \E b, c : o[1] = Elsewhither(w, b, c)
    <2>1. \/ \E u \in Us : o = Arrived(u)
          \/ \E u \in Us, c \in BOOLEAN, r \in {"failed", "paused"} : o = Walked(u, c, r)
      BY DEF P
    <2>2. \A u \in Us : \E b : u = [w EXCEPT !.near = b]
      BY Zenon DEF Us
    <2>3. PICK u \in Us : \E d, r : o = <<[u EXCEPT !.there = d], r>>
      BY <2>1, Zenon DEF Arrived, Walked
    <2>4. PICK b : u = [w EXCEPT !.near = b]
      BY <2>2
    <2>5. PICK d, r : o = <<[u EXCEPT !.there = d], r>>
      BY <2>3
    <2>6. o[1] = Elsewhither(w, b, d)
      BY <1>3, <2>4, <2>5 DEF Elsewhither
    <2> QED
      BY <2>6, Zenon
  <1> QED
    BY <1>1, <1>2, Zenon

LEMMA SparesReach ==
    ASSUME NEW w, HasHarm(w), NEW v
    PROVE  \A o \in Promise("ensure_interaction_range", v, w) : Spared(o[1], w)
  <1> DEFINE P == {<<[w EXCEPT !.near = TRUE], "ok">>} \cup {<<[w EXCEPT !.near = b], "failed">> : b \in BOOLEAN}
  <1>1. Promise("ensure_interaction_range", v, w) = P
    BY DEF Promise
  <1> HIDE DEF P
  <1>2. ASSUME NEW o \in P PROVE Spared(o[1], w)
    <2>1. o = <<[w EXCEPT !.near = TRUE], "ok">> \/ \E b \in BOOLEAN : o = <<[w EXCEPT !.near = b], "failed">>
      BY Zenon DEF P
    <2>2. ASSUME NEW b, NEW r, o = <<[w EXCEPT !.near = b], r>> PROVE Spared(o[1], w)
      BY <2>2, EditSpares
    <2> QED
      BY <2>1, <2>2, Zenon
  <1> QED
    BY <1>1, <1>2, Zenon

LEMMA SparesEscape ==
    ASSUME NEW w, HasHarm(w), NEW v
    PROVE  /\ \A o \in Promise("egress_to_dry", v, w) : Spared(o[1], w)
           /\ \A o \in Promise("go_to_surface", v, w) : Spared(o[1], w)
           /\ \A o \in Promise("dig_down_to_y", v, w) : Spared(o[1], w)
  <1> DEFINE Moved1(b, r) == <<[w EXCEPT !.near = b], r>>
             P == {Moved1(b, r) : b \in BOOLEAN, r \in {"ok", "failed"}}
  <1>1. Promise("egress_to_dry", v, w) = P
    BY DEF Promise
  <1>2. Promise("go_to_surface", v, w) = P
    BY DEF Promise
  <1>3. Promise("dig_down_to_y", v, w) = P
    BY DEF Promise
  <1>4. \A b, r : Spared(Moved1(b, r)[1], w)
    BY EditSpares
  <1> HIDE DEF P, Moved1
  <1>5. ASSUME NEW o \in P PROVE Spared(o[1], w)
    <2>1. \E b, r : o = Moved1(b, r)
      BY DEF P
    <2> QED
      BY <1>4, <2>1, Zenon
  <1> QED
    BY <1>1, <1>2, <1>3, <1>5, Zenon

LEMMA SparesPlace ==
    ASSUME NEW w, HasHarm(w), NEW v, v \notin {"hurt", "hazard"}
    PROVE  /\ \A o \in Promise("place_block", v, w) : Spared(o[1], w)
           /\ \A o \in Promise("place_here", v, w) : Spared(o[1], w)
  <1> DEFINE P == {<<[w EXCEPT ![v] = TRUE], "ok">>, <<w, "refused">>} \cup
                  {<<[w EXCEPT ![v] = b], "failed">> : b \in BOOLEAN}
             Stood(b, r) == <<[w EXCEPT ![v] = b], r>>
             done == <<[w EXCEPT ![v] = TRUE], "ok">>
             Q == {done} \cup
                  {Stood(b, r) : b \in BOOLEAN, r \in {"failed", "refused"}}
  <1>1. Promise("place_block", v, w) = P
    BY DEF Promise
  <1>2. Promise("place_here", v, w) = Q
    BY DEF Promise
  <1> HIDE DEF P, Q, Stood, done
  <1>3. ASSUME NEW o, NEW b, NEW r, o = <<w, "refused">> \/ o = <<[w EXCEPT ![v] = b], r>>
        PROVE  Spared(o[1], w)
    <2>1. Spared(w, w)
      BY DEF Spared
    <2> QED
      BY <1>3, <2>1, EditSpares
  <1>4. ASSUME NEW o \in P PROVE Spared(o[1], w)
    <2>1. \/ o = <<[w EXCEPT ![v] = TRUE], "ok">> \/ o = <<w, "refused">>
          \/ \E b \in BOOLEAN : o = <<[w EXCEPT ![v] = b], "failed">>
      BY Zenon DEF P
    <2> QED
      BY <1>3, <2>1, Zenon
  <1>5. ASSUME NEW o \in Q PROVE Spared(o[1], w)
    <2>1. o = done \/ \E b \in BOOLEAN, r \in {"failed", "refused"} : o = Stood(b, r)
      BY DEF Q
    <2> QED
      BY <1>3, <2>1, Zenon DEF Stood, done
  <1> QED
    BY <1>1, <1>2, <1>4, <1>5, Zenon

LEMMA SparesMine ==
    ASSUME NEW w, HasHarm(w), NEW v, v \notin {"hurt", "hazard"}
    PROVE  /\ \A o \in Promise("mine_block", v, w) : Spared(o[1], w)
           /\ \A o \in Promise("mine_block_collect", v, w) : Spared(o[1], w)
  <1> DEFINE Us == {[w EXCEPT ![v] = b] : b \in {w[v], FALSE}}
             u0 == [w EXCEPT ![v] = FALSE]
             P == {<<[w EXCEPT ![v] = FALSE], "ok">>} \cup
                  {<<[w EXCEPT ![v] = b], "failed">> : b \in {w[v], FALSE}}
             Gathered(u, c) == <<[u EXCEPT !.bag = @ + c], "failed">>
             Q == {<<[u0 EXCEPT !.bag = @ + 1], "ok">>} \cup {Gathered(u, c) : u \in Us, c \in 0..1}
  <1>1. Promise("mine_block", v, w) = P
    BY DEF Promise
  <1>2. Promise("mine_block_collect", v, w) = Q
    BY DEF Promise
  <1> HIDE DEF P, Q, Us, u0
  <1>3. ASSUME NEW o \in P PROVE Spared(o[1], w)
    <2>1. \/ o = <<[w EXCEPT ![v] = FALSE], "ok">>
          \/ \E b \in {w[v], FALSE} : o = <<[w EXCEPT ![v] = b], "failed">>
      BY Zenon DEF P
    <2>2. ASSUME NEW b, NEW r, o = <<[w EXCEPT ![v] = b], r>> PROVE Spared(o[1], w)
      BY <2>2, EditSpares
    <2> QED
      BY <2>1, <2>2, Zenon
  <1>4. Spared(u0, w)
    BY EditSpares DEF u0
  <1>5. \A u \in Us : \E b : u = [w EXCEPT ![v] = b]
    BY Zenon DEF Us
  <1>6. \A u \in Us : Spared(u, w)
    <2>1. \A b : Spared([w EXCEPT ![v] = b], w)
      BY EditSpares
    <2> QED
      BY <1>5, <2>1, Zenon
  <1>7. ASSUME NEW o \in Q PROVE Spared(o[1], w)
    <2>1. ASSUME NEW u, Spared(u, w), NEW b, NEW r, o = <<[u EXCEPT !.bag = b], r>> PROVE Spared(o[1], w)
      BY <2>1, EditSpares
    <2>2. ASSUME NEW u \in Us, NEW c, o = Gathered(u, c) PROVE Spared(o[1], w)
      BY <1>6, <2>1, <2>2, Zenon DEF Gathered
    <2>3. o = <<[u0 EXCEPT !.bag = @ + 1], "ok">> => Spared(o[1], w)
      BY <1>4, <2>1, Zenon
    <2> HIDE DEF Gathered
    <2>4. o = <<[u0 EXCEPT !.bag = @ + 1], "ok">> \/ \E u \in Us, c \in 0..1 : o = Gathered(u, c)
      BY DEF Q
    <2> QED
      BY <2>2, <2>3, <2>4, Zenon
  <1> QED
    BY <1>1, <1>2, <1>3, <1>7, Zenon

LEMMA SparesPickup ==
    ASSUME NEW w, HasHarm(w), NEW v
    PROVE  \A o \in Promise("pickup", v, w) : Spared(o[1], w)
  <1> DEFINE taken == [w EXCEPT !.bag = @ + w.drop, !.drop = 0]
             P == {<<taken, "ok">>, <<taken, "failed">>, <<w, "failed">>}
  <1>1. Promise("pickup", v, w) = P
    BY DEF Promise
  <1>2. Spared(taken, w) /\ Spared(w, w)
    BY DEF Spared, HasHarm
  <1> HIDE DEF taken
  <1>3. \A o \in P : o[1] = w \/ o[1] = taken
    OBVIOUS
  <1> HIDE DEF P
  <1> QED
    BY <1>1, <1>2, <1>3, Zenon

LEMMA GroundContracted ==
    ASSUME IsStack, IsClient, stack # <<>>, NEW calm, Ground(calm), NEW l,
           NEW outcomes, \A o \in outcomes : Spared(o[1], world), Contracted(outcomes, l)
    PROVE  GroundStep(calm)
  <1>1. IsWorld' /\ Unharmed
    <2>1. world' = world \/ \E o \in outcomes : world' = o[1]
      BY DEF Contracted
    <2>2. world' = world \/ Spared(world', world)
      BY <2>1
    <2> QED
      BY <2>2 DEF Ground, IsWorld, Unharmed, Spared
  <1>2. Ordinary(client'.run, calm) /\ Ordinary(client'.late, calm)
    <2>1. client' = client \/ client' = [client EXCEPT !.unknown = TRUE]
      BY DEF Contracted
    <2>2. client'.run = client.run /\ client'.late = client.late
      BY <2>1, ClientLeft
    <2> QED
      BY <2>2 DEF Ground
  <1>3. \/ Stand([Here EXCEPT !.at = l])
        \/ \E e : Raise(e)
    BY DEF Contracted
  <1> QED
    BY <1>1, <1>2, <1>3, GroundEdits, HereFits

LEMMA GroundDeal ==
    ASSUME IsStack, IsClient, stack # <<>>, NEW calm, Ground(calm)
    PROVE  /\ \A v, l : Deal("navigate_to", v, l) => GroundStep(calm)
           /\ \A v, l : Deal("ensure_interaction_range", v, l) => GroundStep(calm)
           /\ \A v, l : Deal("egress_to_dry", v, l) => GroundStep(calm)
           /\ \A v, l : Deal("go_to_surface", v, l) => GroundStep(calm)
           /\ \A v, l : Deal("dig_down_to_y", v, l) => GroundStep(calm)
           /\ \A v, l : Deal("pickup", v, l) => GroundStep(calm)
           /\ \A v, l : v \notin {"hurt", "hazard"} /\ Deal("place_block", v, l) => GroundStep(calm)
           /\ \A v, l : v \notin {"hurt", "hazard"} /\ Deal("place_here", v, l) => GroundStep(calm)
           /\ \A v, l : v \notin {"hurt", "hazard"} /\ Deal("mine_block", v, l) => GroundStep(calm)
           /\ \A v, l : v \notin {"hurt", "hazard"} /\ Deal("mine_block_collect", v, l) => GroundStep(calm)
  <1>1. HasHarm(world)
    BY DEF Ground, IsWorld, HasHarm, Plain
  <1>2. \A f, v, l : (\A o \in Promise(f, v, world) : Spared(o[1], world)) /\ Deal(f, v, l) => GroundStep(calm)
    BY GroundContracted DEF Deal
  <1>3. \A v : \A o \in Promise("navigate_to", v, world) : Spared(o[1], world)
    <2>1. \A b, c : Spared(Elsewhither(world, b, c), world)
      BY <1>1 DEF Spared, HasHarm, Elsewhither
    <2> SUFFICES ASSUME NEW v, NEW o \in Promise("navigate_to", v, world)
                 PROVE  Spared(o[1], world)
      BY Zenon
    <2>2. PICK b, c : o[1] = Elsewhither(world, b, c)
      BY SparesNavigate, Zenon
    <2> QED
      BY <2>1, <2>2, Zenon
  <1>4. \A v, l : Deal("navigate_to", v, l) => GroundStep(calm)
    BY <1>2, <1>3, Zenon
  <1>5. \A v, l : Deal("ensure_interaction_range", v, l) => GroundStep(calm)
    BY <1>1, <1>2, SparesReach, Zenon
  <1>6. /\ \A v, l : Deal("egress_to_dry", v, l) => GroundStep(calm)
        /\ \A v, l : Deal("go_to_surface", v, l) => GroundStep(calm)
        /\ \A v, l : Deal("dig_down_to_y", v, l) => GroundStep(calm)
    BY <1>1, <1>2, SparesEscape, Zenon
  <1>7. \A v, l : Deal("pickup", v, l) => GroundStep(calm)
    BY <1>1, <1>2, SparesPickup, Zenon
  <1>8. /\ \A v, l : v \notin {"hurt", "hazard"} /\ Deal("place_block", v, l) => GroundStep(calm)
        /\ \A v, l : v \notin {"hurt", "hazard"} /\ Deal("place_here", v, l) => GroundStep(calm)
    BY <1>1, <1>2, SparesPlace, Zenon
  <1>9. /\ \A v, l : v \notin {"hurt", "hazard"} /\ Deal("mine_block", v, l) => GroundStep(calm)
        /\ \A v, l : v \notin {"hurt", "hazard"} /\ Deal("mine_block_collect", v, l) => GroundStep(calm)
    BY <1>1, <1>2, SparesMine, Zenon
  <1> QED
    BY <1>4, <1>5, <1>6, <1>7, <1>8, <1>9

(* The native actions the transactions ask for, and what else they do.     *)
LEMMA GroundSteps ==
    ASSUME IsStack, IsClient, stack # <<>>, NEW calm, Ground(calm)
    PROVE  /\ \A k, l : Native(k, l) /\ Ordinary(k, calm) => GroundStep(calm)
           /\ \A k, l : Execute(k, l) /\ Ordinary(k, calm) => GroundStep(calm)
           /\ \A e : Raise(e) /\ Outside => GroundStep(calm)
           /\ \A e : Raise(e) /\ UNCHANGED <<token, client, world, strays>> => GroundStep(calm)
  <1>1. \A k, l : Native(k, l) /\ Ordinary(k, calm) => GroundStep(calm)
    BY GroundCalls DEF Native
  <1>2. \A k, l : Execute(k, l) /\ Ordinary(k, calm) => GroundStep(calm)
    BY GroundExecute
  <1>3. \A e : Raise(e) /\ Outside => GroundStep(calm)
    BY GroundCalls DEF Outside
  <1>4. \A e : Raise(e) /\ UNCHANGED <<token, client, world, strays>> => GroundStep(calm)
    BY GroundCalls
  <1> QED
    BY <1>1, <1>2, <1>3, <1>4

LEMMA GroundNatives ==
    ASSUME IsStack, IsClient, stack # <<>>, NEW calm, Ground(calm)
    PROVE  /\ \A l : Native(Hand, l) => GroundStep(calm)
           /\ \A l : Native(Control0, l) => GroundStep(calm)
           /\ \A l : Native(<<"dump", "slot">>, l) => GroundStep(calm)
           /\ \A l : Native(<<"shift", "container">>, l) => GroundStep(calm)
           /\ \A l : Native(<<"shift", "grid">>, l) => GroundStep(calm)
           /\ \A l : Native(<<"wear", "armour">>, l) => GroundStep(calm)
           /\ \A l : Native(<<"wear", "hand">>, l) => GroundStep(calm)
           /\ \A l : Native(<<"eat", "item">>, l) => GroundStep(calm)
           /\ \A l : Native(<<"go", "centre">>, l) => GroundStep(calm)
           /\ \A l : Native(<<"place", "cell">>, l) => GroundStep(calm)
           /\ \A l : Native(<<"shift", "receiver">>, l) => GroundStep(calm)
           /\ \A l : Native(<<"use", "bed">>, l) => GroundStep(calm)
           /\ \A l : Native(<<"use", "block">>, l) => GroundStep(calm)
           /\ \A l : Native(<<"use", "fire">>, l) => GroundStep(calm)
           /\ \A l : Native(<<"eat", "foe">>, l) => GroundStep(calm)
           /\ \A l : Native(<<"spawn", "body">>, l) => GroundStep(calm)
           /\ \A l : Execute(<<"mine", "cell">>, l) => GroundStep(calm)
           /\ \A a, l : a \in {"load", "stoke", "take", "unload"} /\ Call("transfer_slot", <<a, "oven">>, l) => GroundStep(calm)
           /\ \A x, l : Native(Walk(x), l) => GroundStep(calm)
           /\ \A x, l : Execute(Walk(x), l) => GroundStep(calm)
  <1>1. \A k, l : Native(k, l) /\ Ordinary(k, calm) => GroundStep(calm)
    BY GroundSteps
  <1>2. \A k, l : Execute(k, l) /\ Ordinary(k, calm) => GroundStep(calm)
    BY GroundSteps
  <1>3. /\ Ordinary(Hand, calm)
        /\ Ordinary(Control0, calm)
        /\ Ordinary(<<"dump", "slot">>, calm)
        /\ Ordinary(<<"shift", "container">>, calm)
        /\ Ordinary(<<"shift", "grid">>, calm)
        /\ Ordinary(<<"wear", "armour">>, calm)
        /\ Ordinary(<<"wear", "hand">>, calm)
        /\ Ordinary(<<"eat", "item">>, calm)
        /\ Ordinary(<<"go", "centre">>, calm)
        /\ Ordinary(<<"place", "cell">>, calm)
        /\ Ordinary(<<"shift", "receiver">>, calm)
        /\ Ordinary(<<"use", "bed">>, calm)
        /\ Ordinary(<<"use", "block">>, calm)
        /\ Ordinary(<<"use", "fire">>, calm)
        /\ Ordinary(<<"eat", "foe">>, calm)
        /\ Ordinary(<<"spawn", "body">>, calm)
        /\ Ordinary(<<"mine", "cell">>, calm)
    BY DEF Ordinary, Verbs, Hand, Control0
  <1>4. \A x : Ordinary(Walk(x), calm)
    BY DEF Ordinary, Verbs, Walk
  <1>5. \A a, l : a \in {"load", "stoke", "take", "unload"} /\ Call("transfer_slot", <<a, "oven">>, l) => GroundStep(calm)
    <2>1. \A a : a \in {"load", "stoke", "take", "unload"} => Ordinary(<<a, "oven">>, calm)
      BY DEF Ordinary, Verbs
    <2> QED
      BY <2>1, GroundCalls
  <1> QED
    BY <1>1, <1>2, <1>3, <1>4, <1>5, Zenon

LEMMA ItemGround ==
    ASSUME IsStack, IsClient, stack # <<>>, NEW calm, Ground(calm), ItemStep
    PROVE  GroundStep(calm)
  <1> USE GroundCalls, GroundDeal, GroundNatives
      DEF In, Then, OkThen, Read, Ok, Fail, Checkpoint, Choosy
  <1>1. CASE discard_item
    BY <1>1 DEF discard_item
  <1>2. CASE equip_item
    BY <1>2 DEF equip_item
  <1>3. CASE craft_exact
    BY <1>3 DEF craft_exact
  <1>4. CASE cleanup_crafting_residue
    BY <1>4 DEF cleanup_crafting_residue
  <1>5. CASE craft_recipe_prepare
    BY <1>5 DEF craft_recipe_prepare
  <1>6. CASE craft_recipe_finish
    BY <1>6 DEF craft_recipe_finish
  <1>7. CASE _resolve_crafting_workspace
    BY <1>7 DEF _resolve_crafting_workspace
  <1>8. CASE _prepare_hotbar_slot_for_item
    BY <1>8 DEF _prepare_hotbar_slot_for_item
  <1>9. CASE transfer_item
    BY <1>9 DEF transfer_item
  <1>10. CASE transfer_nearest_container
    BY <1>10 DEF transfer_nearest_container
  <1>11. CASE transfer_slot
    <2>1. Ordinary(Here.x, calm)
      BY <1>11, HereFits DEF transfer_slot, Fit
    <2> QED
      BY <1>11, <2>1, GroundSteps DEF transfer_slot
  <1>12. CASE clear_furnace
    BY <1>12 DEF clear_furnace
  <1>13. CASE _smelt_preflight
    BY <1>13 DEF _smelt_preflight
  <1>14. CASE smelt_once
    BY <1>14 DEF smelt_once
  <1>15. CASE _reclaim_smelt_slots
    BY <1>15 DEF _reclaim_smelt_slots
  <1>16. CASE _collect_partial_output
    BY <1>16 DEF _collect_partial_output
  <1>17. CASE nearest_furnace
    <2>1. Here.x \in {"smelt_once", "clear_furnace"}
      BY <1>17, HereFits DEF nearest_furnace, Fit
    <2> QED
      BY <1>17, <2>1 DEF nearest_furnace
  <1>18. CASE smelt_with_temporary_furnace
    BY <1>18 DEF smelt_with_temporary_furnace
  <1>19. CASE _reclaim_temporary_furnace
    BY <1>19 DEF _reclaim_temporary_furnace
  <1>20. CASE smelt_with_nearby_temporary_furnace
    BY <1>20 DEF smelt_with_nearby_temporary_furnace
  <1> QED
        BY <1>1, <1>2, <1>3, <1>4, <1>5, <1>6, <1>7, <1>8, <1>9, <1>10, <1>11, <1>12, <1>13,
       <1>14, <1>15, <1>16, <1>17, <1>18, <1>19, <1>20 DEF ItemStep

LEMMA UseGround ==
    ASSUME IsStack, IsClient, stack # <<>>, NEW calm, Ground(calm), UseStep
    PROVE  GroundStep(calm)
  <1> USE GroundCalls, GroundDeal, GroundNatives
      DEF In, Then, OkThen, Read, Ok, Fail, Checkpoint, Choosy
  <1>1. CASE _read_find_blocks_pages
    BY <1>1 DEF _read_find_blocks_pages
  <1>2. CASE find_nearby_block_search
    BY <1>2 DEF find_nearby_block_search
  <1>3. CASE find_entity_target
    BY <1>3 DEF find_entity_target
  <1>4. CASE refresh_entity_target
    BY <1>4 DEF refresh_entity_target
  <1>5. CASE ensure_interaction_range
    BY <1>5 DEF ensure_interaction_range
  <1>6. CASE move_to_block_center
    BY <1>6 DEF move_to_block_center
  <1>7. CASE _stop_body_controls
    BY <1>7 DEF _stop_body_controls
  <1>8. CASE ensure_entity_range
    BY <1>8 DEF ensure_entity_range
  <1>9. CASE consume_item
    BY <1>9 DEF consume_item
  <1>10. CASE use_item
    BY <1>10 DEF use_item
  <1>11. CASE _await_position_delta
    BY <1>11 DEF _await_position_delta
  <1>12. CASE use_on_entity
    BY <1>12 DEF use_on_entity
  <1>13. CASE _attempt_block_use
    BY <1>13 DEF _attempt_block_use
  <1>14. CASE _attempt_fire_ignite
    BY <1>14 DEF _attempt_fire_ignite
  <1>15. CASE _settle_expected_block_properties
    BY <1>15 DEF _settle_expected_block_properties
  <1>16. CASE use_on_block_prepare
    BY <1>16 DEF use_on_block_prepare
  <1>17. CASE use_on_block_attempt
    BY <1>17 DEF use_on_block_attempt
  <1>18. CASE _recover_line_of_sight
    BY <1>18 DEF _recover_line_of_sight
  <1>19. CASE _move_to_stand_center
    BY <1>19 DEF _move_to_stand_center
  <1>20. CASE _sow_crop_on_farmland
    BY <1>20 DEF _sow_crop_on_farmland
  <1>21. CASE _resolve_block_target
    BY <1>21 DEF _resolve_block_target
  <1>22. CASE _approach_openable_target
    BY <1>22 DEF _approach_openable_target
  <1>23. CASE set_openable_state
    BY <1>23 DEF set_openable_state
  <1>24. CASE set_switch_state
    BY <1>24 DEF set_switch_state
  <1>25. CASE _wait_for_switch_state
    BY <1>25 DEF _wait_for_switch_state
  <1>26. CASE _approach_bed_target
    BY <1>26 DEF _approach_bed_target
  <1>27. CASE _move_to_bed_use_stance
    BY <1>27 DEF _move_to_bed_use_stance
  <1>28. CASE go_to_bed
    BY <1>28 DEF go_to_bed
  <1>29. CASE till_farmland
    BY <1>29 DEF till_farmland
  <1>30. CASE sow_crop
    BY <1>30 DEF sow_crop
  <1>31. CASE harvest_and_resow
    BY <1>31 DEF harvest_and_resow
  <1>32. CASE give_player
    BY <1>32 DEF give_player
  <1>33. CASE _await_pickup
    BY <1>33 DEF _await_pickup
  <1>34. CASE _enter_player_distance_band
    BY <1>34 DEF _enter_player_distance_band
  <1>35. CASE search_for_entity
    BY <1>35 DEF search_for_entity
  <1> QED
        BY <1>1, <1>2, <1>3, <1>4, <1>5, <1>6, <1>7, <1>8, <1>9, <1>10, <1>11, <1>12, <1>13,
       <1>14, <1>15, <1>16, <1>17, <1>18, <1>19, <1>20, <1>21, <1>22, <1>23, <1>24, <1>25,
       <1>26, <1>27, <1>28, <1>29, <1>30, <1>31, <1>32, <1>33, <1>34, <1>35 DEF UseStep

(* What a function remembers of the world on its way.                      *)
LEMMA GroundTried ==
    ASSUME IsStack, IsClient, stack # <<>>, NEW calm, Ground(calm)
    PROVE  /\ \A f, v, l : CallAfter([world EXCEPT !.tried = TRUE], f, v, l) /\ f \notin Choosy => GroundStep(calm)
           /\ \A l : /\ Stand([Here EXCEPT !.at = l])
                    /\ world' = [world EXCEPT !.tried = world.hazard]
                    /\ UNCHANGED <<ret, token, client, strays>>
                    => GroundStep(calm)
           /\ \A l : /\ Stand([Here EXCEPT !.at = l, !.n = @ + 1])
                    /\ world' = [world EXCEPT !.there = FALSE]
                    /\ UNCHANGED <<ret, token, client, strays>>
                    => GroundStep(calm)
           /\ \A r : /\ stack' = SubSeq(stack, 1, Len(stack) - 1) /\ ret' = r
                    /\ world' = [world EXCEPT !.tried = FALSE]
                    /\ UNCHANGED <<token, client, strays>>
                    => GroundStep(calm)
  <1>1. ASSUME UNCHANGED client,
               (\E b : world' = [world EXCEPT !.tried = b]) \/ world' = [world EXCEPT !.there = FALSE]
        PROVE  IsWorld' /\ Unharmed /\ Ordinary(client'.run, calm) /\ Ordinary(client'.late, calm)
    <2>1. IsWorld' /\ Unharmed
      BY <1>1 DEF Ground, IsWorld, Unharmed, Plain
    <2> QED
      BY <1>1, <2>1 DEF Ground
  <1>2. ASSUME NEW f, NEW v, NEW l, CallAfter([world EXCEPT !.tried = TRUE], f, v, l), f \notin Choosy
        PROVE  GroundStep(calm)
    BY <1>1, <1>2, GroundEdits, FrameFits DEF CallAfter
  <1>3. ASSUME NEW l, Stand([Here EXCEPT !.at = l]), world' = [world EXCEPT !.tried = world.hazard], UNCHANGED client
        PROVE  GroundStep(calm)
    BY <1>1, <1>3, GroundEdits, HereFits
  <1>4. ASSUME NEW l, Stand([Here EXCEPT !.at = l, !.n = @ + 1]), world' = [world EXCEPT !.there = FALSE], UNCHANGED client
        PROVE  GroundStep(calm)
    BY <1>1, <1>4, GroundEdits, HereFits
  <1>5. ASSUME stack' = SubSeq(stack, 1, Len(stack) - 1), world' = [world EXCEPT !.tried = FALSE], UNCHANGED client
        PROVE  GroundStep(calm)
    BY <1>1, <1>5, GroundEdits
  <1> QED
    BY <1>2, <1>3, <1>4, <1>5

LEMMA FieldGround ==
    ASSUME IsStack, IsClient, stack # <<>>, NEW calm, Ground(calm), FieldStep
    PROVE  GroundStep(calm)
  <1> USE GroundCalls, GroundDeal, GroundNatives
      DEF In, Then, OkThen, Read, Ok, Fail, Checkpoint, Choosy
  <1>1. CASE _wait_for_survival_reflex_idle
    BY <1>1, GroundSteps DEF _wait_for_survival_reflex_idle
  <1>2. CASE navigate_to_prepare
    BY <1>2, GroundTried DEF navigate_to_prepare
  <1>3. CASE _recover_survival_hazard
    BY <1>3, GroundSteps DEF _recover_survival_hazard
  <1>4. CASE navigate_to_segment
    BY <1>4, GroundSteps DEF navigate_to_segment
  <1>5. CASE _answer_navigation_mutation
    BY <1>5, GroundSteps DEF _answer_navigation_mutation
  <1>6. CASE navigate_to_ended
    BY <1>6, GroundSteps DEF navigate_to_ended
  <1>7. CASE _wait_for_reflex_completion
    BY <1>7, GroundSteps DEF _wait_for_reflex_completion
  <1>8. CASE _run_navigation_recovery
    BY <1>8, GroundSteps DEF _run_navigation_recovery
  <1>9. CASE follow_entity
    BY <1>9, GroundSteps DEF follow_entity
  <1>10. CASE move_away
    BY <1>10, GroundSteps DEF move_away
  <1>11. CASE _prepare_survival
    BY <1>11, GroundTried DEF _prepare_survival
  <1>12. CASE navigate_objective
    BY <1>12, GroundSteps DEF navigate_objective
  <1>13. CASE _execute_objective
    BY <1>13, GroundSteps DEF _execute_objective
  <1>14. CASE follow_objective
    BY <1>14, GroundSteps DEF follow_objective
  <1>15. CASE pickup_items
    BY <1>15, GroundSteps DEF pickup_items
  <1>16. CASE _collect_inventory_delta
    BY <1>16, GroundSteps DEF _collect_inventory_delta
  <1>17. CASE _scan_candidates
    BY <1>17, GroundSteps DEF _scan_candidates
  <1>18. CASE _poll_inventory_delta
    BY <1>18, GroundSteps DEF _poll_inventory_delta
  <1>19. CASE resolve_entity_target
    BY <1>19, GroundSteps DEF resolve_entity_target
  <1>20. CASE engage_entity
    BY <1>20, GroundSteps DEF engage_entity
  <1>21. CASE ranged_attack
    BY <1>21, GroundSteps DEF ranged_attack
  <1>22. CASE get_to_block
    BY <1>22, GroundSteps DEF get_to_block
  <1>23. CASE _verify_target
    BY <1>23, GroundSteps DEF _verify_target
  <1>24. CASE block_reach_domains
    BY <1>24, GroundSteps DEF block_reach_domains
  <1>25. CASE read_block_facts
    BY <1>25, GroundSteps DEF read_block_facts
  <1>26. CASE _await_with_progress
    BY <1>26, GroundSteps DEF _await_with_progress
  <1>27. CASE collect_native_cluster
    BY <1>27, GroundSteps DEF collect_native_cluster
  <1>28. CASE collect_block_domain_begin
    BY <1>28, GroundSteps DEF collect_block_domain_begin
  <1>29. CASE collect_block_domain_select
    BY <1>29, GroundSteps DEF collect_block_domain_select
  <1>30. CASE collect_block_domain_navigate
    BY <1>30, GroundSteps DEF collect_block_domain_navigate
  <1>31. CASE collect_block_domain_recover
    BY <1>31, GroundSteps DEF collect_block_domain_recover
  <1>32. CASE collect_block_domain_mine
    BY <1>32, GroundSteps DEF collect_block_domain_mine
  <1>33. CASE _run_designated_target
    BY <1>33, GroundSteps DEF _run_designated_target
  <1>34. CASE _scan_targets
    BY <1>34, GroundSteps DEF _scan_targets
  <1>35. CASE explore_for_begin
    BY <1>35, GroundTried DEF explore_for_begin, Scanned
  <1>36. CASE explore_for_frontier
    BY <1>36, GroundSteps DEF explore_for_frontier
  <1>37. CASE _safe_frontier_stands
    BY <1>37, GroundSteps DEF _safe_frontier_stands
  <1>38. CASE explore_for_fallback
    BY <1>38, GroundSteps DEF explore_for_fallback
  <1>39. CASE explore_for_reached
    BY <1>39, GroundSteps DEF explore_for_reached
  <1>40. CASE recover_after_death
    BY <1>40, GroundSteps DEF recover_after_death
  <1>41. CASE _recover_from_transport_recheck
    BY <1>41, GroundSteps DEF _recover_from_transport_recheck
  <1>42. CASE _state_recheck_with_retry
    BY <1>42, GroundSteps DEF _state_recheck_with_retry
  <1>43. CASE _wait_for_event
    BY <1>43, GroundSteps DEF _wait_for_event
  <1> QED
        BY <1>1, <1>2, <1>3, <1>4, <1>5, <1>6, <1>7, <1>8, <1>9, <1>10, <1>11, <1>12, <1>13,
       <1>14, <1>15, <1>16, <1>17, <1>18, <1>19, <1>20, <1>21, <1>22, <1>23, <1>24, <1>25,
       <1>26, <1>27, <1>28, <1>29, <1>30, <1>31, <1>32, <1>33, <1>34, <1>35, <1>36, <1>37,
       <1>38, <1>39, <1>40, <1>41, <1>42, <1>43 DEF FieldStep

(* The same for the blocks that are broken and placed.                     *)
Blocks == {"cell", "site", "seal", "pillar"}
OfBlocks == {"mine_block", "mine_block_dry", "mine_block_collect", "place_block", "place_here"}

LEMMA GroundBlocks ==
    ASSUME IsStack, IsClient, stack # <<>>, Ground(FALSE)
    PROVE  /\ Here.fn \in OfBlocks => Here.x \in Blocks
           /\ \A f, v, l : Call(f, v, l) /\ f \in OfBlocks /\ v \in Blocks => GroundStep(FALSE)
           /\ \A l : Here.fn = "mine_block" /\ Native(<<"break", Here.x>>, l) => GroundStep(FALSE)
           /\ \A l : Here.fn = "place_block" /\ Native(PlaceKind(Here.x), l) => GroundStep(FALSE)
           /\ \A l : Native(Tool, l) => GroundStep(FALSE)
           /\ \A l : Native(<<"rise", "jump">>, l) => GroundStep(FALSE)
  <1>1. Here.fn \in OfBlocks => Here.x \in Blocks
    BY HereFits DEF Fit, OfBlocks, Blocks, Choosy
  <1>2. \A f, v, l : Call(f, v, l) /\ f \in OfBlocks /\ v \in Blocks => GroundStep(FALSE)
    BY GroundCalls DEF OfBlocks, Blocks, Choosy
  <1>3. \A k, l : Native(k, l) /\ Ordinary(k, FALSE) => GroundStep(FALSE)
    BY GroundSteps
  <1>4. \A x : x \in Blocks => Ordinary(<<"break", x>>, FALSE) /\ Ordinary(PlaceKind(x), FALSE)
    BY DEF Ordinary, Verbs, PlaceKind, Blocks
  <1>5. Ordinary(Tool, FALSE) /\ Ordinary(<<"rise", "jump">>, FALSE)
    BY DEF Ordinary, Verbs, Tool
  <1>6. Here.fn = "mine_block" \/ Here.fn = "place_block" => Here.x \in Blocks
    BY <1>1 DEF OfBlocks
  <1> QED
    BY <1>1, <1>2, <1>3, <1>4, <1>5, <1>6, Zenon

LEMMA BlockGround ==
    ASSUME IsStack, IsClient, stack # <<>>, Ground(FALSE), BlockStep
    PROVE  GroundStep(FALSE)
  <1> USE GroundCalls, GroundDeal, GroundNatives, GroundBlocks
      DEF In, Then, OkThen, Read, Ok, Fail, Choosy, OfBlocks, Blocks
  <1>1. CASE mine_block
    BY <1>1 DEF mine_block
  <1>2. CASE _approach_mining_target
    BY <1>2 DEF _approach_mining_target
  <1>3. CASE mine_block_dry
    BY <1>3 DEF mine_block_dry
  <1>4. CASE _approach_seal_face
    BY <1>4 DEF _approach_seal_face
  <1>5. CASE _place_first_available_seal_block
    BY <1>5 DEF _place_first_available_seal_block
  <1>6. CASE mine_block_collect
    BY <1>6 DEF mine_block_collect
  <1>7. CASE _ensure_collect_pickaxe
    BY <1>7 DEF _ensure_collect_pickaxe
  <1>8. CASE dig_down_one
    BY <1>8 DEF dig_down_one
  <1>9. CASE _fall_probe_after_opening
    BY <1>9 DEF _fall_probe_after_opening
  <1>10. CASE dig_down_to_y
    BY <1>10 DEF dig_down_to_y
  <1>11. CASE _align_for_descent
    BY <1>11 DEF _align_for_descent
  <1>12. CASE _wait_for_descent
    BY <1>12 DEF _wait_for_descent
  <1>13. CASE dig_up_one
    BY <1>13 DEF dig_up_one
  <1>14. CASE dig_up_to_y
    BY <1>14 DEF dig_up_to_y
  <1>15. CASE _standable_feet_at
    BY <1>15 DEF _standable_feet_at
  <1>16. CASE _surface_candidate_at
    BY <1>16 DEF _surface_candidate_at
  <1>17. CASE egress_to_dry
    BY <1>17 DEF egress_to_dry
  <1>18. CASE go_to_surface_begin
    BY <1>18 DEF go_to_surface_begin
  <1>19. CASE go_to_surface_walk
    BY <1>19 DEF go_to_surface_walk
  <1>20. CASE _find_surface_domain
    BY <1>20 DEF _find_surface_domain
  <1>21. CASE _constructible_surface_column_at
    BY <1>21 DEF _constructible_surface_column_at
  <1>22. CASE search_for_block
    BY <1>22 DEF search_for_block
  <1>23. CASE place_block
    BY <1>23 DEF place_block
  <1>24. CASE place_here_prepare
    BY <1>24 DEF place_here_prepare
  <1>25. CASE place_here_spots
    BY <1>25 DEF place_here_spots
  <1>26. CASE _approach_place_candidate
    BY <1>26 DEF _approach_place_candidate
  <1>27. CASE _recover_place_here_headroom
    BY <1>27 DEF _recover_place_here_headroom
  <1>28. CASE _recover_place_here_stand_position
    BY <1>28 DEF _recover_place_here_stand_position
  <1> QED
        BY <1>1, <1>2, <1>3, <1>4, <1>5, <1>6, <1>7, <1>8, <1>9, <1>10, <1>11, <1>12, <1>13,
       <1>14, <1>15, <1>16, <1>17, <1>18, <1>19, <1>20, <1>21, <1>22, <1>23, <1>24, <1>25,
       <1>26, <1>27, <1>28 DEF BlockStep

(* One native action from dispatch to terminal.                            *)
LEMMA DispatchGround ==
    ASSUME IsStack, IsClient, NEW calm, Ground(calm), _dispatch
    PROVE  GroundStep(calm)
  <1>1. stack # <<>>
    BY DEF _dispatch, In
  <1>2. Ordinary(Here.x, calm)
    BY <1>1, HereFits DEF _dispatch, In, Fit
  <1>3. CASE Execute(Here.x, "wait")
    BY <1>1, <1>2, <1>3, GroundExecute
  <1>4. CASE await_action_terminal
    BY <1>1, <1>4, GroundCalls, GroundSteps DEF await_action_terminal
  <1> QED
    BY <1>3, <1>4 DEF _dispatch

(* What an action in the client may do: it harms the Body only by breaking *)
(* a block next to a hazard, and brings no hazard about.                   *)
Lawful(u, w, k) ==
    /\ DOMAIN u = DOMAIN w
    /\ u.hurt => w.hurt \/ (k[1] = "break" /\ w.hazard)
    /\ u.hazard => w.hazard

LEMMA EffectLawful ==
    ASSUME NEW w, DOMAIN w = DOMAIN Plain, NEW k, k[1] \in Verbs, k[2] \notin {"hurt", "hazard"},
           NEW u \in Effect(k, w)
    PROVE  Lawful(u, w, k)
  <1> USE DEF Effect, Lawful, Plain
  <1>1. CASE k[1] = "ready"
    BY <1>1
  <1>2. CASE k[1] = "go"
    BY <1>2
  <1>3. CASE k[1] = "spawn"
    BY <1>3
  <1>4. CASE k[1] = "wear"
    BY <1>4
  <1>5. CASE k[1] = "use"
    BY <1>5
  <1>6. CASE k[1] = "eat"
    BY <1>6
  <1>7. CASE k[1] = "shift"
    BY <1>7
  <1>8. CASE k[1] = "dump"
    BY <1>8
  <1>9. CASE k[1] = "place"
    BY <1>9
  <1>10. CASE k[1] = "break"
    BY <1>10
  <1>11. CASE k[1] = "grab"
    BY <1>11
  <1>12. CASE k[1] = "rise"
    BY <1>12
  <1>13. CASE k[1] = "ascend"
    BY <1>13
  <1>14. CASE k[1] = "sink"
    BY <1>14
  <1>15. CASE k[1] = "climb"
    BY <1>15
  <1>16. CASE k[1] = "pillar"
    BY <1>16
  <1>17. CASE k[1] = "seal"
    BY <1>17
  <1>18. CASE k[1] = "mine"
    BY <1>18
  <1>19. CASE k[1] = "load"
    BY <1>19
  <1>20. CASE k[1] = "stoke"
    BY <1>20
  <1>21. CASE k[1] = "take"
    BY <1>21
  <1>22. CASE k[1] = "unload"
    BY <1>22
  <1> QED
    BY <1>1, <1>2, <1>3, <1>4, <1>5, <1>6, <1>7, <1>8, <1>9, <1>10, <1>11, <1>12, <1>13, <1>14,
       <1>15, <1>16, <1>17, <1>18, <1>19, <1>20, <1>21, <1>22 DEF Verbs

(* What the client and the game do to the Body.                            *)
Breaking == client.run[1] = "break" \/ client.late[1] = "break"
Falling == entry.fn = "dig_down_to_y" /\ ~world.site /\ world.near

LEMMA ClientGround ==
    ASSUME IsClient, NEW calm, Ground(calm), Client
    PROVE  /\ Ground(calm)'
           /\ world'.hurt => world.hurt \/ (Breaking /\ world.hazard)
           /\ world'.hazard => world.hazard
           /\ Breaking' => Breaking
  <1>1. UNCHANGED stack
    BY DEF Client, _run_action, LateEffect, confirm_control_idle
  <1>2. /\ client'.run \in {client.run, Idle}
        /\ client'.late \in {client.late, client.run, Idle}
    BY DEF Client, _run_action, LateEffect, confirm_control_idle, IsClient
  <1>3. \/ UNCHANGED world
        \/ client.run # Idle /\ world' \in Effect(client.run, world)
        \/ client.late # Idle /\ world' \in Effect(client.late, world)
    BY DEF Client, _run_action, LateEffect, confirm_control_idle
  <1>4. \/ UNCHANGED world
        \/ Lawful(world', world, client.run)
        \/ Lawful(world', world, client.late)
    BY <1>3, EffectLawful DEF Ground, Ordinary, IsWorld
  <1>5. /\ DOMAIN world' = DOMAIN world
        /\ world'.hurt => world.hurt \/ (Breaking /\ world.hazard)
        /\ world'.hazard => world.hazard
    BY <1>4 DEF Lawful, Breaking
  <1>6. Ordinary(Idle, calm) /\ Idle[1] # "break"
    BY DEF Ordinary, Idle
  <1>7. Ground(calm)'
    BY <1>1, <1>2, <1>5, <1>6 DEF Ground, IsWorld
  <1> QED
    BY <1>2, <1>5, <1>6, <1>7 DEF Breaking

LEMMA GameGround ==
    ASSUME NEW calm, Ground(calm), Game
    PROVE  /\ Ground(calm)'
           /\ world'.hurt => world.hurt \/ (Falling /\ world.under \in {"deep", "lava"})
           /\ world'.hazard = world.hazard
  <1>1. /\ DOMAIN world' = DOMAIN world /\ world'.hazard = world.hazard
        /\ world'.hurt => world.hurt \/ (Falling /\ world.under \in {"deep", "lava"})
    <2>1. DOMAIN world = DOMAIN Plain
      BY DEF Ground, IsWorld
    <2>2. CASE world' \in Bake(world)
      BY <2>1, <2>2 DEF Bake, Plain
    <2>3. CASE world' \in FallDown(world)
      BY <2>1, <2>3 DEF FallDown, Plain, Falling
    <2>4. CASE world' \in Land(world)
      BY <2>1, <2>4 DEF Land, Plain
    <2>5. CASE world.near /\ world' \in PickUp(world)
      BY <2>1, <2>5 DEF PickUp, Plain
    <2> QED
      BY <2>2, <2>3, <2>4, <2>5 DEF Game
  <1>2. UNCHANGED <<stack, client>>
    BY DEF Game
  <1> QED
    BY <1>1, <1>2 DEF Ground, IsWorld

LEMMA StrayGround ==
    ASSUME NEW calm, Ground(calm), Stray
    PROVE  /\ Ground(calm)'
           /\ world'.hurt = world.hurt
           /\ ~Elsewhere => world'.hazard = world.hazard
  <1>1. DOMAIN world' = DOMAIN world /\ world'.hurt = world.hurt
    BY DEF Stray, Moved, Ground, IsWorld, Plain
  <1>2. ~Elsewhere => world'.hazard = world.hazard
    BY DEF Stray, Moved, Ground, IsWorld, Plain, Elsewhere
  <1>3. UNCHANGED <<stack, client>>
    BY DEF Stray
  <1> QED
    BY <1>1, <1>2, <1>3 DEF Ground, IsWorld

(* What runs when a transaction begins.                                    *)
LEMMA TransactGround ==
    ASSUME IsStack, IsClient, Ground(Elsewhere), Transact
    PROVE  GroundStep(Elsewhere)
  <1>1. stack # <<>>
    BY TransactShape DEF Shape
  <1>2. CASE _dispatch
    BY <1>2, DispatchGround
  <1>3. CASE entry.family = "item" /\ ItemStep
    BY <1>1, <1>3, ItemGround
  <1>4. CASE entry.family = "use" /\ UseStep
    BY <1>1, <1>4, UseGround
  <1>5. CASE entry.family = "field" /\ FieldStep
    BY <1>1, <1>5, FieldGround
  <1>6. CASE entry.family = "block" /\ BlockStep
    <2>1. Elsewhere = FALSE
      BY <1>6 DEF Elsewhere
    <2> QED
      BY <1>1, <1>6, <2>1, BlockGround, Zenon
  <1> QED
    BY <1>2, <1>3, <1>4, <1>5, <1>6 DEF Transact

(* The calls a behaviour begins with.                                      *)
EntryFit(e) ==
    /\ DOMAIN e[3] = DOMAIN Plain /\ ~e[3].hurt
    /\ e[1] \notin {"_dispatch", "transfer_slot"}
    /\ e[1] = "nearest_furnace" => e[2] \in {"smelt_once", "clear_furnace"}
    /\ e[1] \in OfBlocks => e[2] \in Blocks

EntryCalm(e) == EntryFit(e) /\ e[1] # "dig_down_to_y"

(* Digging begins on a floor, or off one that is not looked for.           *)
EntryDig(e) ==
    /\ e[2] = [goal |-> e[2].goal, floor |-> e[2].floor] /\ e[2].floor \in Int
    /\ e[3].y \in Int /\ ~e[3].hazard
    /\ e[3].site \/ (~e[3].near /\ e[3].under \in {"rock", "gap"})

EntryBlock(e) ==
    /\ EntryFit(e)
    /\ e[3].hazard => e[1] = "mine_block_dry"
    /\ e[1] = "dig_down_to_y" => EntryDig(e)

LEMMA ItemCalls == \A e \in ItemEntries : EntryCalm(e)
  <1> USE DEF EntryCalm, EntryFit, OfBlocks, Blocks, Plain, From
  <1>1. \A e \in _discard_item_tool \cup _equip_tool \cup _craft_tool : EntryCalm(e)
    BY DEF _discard_item_tool, _equip_tool, _craft_tool
  <1>2. \A e \in _transfer_container_tool \cup _clear_furnace_tool : EntryCalm(e)
    BY DEF _transfer_container_tool, _clear_furnace_tool
  <1>3. \A e \in Smelting : EntryCalm(e)
    BY DEF Smelting
  <1> QED
    BY <1>1, <1>2, <1>3, Zenon DEF ItemEntries

LEMMA AnywhereCalm ==
    ASSUME NEW f, f \notin {"_dispatch", "transfer_slot", "nearest_furnace", "dig_down_to_y"}, f \notin OfBlocks
    PROVE  \A e \in Anywhere(f) : EntryCalm(e)
  BY DEF EntryCalm, EntryFit, Plain, Anywhere, Somewhere

LEMMA UseCalls == \A e \in UseEntries : EntryCalm(e)
  <1> USE AnywhereCalm DEF OfBlocks
  <1>1. \A e \in _consume_item_tool \cup _use_item_tool \cup _use_on_entity_tool \cup _use_on_block_tool : EntryCalm(e)
    BY DEF _consume_item_tool, _use_item_tool, _use_on_entity_tool, _use_on_block_tool
  <1>2. \A e \in _set_openable_state_tool \cup _set_switch_state_tool \cup _go_to_bed_tool \cup _till_farmland_tool :
           EntryCalm(e)
    BY DEF _set_openable_state_tool, _set_switch_state_tool, _go_to_bed_tool, _till_farmland_tool
  <1>3. \A e \in _sow_crop_tool \cup _give_player_tool \cup _search_for_entity_tool : EntryCalm(e)
    BY DEF _sow_crop_tool, _give_player_tool, _search_for_entity_tool
  <1>4. \A e \in _harvest_and_resow_tool : EntryCalm(e)
    BY DEF _harvest_and_resow_tool, From, Standing, EntryCalm, EntryFit, Plain
  <1>5. \A e \in Approaching : EntryCalm(e)
    <2>1. EntryCalm(<<"_enter_player_distance_band", FALSE, Plain>>)
      BY DEF EntryCalm, EntryFit, Plain
    <2> QED
      BY <2>1 DEF Approaching
  <1> QED
    BY <1>1, <1>2, <1>3, <1>4, <1>5, Zenon DEF UseEntries

LEMMA FieldCalls == \A e \in FieldEntries : EntryCalm(e)
  <1> DEFINE Away(b) == <<"move_away", FALSE, [Plain EXCEPT !.there = b]>>
             Search(b) == <<"explore_for", NewSearch, [Standing EXCEPT !.near = b]>>
             Travel(b, c, f) == <<f, "free", [Plain EXCEPT !.hazard = b, !.tried = b /\ c]>>
             Back(b) == <<"recover_after_death", 0, [Plain EXCEPT !.lever = b]>>
             Walks == {"navigate_to", "navigate_objective", "follow_objective"}
             T == {Travel(b, c, f) : b \in BOOLEAN, c \in BOOLEAN, f \in Walks}
  <1>1. \A e \in _follow_tool \cup _engage_tool \cup _ranged_tool \cup _get_to_block_tool \cup _pickup_items_tool
             \cup _collect_block_domain_tool :
           EntryCalm(e)
    BY DEF _follow_tool, _engage_tool, _ranged_tool, _get_to_block_tool, _pickup_items_tool,
           _collect_block_domain_tool, EntryCalm, EntryFit, OfBlocks, Plain, From, Standing
  <1>2. \A b : EntryCalm(Away(b))
    BY DEF EntryCalm, EntryFit, OfBlocks, Plain
  <1>3. \A b : EntryCalm(Search(b))
    BY DEF EntryCalm, EntryFit, OfBlocks, Plain, Standing
  <1>4. \A b : EntryCalm(Back(b))
    BY DEF EntryCalm, EntryFit, OfBlocks, Plain
  <1>5. ASSUME NEW f \in Walks, NEW b, NEW c PROVE EntryCalm(Travel(b, c, f))
    <2>1. Travel(b, c, f)[1] = f
      OBVIOUS
    <2>2. DOMAIN Travel(b, c, f)[3] = DOMAIN Plain
      BY DEF Plain
    <2>3. ~Travel(b, c, f)[3].hurt
      BY DEF Plain
    <2> HIDE DEF Travel
    <2> QED
      BY <2>1, <2>2, <2>3 DEF EntryCalm, EntryFit, OfBlocks
  <1>6. \A e \in _move_away_tool : \E b : e = Away(b)
    BY Zenon DEF _move_away_tool
  <1>7. \A e \in _explore_for_tool : \E b : e = Search(b)
    BY Zenon DEF _explore_for_tool
  <1>8. Travelling = T
    BY DEF Travelling
  <1>9. \A e \in Recovering : e \in Anywhere("egress_to_dry") \/ \E b : e = Back(b)
    BY Zenon DEF Recovering
  <1>10. \A e \in Anywhere("egress_to_dry") : e[1] # "recover_after_death"
    BY DEF Anywhere
  <1> HIDE DEF Away, Search, Travel, Back, T
  <1>11. \A e \in T : \E f \in Walks : \E b, c : e = Travel(b, c, f)
    BY DEF T
  <1>12. \A e \in _move_away_tool : EntryCalm(e)
    BY <1>2, <1>6, Zenon
  <1>13. \A e \in _explore_for_tool : EntryCalm(e)
    BY <1>3, <1>7, Zenon
  <1>14. \A e \in Travelling : EntryCalm(e)
    BY <1>5, <1>8, <1>11
  <1>15. \A e \in Recovering : e[1] = "recover_after_death" => EntryCalm(e)
    BY <1>4, <1>9, <1>10, Zenon
  <1>16. \A e \in FieldEntries :
            \/ e \in _follow_tool \cup _engage_tool \cup _ranged_tool \cup _get_to_block_tool \cup _pickup_items_tool
                   \cup _collect_block_domain_tool
            \/ e \in _move_away_tool \/ e \in _explore_for_tool \/ e \in Travelling
            \/ e \in Recovering /\ e[1] = "recover_after_death"
    BY Zenon DEF FieldEntries
  <1> QED
    BY <1>1, <1>12, <1>13, <1>14, <1>15, <1>16, Zenon

LEMMA BlockCalls == \A e \in BlockEntries : EntryBlock(e)
  <1> DEFINE OnFloor(u) == <<"dig_down_to_y", [goal |-> 2 - Asked, floor |-> 2], [Floor EXCEPT !.near = TRUE, !.under = u]>>
             OffFloor(h) == <<"dig_down_to_y", [goal |-> 2 - Asked, floor |-> h], [Plain EXCEPT !.y = h, !.site = (h > 2)]>>
             Up(h) == <<"dig_up_to_y", 2 + Asked, [Standing EXCEPT !.y = h]>>
             Surface(b, c) == <<"go_to_surface", b, [Plain EXCEPT !.there = c]>>
             Dry(b) == <<"mine_block_dry", "cell", [Standing EXCEPT !.hazard = b]>>
             Out(b) == <<"egress_to_dry", 0, [Plain EXCEPT !.near = b]>>
             Back(b) == <<"recover_after_death", 0, [Plain EXCEPT !.lever = b]>>
             S == {Surface(b, c) : b \in BOOLEAN, c \in BOOLEAN}
  <1>1. \A e \in _mine_collect_tool \cup _place_block_tool \cup _place_here_tool \cup _search_tool : EntryBlock(e)
    BY DEF _mine_collect_tool, _place_block_tool, _place_here_tool, _search_tool,
           EntryBlock, EntryFit, OfBlocks, Blocks, Plain, From, Standing, Floor
  <1>2. \A h : EntryBlock(Up(h))
    BY DEF EntryBlock, EntryFit, OfBlocks, Blocks, Plain, Standing
  <1>3. \A b, c : EntryBlock(Surface(b, c))
    BY DEF EntryBlock, EntryFit, OfBlocks, Blocks, Plain
  <1>4. \A b : EntryBlock(Dry(b))
    BY DEF EntryBlock, EntryFit, OfBlocks, Blocks, Plain, Standing
  <1>5. \A b : EntryBlock(Out(b))
    BY DEF EntryBlock, EntryFit, OfBlocks, Blocks, Plain
  <1>6. ASSUME NEW u PROVE EntryBlock(OnFloor(u))
    <2>1. OnFloor(u)[3].site = TRUE /\ OnFloor(u)[3].y = 2
      BY DEF Floor, Plain
    <2>4. OnFloor(u)[3].hazard = FALSE /\ OnFloor(u)[3].hurt = FALSE
      BY DEF Floor, Plain
    <2>2. DOMAIN OnFloor(u)[3] = DOMAIN Plain
      BY DEF Floor, Plain
    <2>3. OnFloor(u)[1] = "dig_down_to_y" /\ OnFloor(u)[2] = [goal |-> 2 - Asked, floor |-> 2]
      OBVIOUS
    <2> HIDE DEF OnFloor
    <2> QED
      BY <2>1, <2>2, <2>3, <2>4 DEF EntryBlock, EntryFit, EntryDig, OfBlocks, Blocks
  <1>7. ASSUME NEW h \in {0, 2, 3} PROVE EntryBlock(OffFloor(h))
    <2>1. ~OffFloor(h)[3].near /\ OffFloor(h)[3].under = "rock"
      BY DEF Plain
    <2>2. ~OffFloor(h)[3].hazard /\ ~OffFloor(h)[3].hurt
      BY DEF Plain
    <2>3. OffFloor(h)[3].y = h
      BY DEF Plain
    <2>4. DOMAIN OffFloor(h)[3] = DOMAIN Plain
      BY DEF Plain
    <2>5. OffFloor(h)[1] = "dig_down_to_y" /\ OffFloor(h)[2] = [goal |-> 2 - Asked, floor |-> h]
      OBVIOUS
    <2> HIDE DEF OffFloor
    <2> QED
      BY <2>1, <2>2, <2>3, <2>4, <2>5 DEF EntryBlock, EntryFit, EntryDig, OfBlocks, Blocks
  <1>8. EntryBlock(<<"mine_block", "cell", Standing>>)
    BY DEF EntryBlock, EntryFit, OfBlocks, Blocks, Plain, Standing
  <1>9. \A e \in _dig_up_tool : \E h : e = Up(h)
    BY Zenon DEF _dig_up_tool
  <1>10. _go_to_surface_tool = S
    BY DEF _go_to_surface_tool
  <1>11. \A e \in Mining : e = <<"mine_block", "cell", Standing>> \/ \E b : e = Dry(b)
    BY Zenon DEF Mining
  <1>12. \A e \in Anywhere("egress_to_dry") : \E b : e = Out(b)
    BY Zenon DEF Anywhere, Somewhere
  <1>13. \A e \in Recovering : e \in Anywhere("egress_to_dry") \/ \E b : e = Back(b)
    BY Zenon DEF Recovering
  <1>14. \A b : Back(b)[1] # "egress_to_dry"
    OBVIOUS
  <1>15. \A e \in _dig_down_tool : (\E u : e = OnFloor(u)) \/ (\E h \in {0, 2, 3} : e = OffFloor(h))
    BY Zenon DEF _dig_down_tool
  <1> HIDE DEF OnFloor, OffFloor, Up, Surface, Dry, Out, Back, S
  <1>16. \A e \in S : \E b, c : e = Surface(b, c)
    BY DEF S
  <1>17. \A e \in _dig_down_tool : EntryBlock(e)
    BY <1>6, <1>7, <1>15, Zenon
  <1>18. \A e \in _dig_up_tool : EntryBlock(e)
    BY <1>2, <1>9, Zenon
  <1>19. \A e \in _go_to_surface_tool : EntryBlock(e)
    BY <1>3, <1>10, <1>16
  <1>20. \A e \in Mining : EntryBlock(e)
    BY <1>4, <1>8, <1>11, Zenon
  <1>21. \A e \in Recovering : e[1] = "egress_to_dry" => EntryBlock(e)
    BY <1>5, <1>12, <1>13, <1>14, Zenon
  <1>22. \A e \in BlockEntries :
            \/ e \in _mine_collect_tool \cup _place_block_tool \cup _place_here_tool \cup _search_tool
            \/ e \in _dig_down_tool \/ e \in _dig_up_tool \/ e \in _go_to_surface_tool \/ e \in Mining
            \/ e \in Recovering /\ e[1] = "egress_to_dry"
    BY Zenon DEF BlockEntries
  <1> QED
    BY <1>1, <1>17, <1>18, <1>19, <1>20, <1>21, <1>22, Zenon

\* ----- mining next to a liquid ----------------------------------------------

(* While the Body works next to a hazard, its frames are among those that  *)
(* seal it off, and none of them breaks.                                   *)
Sealing(f) ==
    /\ f.fn \in {"mine_block_dry", "_approach_seal_face", "_place_first_available_seal_block", "place_block", "_dispatch"}
    /\ f.fn = "mine_block_dry" => f.at \notin {"mine", "end"}
    /\ f.fn = "place_block" => f.x = "seal"
    /\ f.fn = "_dispatch" => f.x[1] # "break"

Sealed == \A i \in 1..Len(stack) : Sealing(stack[i])

SealInv == ~Elsewhere /\ world.hazard => ~Breaking /\ Sealed

\* What a step leaves as it was.
SealStep == Sealed' /\ (Breaking' => Breaking)

(* A stack of sealing frames stays one when it is worked on.               *)
LEMMA SealEdits ==
    ASSUME IsStack, stack # <<>>, Sealed
    PROVE  /\ \A frame : Stand(frame) /\ Sealing(frame) => Sealed'
           /\ \A f, v, l : /\ stack' = Append([stack EXCEPT ![Len(stack)].at = l], Frame(f, v))
                           /\ Sealing(Frame(f, v)) /\ Sealing([Here EXCEPT !.at = l])
                           => Sealed'
           /\ stack' = SubSeq(stack, 1, Len(stack) - 1) => Sealed'
           /\ \A e : Raise(e) => Sealed'
  <1>1. \A i \in 1..Len(stack) : Sealing(stack[i])
    BY DEF Sealed
  <1>2. (\A i \in 1..Len(stack') : Sealing(stack'[i])) => Sealed'
    BY DEF Sealed
  <1>3. ASSUME NEW frame, Stand(frame), Sealing(frame) PROVE Sealed'
    <2>1. /\ Len(stack) \in Nat \ {0} /\ Len(stack') = Len(stack)
          /\ stack'[Len(stack)] = frame
          /\ \A i \in 1..(Len(stack) - 1) : stack'[i] = stack[i]
      BY <1>3, StandAt
    <2> QED
      BY <1>1, <1>2, <1>3, <2>1
  <1>4. ASSUME NEW f, NEW v, NEW l,
               stack' = Append([stack EXCEPT ![Len(stack)].at = l], Frame(f, v)),
               Sealing(Frame(f, v)), Sealing([Here EXCEPT !.at = l])
        PROVE  Sealed'
    <2>1. /\ Len(stack) \in Nat \ {0} /\ Len(stack') = Len(stack) + 1
          /\ stack'[Len(stack) + 1] = Frame(f, v)
          /\ stack'[Len(stack)] = [Here EXCEPT !.at = l]
          /\ \A i \in 1..(Len(stack) - 1) : stack'[i] = stack[i]
      BY <1>4, PushAt
    <2>2. Sealing(stack'[Len(stack) + 1]) /\ Sealing(stack'[Len(stack)])
      BY <1>4, <2>1, Zenon
    <2> QED
      BY <1>1, <1>2, <2>1, <2>2
  <1>5. ASSUME stack' = SubSeq(stack, 1, Len(stack) - 1) PROVE Sealed'
    <2>1. /\ Len(stack) \in Nat \ {0} /\ Len(stack') = Len(stack) - 1
          /\ \A i \in 1..(Len(stack) - 1) : stack'[i] = stack[i]
      BY <1>5, ReturnAt
    <2> QED
      BY <1>1, <1>2, <2>1
  <1>6. ASSUME NEW e, Raise(e) PROVE Sealed'
    <2>1. PICK d \in 0..Len(stack) :
             Len(stack) \in Nat \ {0} /\ Len(stack') = d /\ \A i \in 1..d : stack'[i] = stack[i]
      BY <1>6, RaiseAt
    <2> QED
      BY <1>1, <1>2, <2>1
  <1> QED
    BY <1>3, <1>4, <1>5, <1>6, Zenon

(* So does the innermost frame, unless it goes on to mine.                 *)
LEMMA HereSeals ==
    ASSUME IsStack, stack # <<>>, Sealed, Ground(FALSE)
    PROVE  /\ Sealing(Here)
           /\ \A l : (Here.fn = "mine_block_dry" => l \notin {"mine", "end"})
                     => Sealing([Here EXCEPT !.at = l]) /\ Sealing([Here EXCEPT !.at = l, !.n = @ + 1])
  <1>1. Len(stack) \in Nat \ {0}
    BY EmptySeq DEF IsStack
  <1>2. Sealing(Here)
    BY <1>1 DEF Sealed, Here
  <1>3. PICK h : h = Here
    OBVIOUS
  <1>4. h = [fn |-> h.fn, at |-> h.at, x |-> h.x, n |-> h.n]
    BY <1>3, HereFits DEF Fit, IsFrame
  <1>5. ASSUME NEW l, h.fn = "mine_block_dry" => l \notin {"mine", "end"}
        PROVE  Sealing([h EXCEPT !.at = l]) /\ Sealing([h EXCEPT !.at = l, !.n = @ + 1])
    <2>1. PICK g : g = [h EXCEPT !.at = l]
      OBVIOUS
    <2>2. PICK c : c = [g EXCEPT !.n = h.n + 1]
      OBVIOUS
    <2>3. g.fn = h.fn /\ g.at = l /\ g.x = h.x /\ g.n = h.n
      BY <1>4, <2>1
    <2>4. g = [fn |-> h.fn, at |-> l, x |-> h.x, n |-> h.n]
      BY <1>4, <2>1
    <2>5. c.fn = h.fn /\ c.at = l /\ c.x = h.x
      BY <2>2, <2>4
    <2>6. Sealing(g) /\ Sealing(c)
      BY <1>2, <1>3, <1>5, <2>3, <2>5 DEF Sealing
    <2>7. c = [h EXCEPT !.at = l, !.n = @ + 1]
      BY <2>1, <2>2
    <2> QED
      BY <2>1, <2>6, <2>7
  <1> QED
    BY <1>2, <1>3, <1>5

(* The steps of a frame that seals.                                        *)
LEMMA SealCalls ==
    ASSUME IsStack, IsClient, stack # <<>>, Sealed, Ground(FALSE)
    PROVE  /\ \A l : Goto(l) /\ (Here.fn = "mine_block_dry" => l \notin {"mine", "end"}) => SealStep
           /\ \A l : Count(l) /\ (Here.fn = "mine_block_dry" => l \notin {"mine", "end"}) => SealStep
           /\ \A f, v, l : /\ Call(f, v, l) /\ (Here.fn = "mine_block_dry" => l \notin {"mine", "end"})
                           /\ Sealing(Frame(f, v))
                           => SealStep
           /\ \A r : Return(r) => SealStep
           /\ \A e : Raise(e) /\ UNCHANGED client => SealStep
           /\ \A outcomes, l : Contracted(outcomes, l) /\ Here.fn # "mine_block_dry" => SealStep
           /\ \A k, l : Execute(k, l) /\ k[1] # "break" /\ Here.fn # "mine_block_dry" => SealStep
  <1>1. UNCHANGED client => (Breaking' => Breaking)
    BY DEF Breaking
  <1>2. \A l : Goto(l) /\ (Here.fn = "mine_block_dry" => l \notin {"mine", "end"}) => SealStep
    BY <1>1, SealEdits, HereSeals DEF Goto, Outside, SealStep
  <1>3. \A l : Count(l) /\ (Here.fn = "mine_block_dry" => l \notin {"mine", "end"}) => SealStep
    BY <1>1, SealEdits, HereSeals DEF Count, Outside, SealStep
  <1>4. \A f, v, l : /\ Call(f, v, l) /\ (Here.fn = "mine_block_dry" => l \notin {"mine", "end"})
                     /\ Sealing(Frame(f, v))
                     => SealStep
    BY <1>1, SealEdits, HereSeals DEF Call, Outside, SealStep
  <1>5. \A r : Return(r) => SealStep
    BY <1>1, SealEdits DEF Return, Outside, SealStep
  <1>6. \A e : Raise(e) /\ UNCHANGED client => SealStep
    BY <1>1, SealEdits DEF SealStep
  <1>7. ASSUME NEW outcomes, NEW l, Contracted(outcomes, l), Here.fn # "mine_block_dry" PROVE SealStep
    <2>1. client' \in {client, [client EXCEPT !.unknown = TRUE]}
      BY <1>7 DEF Contracted
    <2>2. Breaking' => Breaking
      BY <2>1, ClientLeft DEF Breaking
    <2>3. Stand([Here EXCEPT !.at = l]) \/ Raise("cancelled") \/ Raise("timeout")
      BY <1>7 DEF Contracted
    <2> QED
      BY <1>7, <2>2, <2>3, SealEdits, HereSeals DEF SealStep
  <1>8. ASSUME NEW k, NEW l, Execute(k, l), k[1] # "break", Here.fn # "mine_block_dry" PROVE SealStep
    <2>1. CASE Raise("cancelled") /\ UNCHANGED client
      BY <1>6, <2>1
    <2>2. CASE Fail
      BY <1>5, <2>2 DEF Fail
    <2>3. CASE client' = Started(k) /\ Stand([Here EXCEPT !.at = l])
      <3>1. client'.run = k /\ client'.late \in {client.late, client.run}
        BY <2>3, ClientStarted
      <3>2. Breaking' => Breaking
        BY <1>8, <3>1 DEF Breaking
      <3> QED
        BY <1>8, <2>3, <3>2, SealEdits, HereSeals DEF SealStep
    <2> QED
      BY <1>8, <2>1, <2>2, <2>3 DEF Execute, Started
  <1> QED
    BY <1>2, <1>3, <1>4, <1>5, <1>6, <1>7, <1>8, Zenon

(* The frames that seal go on sealing, as long as the hazard is there.     *)
LEMMA SealSteps ==
    ASSUME IsStack, IsClient, stack # <<>>, Sealed, Ground(FALSE), world.hazard, BlockStep \/ _dispatch
    PROVE  SealStep
  <1>1. Sealing(Here)
    BY HereSeals
  <1>2. /\ Sealing(Frame("_approach_seal_face", 0)) /\ Sealing(Frame("_place_first_available_seal_block", 0))
        /\ Sealing(Frame("place_block", "seal")) /\ Sealing(Frame("_dispatch", <<"seal", "block">>))
    BY DEF Sealing, Frame
  <1>3. CASE mine_block_dry
    BY <1>1, <1>2, <1>3, SealCalls DEF mine_block_dry, Sealing, In, At, Read, Fail, Then, OkThen
  <1>4. CASE _approach_seal_face
    BY <1>2, <1>4, SealCalls DEF _approach_seal_face, In, Fail, Ok, Deal
  <1>5. CASE _place_first_available_seal_block
    BY <1>2, <1>5, SealCalls DEF _place_first_available_seal_block, In, Fail, Ok
  <1>6. CASE place_block
    <2>1. PlaceKind(Here.x) = <<"seal", "block">>
      BY <1>1, <1>6 DEF place_block, In, Sealing, PlaceKind
    <2> QED
      BY <1>2, <1>6, <2>1, SealCalls DEF place_block, In, Fail, Read, Native
  <1>7. CASE _dispatch
    BY <1>1, <1>7, SealCalls DEF _dispatch, Sealing, In, await_action_terminal
  <1>8. Here.fn \in {"mine_block_dry", "_approach_seal_face", "_place_first_available_seal_block", "place_block", "_dispatch"}
    BY <1>1 DEF Sealing
  <1>9. ASSUME BlockStep
        PROVE  mine_block_dry \/ _approach_seal_face \/ _place_first_available_seal_block \/ place_block
    <2> USE <1>8 DEF In
    <2>1. ~mine_block /\ ~_approach_mining_target /\ ~mine_block_collect /\ ~_ensure_collect_pickaxe
      BY DEF mine_block, _approach_mining_target, mine_block_collect, _ensure_collect_pickaxe
    <2>2. ~dig_down_one /\ ~_fall_probe_after_opening /\ ~dig_down_to_y /\ ~_align_for_descent /\ ~_wait_for_descent
      BY DEF dig_down_one, _fall_probe_after_opening, dig_down_to_y, _align_for_descent, _wait_for_descent
    <2>3. ~dig_up_one /\ ~dig_up_to_y /\ ~_standable_feet_at /\ ~_surface_candidate_at /\ ~egress_to_dry
      BY DEF dig_up_one, dig_up_to_y, _standable_feet_at, _surface_candidate_at, egress_to_dry
    <2>4. ~go_to_surface_begin /\ ~go_to_surface_walk /\ ~_find_surface_domain /\ ~_constructible_surface_column_at
      BY DEF go_to_surface_begin, go_to_surface_walk, _find_surface_domain, _constructible_surface_column_at
    <2>5. ~search_for_block /\ ~place_here_prepare /\ ~place_here_spots /\ ~_approach_place_candidate
      BY DEF search_for_block, place_here_prepare, place_here_spots, _approach_place_candidate
    <2>6. ~_recover_place_here_headroom /\ ~_recover_place_here_stand_position
      BY DEF _recover_place_here_headroom, _recover_place_here_stand_position
    <2> QED
      BY <1>9, <2>1, <2>2, <2>3, <2>4, <2>5, <2>6 DEF BlockStep
  <1> QED
    BY <1>3, <1>4, <1>5, <1>6, <1>7, <1>9

\* ----- digging down ---------------------------------------------------------

(* The frames of a transaction that digs down: the loop, below it one      *)
(* floor, the way over the opening or the wait, below the floor the look   *)
(* under it or the mining, below that the approach or the native action.   *)
Loop(f) == f.fn = "dig_down_to_y" /\ f.x = [goal |-> f.x.goal, floor |-> f.x.floor] /\ f.x.floor \in Int
Below(f, g) ==
    \/ f.at = "opened" /\ g.fn = "dig_down_one"
    \/ f.at = "aligned" /\ g.fn = "_align_for_descent" /\ g.x = f.x.floor
    \/ f.at = "descended" /\ g.fn = "_wait_for_descent" /\ g.x = f.x.floor - 1
Within(f, g) ==
    \/ f.fn = "dig_down_one" /\ f.at = "probed" /\ g.fn = "_fall_probe_after_opening"
    \/ f.fn = "dig_down_one" /\ f.at = "mined" /\ g.fn = "mine_block" /\ g.x = "site"
    \/ f.fn = "_align_for_descent" /\ f.at = "moved" /\ g.fn = "_dispatch" /\ g.x = <<"go", "centre">>
Last(f, g) ==
    /\ f.fn = "mine_block"
    /\ \/ f.at = "close" /\ g.fn = "_approach_mining_target"
       \/ f.at = "broken" /\ g.fn = "_dispatch" /\ g.x = <<"break", "site">>

Chain ==
    /\ Len(stack) \in {0, 1, 2, 3, 4}
    /\ Len(stack) > 0 => Loop(stack[1])
    /\ Len(stack) > 1 => Below(stack[1], stack[2])
    /\ Len(stack) > 2 => Within(stack[2], stack[3])
    /\ Len(stack) > 3 => Last(stack[3], stack[4])

(* The floor is still to be looked under.                                  *)
Looking ==
    \/ Len(stack) = 1 /\ stack[1].at \in {"begin", "down"}
    \/ Len(stack) = 2 /\ stack[2].fn = "dig_down_one" /\ stack[2].at \in {"begin", "probed"}
    \/ Len(stack) = 3 /\ stack[3].fn = "_fall_probe_after_opening"

(* The look under it found nothing against breaking it.                    *)
Looked == Len(stack) = 2 /\ stack[2].fn = "dig_down_one" /\ stack[2].at = "probed" /\ ret = "ok"

(* The break is still to be handed to the client.                          *)
Armed ==
    \/ Len(stack) = 3 /\ stack[3].fn = "mine_block" /\ stack[3].at # "broken"
    \/ Len(stack) = 4 /\ stack[4].fn = "_approach_mining_target"
    \/ Len(stack) = 4 /\ stack[4].fn = "_dispatch" /\ stack[4].at = "begin"

(* The break may still be going on in the client: nobody goes on digging.  *)
Broken ==
    \/ Len(stack) = 4 /\ stack[4].fn = "_dispatch" /\ stack[4].at = "wait" /\ client.term # "ok"
    \/ Len(stack) = 3 /\ stack[3].fn = "mine_block" /\ stack[3].at = "broken" /\ ret # "ok"
    \/ Len(stack) = 2 /\ stack[2].fn = "dig_down_one" /\ stack[2].at = "mined" /\ ret # "ok"
    \/ Len(stack) = 1 /\ stack[1].at = "opened" /\ ret # "ok"
    \/ Len(stack) = 0

\* The Body is where the loop read it to be.
Level == Len(stack) = 0 \/ stack[1].at = "begin" \/ world.y = stack[1].x.floor

DigKinds == {Idle, <<"go", "centre">>, <<"break", "site">>}
Firm == world.site /\ Bearable /\ Level

DigGround ==
    /\ world.y \in Int /\ ~world.hazard
    /\ ~world.site => Bearable
    /\ client.run \in DigKinds /\ client.late \in DigKinds

DigState ==
    /\ Looking => Level /\ (world.site \/ (~world.near /\ client.run = Idle /\ client.late = Idle))
    /\ Looked => Bearable
    /\ Armed => Firm
    /\ Breaking => Firm /\ Broken
    /\ Len(stack) > 0 /\ stack[1].at \in {"opened", "aligned", "descended"} /\ world.y < stack[1].x.floor => world.site
    /\ Len(stack) = 1 /\ stack[1].at = "descended" /\ ret = "ok" => world.y <= stack[1].x.floor - 1

Dig == Chain /\ DigGround /\ DigState
DigInv == entry.fn = "dig_down_to_y" /\ Alone => Dig

(* What the steps of a transaction do to its frames and to what it knows.  *)
Kept == \A i \in 1..(Len(stack) - 1) : stack'[i] = stack[i]
Still == UNCHANGED <<client, world>>

Stays(l, v) ==
    /\ Len(stack') = Len(stack) /\ Kept
    /\ stack'[Len(stack)].fn = Here.fn /\ stack'[Len(stack)].at = l /\ stack'[Len(stack)].x = v
Calls(f, v, l) ==
    /\ Len(stack') = Len(stack) + 1 /\ Kept
    /\ stack'[Len(stack)].fn = Here.fn /\ stack'[Len(stack)].at = l /\ stack'[Len(stack)].x = Here.x
    /\ stack'[Len(stack) + 1].fn = f /\ stack'[Len(stack) + 1].at = "begin" /\ stack'[Len(stack) + 1].x = v
Leaves == Len(stack') = Len(stack) - 1 /\ Kept

(* Every step on the stack is one of these three, or raises.               *)
LEMMA DigEdits ==
    ASSUME IsStack, stack # <<>>, Ground(FALSE)
    PROVE  /\ Len(stack) \in Nat \ {0} /\ Here = stack[Len(stack)]
           /\ \A l : Stand([Here EXCEPT !.at = l]) => Stays(l, Here.x)
           /\ \A l : Goto(l) => Stays(l, Here.x) /\ Still /\ UNCHANGED ret
           /\ \A l : Count(l) => Stays(l, Here.x) /\ Still /\ UNCHANGED ret
           /\ \A l, v : Keep(l, v) => Stays(l, v) /\ Still /\ UNCHANGED ret
           /\ \A l, v, m : KeepCount(l, v, m) => Stays(l, v) /\ Still /\ UNCHANGED ret
           /\ \A f, v, l : Call(f, v, l) => Calls(f, v, l) /\ Still /\ UNCHANGED ret
           /\ \A r : Return(r) => Leaves /\ Still /\ ret' = r
  <1>1. Len(stack) \in Nat \ {0} /\ Here = stack[Len(stack)]
    BY EmptySeq DEF IsStack, Here
  <1>2. PICK h : h = Here
    OBVIOUS
  <1>3. h = [fn |-> h.fn, at |-> h.at, x |-> h.x, n |-> h.n]
    BY <1>2, HereFits DEF Fit, IsFrame
  <1>4. ASSUME NEW g, NEW l, NEW v, Stand(g), g.fn = h.fn, g.at = l, g.x = v PROVE Stays(l, v)
    <2>1. /\ Len(stack) \in Nat \ {0} /\ Len(stack') = Len(stack)
          /\ stack'[Len(stack)] = g
          /\ \A i \in 1..(Len(stack) - 1) : stack'[i] = stack[i]
      BY <1>4, StandAt
    <2> QED
      BY <1>2, <1>4, <2>1 DEF Stays, Kept
  <1>5. ASSUME NEW l, Stand([Here EXCEPT !.at = l]) PROVE Stays(l, Here.x)
    <2>1. PICK g : g = [h EXCEPT !.at = l]
      OBVIOUS
    <2>2. g.fn = h.fn /\ g.at = l /\ g.x = h.x
      BY <1>3, <2>1
    <2> QED
      BY <1>2, <1>4, <1>5, <2>1, <2>2
  <1>6. ASSUME NEW l, Count(l) PROVE Stays(l, Here.x)
    <2>1. PICK g : g = [h EXCEPT !.at = l, !.n = @ + 1]
      OBVIOUS
    <2>2. g.fn = h.fn /\ g.at = l /\ g.x = h.x
      BY <1>3, <2>1
    <2> QED
      BY <1>2, <1>4, <1>6, <2>1, <2>2 DEF Count
  <1>7. ASSUME NEW l, NEW v, Keep(l, v) PROVE Stays(l, v)
    <2>1. PICK g : g = [h EXCEPT !.at = l, !.x = v]
      OBVIOUS
    <2>2. g.fn = h.fn /\ g.at = l /\ g.x = v
      BY <1>3, <2>1
    <2> QED
      BY <1>2, <1>4, <1>7, <2>1, <2>2 DEF Keep
  <1>8. ASSUME NEW l, NEW v, NEW m, KeepCount(l, v, m) PROVE Stays(l, v)
    <2>1. PICK g : g = [h EXCEPT !.at = l, !.x = v, !.n = m]
      OBVIOUS
    <2>2. g.fn = h.fn /\ g.at = l /\ g.x = v
      BY <1>3, <2>1
    <2> QED
      BY <1>2, <1>4, <1>8, <2>1, <2>2 DEF KeepCount
  <1>9. ASSUME NEW f, NEW v, NEW l, Call(f, v, l) PROVE Calls(f, v, l)
    <2>1. /\ Len(stack) \in Nat \ {0} /\ Len(stack') = Len(stack) + 1
          /\ stack'[Len(stack) + 1] = Frame(f, v)
          /\ stack'[Len(stack)] = [Here EXCEPT !.at = l]
          /\ \A i \in 1..(Len(stack) - 1) : stack'[i] = stack[i]
      BY <1>9, PushAt DEF Call
    <2>2. PICK g : g = [h EXCEPT !.at = l]
      OBVIOUS
    <2>3. g.fn = h.fn /\ g.at = l /\ g.x = h.x
      BY <1>3, <2>2
    <2>4. stack'[Len(stack)] = g
      BY <1>2, <2>1, <2>2
    <2>5. Frame(f, v).fn = f /\ Frame(f, v).at = "begin" /\ Frame(f, v).x = v
      BY DEF Frame
    <2> QED
      BY <1>2, <2>1, <2>3, <2>4, <2>5 DEF Calls, Kept
  <1>10. ASSUME NEW r, Return(r) PROVE Leaves
    <2>1. /\ Len(stack) \in Nat \ {0} /\ Len(stack') = Len(stack) - 1
          /\ \A i \in 1..(Len(stack) - 1) : stack'[i] = stack[i]
      BY <1>10, ReturnAt DEF Return
    <2> QED
      BY <2>1 DEF Leaves, Kept
  <1>11. \A l : Goto(l) => Stays(l, Here.x) /\ Still /\ UNCHANGED ret
    BY <1>5 DEF Goto, Still, Outside
  <1>12. \A l : Count(l) => Stays(l, Here.x) /\ Still /\ UNCHANGED ret
    BY <1>6 DEF Count, Still, Outside
  <1>13. \A l, v : Keep(l, v) => Stays(l, v) /\ Still /\ UNCHANGED ret
    BY <1>7 DEF Keep, Still, Outside
  <1>14. \A l, v, m : KeepCount(l, v, m) => Stays(l, v) /\ Still /\ UNCHANGED ret
    BY <1>8 DEF KeepCount, Still, Outside
  <1>15. \A f, v, l : Call(f, v, l) => Calls(f, v, l) /\ Still /\ UNCHANGED ret
    BY <1>9 DEF Call, Still, Outside
  <1>16. \A r : Return(r) => Leaves /\ Still /\ ret' = r
    BY <1>10 DEF Return, Still, Outside
  <1> QED
    BY <1>1, <1>5, <1>11, <1>12, <1>13, <1>14, <1>15, <1>16, Zenon

(* Raising ends the transaction, but for the timeout of the way over the   *)
(* opening, which is caught.                                               *)
LEMMA DigRaises ==
    ASSUME IsStack, stack # <<>>, Chain, Here.fn \in {"_dispatch", "_approach_mining_target"}, NEW e, Raise(e)
    PROVE  \/ Len(stack') = 0
           \/ /\ Len(stack) = 3 /\ Len(stack') = 2 /\ Kept
              /\ stack[2].fn = "_align_for_descent" /\ stack[2].at = "moved"
  <1>1. PICK d \in 0..Len(stack) :
              /\ Len(stack) \in Nat \ {0}
              /\ d > 0 => Catches(stack[d], e)
              /\ Len(stack') = d /\ \A i \in 1..d : stack'[i] = stack[i]
    BY RaiseAt
  <1>2. Len(stack) \in {1, 2, 3, 4} /\ d \in {0, 1, 2, 3, 4}
    BY <1>1 DEF Chain
  <1>3. ASSUME d > 0 PROVE stack[d].fn = "_align_for_descent" /\ stack[d].at = "moved"
    <2>1. <<stack[d].fn, stack[d].at>> \in Catching
      BY <1>1, <1>3 DEF Catches
    <2>2. stack[d].fn \in {"dig_down_to_y", "dig_down_one", "_align_for_descent", "_wait_for_descent",
                           "_fall_probe_after_opening", "mine_block", "_dispatch", "_approach_mining_target"}
      BY <1>2, <1>3, <1>1 DEF Chain, Loop, Below, Within, Last
    <2> QED
      BY <2>1, <2>2 DEF Catching
  <1>4. CASE d = 0
    BY <1>1, <1>4
  <1>5. CASE d > 0
    <2>1. d = 2
      BY <1>1, <1>2, <1>3, <1>5 DEF Chain, Loop, Below, Within, Last
    <2>2. ASSUME Len(stack) = 4 PROVE FALSE
      <3>1. stack[3].fn = "mine_block" /\ Within(stack[2], stack[3])
        BY <2>2 DEF Chain, Last
      <3>2. stack[2].fn = "dig_down_one"
        BY <3>1 DEF Within
      <3> QED
        BY <1>3, <2>1, <3>2
    <2>3. Len(stack) = 3
      BY <1>1, <1>2, <2>1, <2>2 DEF Chain, Below, Here
    <2> QED
      BY <1>1, <1>3, <2>1, <2>3 DEF Kept
  <1> QED
    BY <1>1, <1>4, <1>5

(* Which frame is the innermost says how deep the stack is.                *)
LEMMA DigDepth ==
    ASSUME IsStack, stack # <<>>, Chain
    PROVE  /\ Len(stack) \in {1, 2, 3, 4} /\ Here = stack[Len(stack)]
           /\ Len(stack) = 1 <=> Here.fn = "dig_down_to_y"
           /\ Len(stack) = 2 <=> Here.fn \in {"dig_down_one", "_align_for_descent", "_wait_for_descent"}
           /\ Len(stack) = 3 => Here.fn \in {"_fall_probe_after_opening", "mine_block", "_dispatch"}
           /\ Len(stack) = 4 => Here.fn \in {"_approach_mining_target", "_dispatch"}
  <1>1. Len(stack) \in {1, 2, 3, 4} /\ Here = stack[Len(stack)]
    BY EmptySeq DEF IsStack, Chain, Here
  <1>2. CASE Len(stack) = 1
    BY <1>1, <1>2 DEF Chain, Loop
  <1>3. CASE Len(stack) = 2
    BY <1>1, <1>3 DEF Chain, Below
  <1>4. CASE Len(stack) = 3
    BY <1>1, <1>4 DEF Chain, Within
  <1>5. CASE Len(stack) = 4
    BY <1>1, <1>5 DEF Chain, Last
  <1> QED
    BY <1>1, <1>2, <1>3, <1>4, <1>5

(* The loop over the floors.                                               *)
LEMMA DigLoop ==
    ASSUME IsStack, stack # <<>>, Ground(FALSE), Dig, dig_down_to_y
    PROVE  Dig'
  <1> DEFINE floor == stack[1].x.floor
             goal == stack[1].x.goal
  <1>1. Len(stack) = 1 /\ Here = stack[1] /\ Loop(stack[1])
    BY DigDepth DEF dig_down_to_y, In, Dig, Chain
  <1>2. Still => DigGround' /\ UNCHANGED <<Breaking, Bearable>>
    BY DEF Dig, DigGround, Still, Breaking, Bearable
  <1>3. ASSUME Leaves, Still PROVE Dig'
    <2>1. Len(stack') = 0
      BY <1>1, <1>3 DEF Leaves
    <2> QED
      BY <1>2, <1>3, <2>1 DEF Dig, Chain, DigState, Looking, Looked, Armed, Broken, Firm, Level, Still
  <1>4. \A r : Return(r) => Dig'
    BY <1>3, DigEdits
  <1>5. CASE At("begin") /\ Keep("down", [Here.x EXCEPT !.floor = world.y])
    <2>1. PICK v : v = [Here.x EXCEPT !.floor = world.y]
      OBVIOUS
    <2>2. v = [goal |-> goal, floor |-> world.y] /\ world.y \in Int
      BY <1>1, <2>1 DEF Loop, Dig, DigGround
    <2>3. Len(stack') = 1 /\ stack'[1].fn = stack[1].fn /\ stack'[1].at = "down" /\ stack'[1].x = v
      BY <1>1, <1>5, <2>1, DigEdits DEF Stays
    <2>4. Still
      BY <1>5, DigEdits
    <2>5. Chain' /\ Level'
      BY <1>1, <2>2, <2>3, <2>4 DEF Chain, Loop, Level, Still
    <2> QED
      BY <1>1, <1>2, <1>5, <2>3, <2>4, <2>5 DEF Dig, DigState, Looking, Looked, Armed, Broken, Still, At
  <1>6. CASE At("down") /\ Call("dig_down_one", 0, "opened")
    <2>1. /\ Len(stack') = 2 /\ stack'[1].fn = stack[1].fn /\ stack'[1].at = "opened" /\ stack'[1].x = stack[1].x
          /\ stack'[2].fn = "dig_down_one" /\ stack'[2].at = "begin"
      BY <1>1, <1>6, DigEdits DEF Calls
    <2>2. Still
      BY <1>6, DigEdits
    <2>3. Chain'
      BY <1>1, <2>1 DEF Chain, Loop, Below
    <2> QED
      BY <1>1, <1>2, <1>6, <2>1, <2>2, <2>3 DEF Dig, DigState, Looking, Looked, Armed, Broken, Level, Still, At, DigGround
  <1>7. CASE At("opened") /\ ret = "ok" /\ Call("_align_for_descent", Here.x.floor, "aligned")
    <2>1. /\ Len(stack') = 2 /\ stack'[1].fn = stack[1].fn /\ stack'[1].at = "aligned" /\ stack'[1].x = stack[1].x
          /\ stack'[2].fn = "_align_for_descent" /\ stack'[2].at = "begin" /\ stack'[2].x = floor
      BY <1>1, <1>7, DigEdits DEF Calls
    <2>2. Still
      BY <1>7, DigEdits
    <2>3. Chain'
      BY <1>1, <2>1 DEF Chain, Loop, Below
    <2> QED
      BY <1>1, <1>2, <1>7, <2>1, <2>2, <2>3 DEF Dig, DigState, Looking, Looked, Armed, Broken, Level, Still, At, DigGround
  <1>8. CASE At("aligned") /\ ret = "ok" /\ Call("_wait_for_descent", Here.x.floor - 1, "descended")
    <2>1. /\ Len(stack') = 2 /\ stack'[1].fn = stack[1].fn /\ stack'[1].at = "descended" /\ stack'[1].x = stack[1].x
          /\ stack'[2].fn = "_wait_for_descent" /\ stack'[2].at = "begin" /\ stack'[2].x = floor - 1
      BY <1>1, <1>8, DigEdits DEF Calls
    <2>2. Still
      BY <1>8, DigEdits
    <2>3. Chain'
      BY <1>1, <2>1 DEF Chain, Loop, Below
    <2> QED
      BY <1>1, <1>2, <1>8, <2>1, <2>2, <2>3 DEF Dig, DigState, Looking, Looked, Armed, Broken, Level, Still, At, DigGround
  <1>9. CASE At("descended") /\ ret = "ok" /\ KeepCount("down", [Here.x EXCEPT !.floor = world.y], Here.n + 1)
    <2>1. PICK v : v = [Here.x EXCEPT !.floor = world.y]
      OBVIOUS
    <2>2. v = [goal |-> goal, floor |-> world.y] /\ world.y \in Int
      BY <1>1, <2>1 DEF Loop, Dig, DigGround
    <2>3. Len(stack') = 1 /\ stack'[1].fn = stack[1].fn /\ stack'[1].at = "down" /\ stack'[1].x = v
      BY <1>1, <1>9, <2>1, DigEdits DEF Stays
    <2>4. Still
      BY <1>9, DigEdits
    <2>5. Chain' /\ Level'
      BY <1>1, <2>2, <2>3, <2>4 DEF Chain, Loop, Level, Still
    <2>6. world.site
      BY <1>1, <1>9 DEF Dig, DigState, DigGround, Loop, At
    <2> QED
      BY <1>1, <1>2, <1>9, <2>3, <2>4, <2>5, <2>6 DEF Dig, DigState, Looking, Looked, Armed, Broken, Still, At
  <1> QED
    BY <1>4, <1>5, <1>6, <1>7, <1>8, <1>9 DEF dig_down_to_y, Then, Ok, Fail, At

(* One floor: the look under it, then its mining.                          *)
LEMMA DigFloor ==
    ASSUME IsStack, stack # <<>>, Ground(FALSE), Dig, dig_down_one
    PROVE  Dig'
  <1>1. Len(stack) = 2 /\ Here = stack[2] /\ stack[2].fn = "dig_down_one" /\ stack[1].at = "opened" /\ Loop(stack[1])
    BY DigDepth DEF dig_down_one, In, Dig, Chain, Below
  <1>2. Still => DigGround' /\ UNCHANGED <<Breaking, Bearable>>
    BY DEF Dig, DigGround, Still, Breaking, Bearable
  <1>3. ASSUME Leaves, Still, Breaking => ret' # "ok" PROVE Dig'
    <2>1. Len(stack') = 1 /\ stack'[1] = stack[1]
      BY <1>1, <1>3 DEF Leaves, Kept
    <2>2. Chain'
      BY <1>1, <2>1 DEF Chain
    <2> QED
      BY <1>1, <1>2, <1>3, <2>1, <2>2 DEF Dig, DigState, Looking, Looked, Armed, Broken, Firm, Level, Still
  <1>4. ASSUME NEW f, NEW v, NEW l, Call(f, v, l)
        PROVE  /\ Len(stack') = 3 /\ stack'[1] = stack[1]
               /\ stack'[2].fn = "dig_down_one" /\ stack'[2].at = l
               /\ stack'[3].fn = f /\ stack'[3].at = "begin" /\ stack'[3].x = v
               /\ Still
    BY <1>1, <1>4, DigEdits DEF Calls, Kept
  <1>5. CASE At("begin") /\ Read(Call("_fall_probe_after_opening", 0, "probed"))
    <2>1. ~Breaking
      BY <1>1, <1>5 DEF Dig, DigState, Broken, At
    <2>2. CASE Fail
      BY <1>3, <2>1, <2>2, DigEdits DEF Fail
    <2>3. CASE Call("_fall_probe_after_opening", 0, "probed")
      <3>1. Chain'
        BY <1>1, <1>4, <2>3 DEF Chain, Within, Below
      <3> QED
        BY <1>1, <1>2, <1>4, <1>5, <2>1, <2>3, <3>1
           DEF Dig, DigState, Looking, Looked, Armed, Broken, Level, Still, At
    <2> QED
      BY <1>5, <2>2, <2>3 DEF Read
  <1>6. CASE At("probed") /\ Then(IF world.site THEN Call("mine_block", "site", "mined") ELSE Ok)
    <2>1. ~Breaking
      BY <1>1, <1>6 DEF Dig, DigState, Broken, At
    <2>2. CASE Return(ret) \/ Ok
      BY <1>3, <2>1, <2>2, DigEdits DEF Ok
    <2>3. CASE ret = "ok" /\ world.site /\ Call("mine_block", "site", "mined")
      <3>1. Chain'
        BY <1>1, <1>4, <2>3 DEF Chain, Within, Below
      <3>2. Level /\ Bearable
        BY <1>1, <1>6, <2>3 DEF Dig, DigState, Looking, Looked, At
      <3>3. /\ Len(stack') = 3 /\ stack'[1] = stack[1]
            /\ stack'[3].fn = "mine_block" /\ Still
        BY <1>4, <2>3
      <3>4. Firm' /\ ~Breaking' /\ DigGround'
        BY <1>2, <2>1, <2>3, <3>2, <3>3 DEF Firm, Level, Still
      <3> QED
        BY <1>1, <3>1, <3>3, <3>4 DEF Dig, DigState, Looking, Looked, Armed, Firm
    <2> QED
      BY <1>6, <2>2, <2>3 DEF Then
  <1>7. CASE At("mined") /\ Return(ret)
    <2>1. Breaking => ret # "ok"
      BY <1>1, <1>7 DEF Dig, DigState, Broken, At
    <2> QED
      BY <1>3, <1>7, <2>1, DigEdits
  <1> QED
    BY <1>5, <1>6, <1>7 DEF dig_down_one

(* The look under the floor passes only what is bearable.                  *)
LEMMA DigProbe ==
    ASSUME IsStack, stack # <<>>, Ground(FALSE), Dig, _fall_probe_after_opening
    PROVE  Dig'
  <1>1. /\ Len(stack) = 3 /\ Here = stack[3] /\ stack[3].fn = "_fall_probe_after_opening"
        /\ stack[2].fn = "dig_down_one" /\ stack[2].at = "probed" /\ stack[1].at = "opened" /\ Loop(stack[1])
    BY DigDepth DEF _fall_probe_after_opening, In, Dig, Chain, Below, Within
  <1>2. Still => DigGround' /\ UNCHANGED <<Breaking, Bearable>>
    BY DEF Dig, DigGround, Still, Breaking, Bearable
  <1>3. ~Breaking
    BY <1>1 DEF Dig, DigState, Broken
  <1>4. ASSUME Leaves, Still, ret' = "ok" => Bearable PROVE Dig'
    <2>1. Len(stack') = 2 /\ stack'[1] = stack[1] /\ stack'[2] = stack[2]
      BY <1>1, <1>4 DEF Leaves, Kept
    <2>2. Chain'
      BY <1>1, <2>1 DEF Chain, Below
    <2> QED
      BY <1>1, <1>2, <1>3, <1>4, <2>1, <2>2 DEF Dig, DigState, Looking, Looked, Armed, Broken, Level, Still
  <1>5. CASE Count("begin")
    <2>1. /\ Len(stack') = 3 /\ stack'[1] = stack[1] /\ stack'[2] = stack[2]
          /\ stack'[3].fn = "_fall_probe_after_opening" /\ Still
      BY <1>1, <1>5, DigEdits DEF Stays, Kept
    <2>2. Chain'
      BY <1>1, <2>1 DEF Chain, Below, Within, Dig
    <2> QED
      BY <1>1, <1>2, <1>3, <2>1, <2>2 DEF Dig, DigState, Looking, Looked, Armed, Broken, Level, Still
  <1>6. CASE Bearable /\ Ok
    BY <1>4, <1>6, DigEdits DEF Ok
  <1>7. CASE Fail
    BY <1>4, <1>7, DigEdits DEF Fail
  <1> QED
    BY <1>5, <1>6, <1>7 DEF _fall_probe_after_opening, Read

(* Over the opening, and down: nothing is broken meanwhile.                *)
LEMMA DigAlign ==
    ASSUME IsStack, stack # <<>>, Ground(FALSE), Dig, _align_for_descent \/ _wait_for_descent
    PROVE  Dig'
  <1>1. /\ Len(stack) = 2 /\ Here = stack[2] /\ Loop(stack[1])
        /\ \/ stack[2].fn = "_align_for_descent" /\ stack[1].at = "aligned"
           \/ stack[2].fn = "_wait_for_descent" /\ stack[1].at = "descended" /\ stack[2].x = stack[1].x.floor - 1
    BY DigDepth DEF _align_for_descent, _wait_for_descent, In, Dig, Chain, Below
  <1>2. Still => DigGround' /\ UNCHANGED <<Breaking, Bearable>>
    BY DEF Dig, DigGround, Still, Breaking, Bearable
  <1>3. ~Breaking
    BY <1>1 DEF Dig, DigState, Broken
  <1>4. ASSUME Leaves, Still, stack[1].at = "descended" /\ ret' = "ok" => world.y <= stack[1].x.floor - 1 PROVE Dig'
    <2>1. Len(stack') = 1 /\ stack'[1] = stack[1]
      BY <1>1, <1>4 DEF Leaves, Kept
    <2>2. Chain'
      BY <1>1, <2>1 DEF Chain
    <2> QED
      BY <1>1, <1>2, <1>3, <1>4, <2>1, <2>2 DEF Dig, DigState, Looking, Looked, Armed, Broken, Level, Still
  <1>5. CASE _align_for_descent
    <2>1. stack[1].at = "aligned" /\ stack[2].fn = "_align_for_descent" /\ stack[2].x = stack[1].x.floor
      BY <1>1, <1>5 DEF _align_for_descent, In, Dig, Chain, Below
    <2>2. CASE Ok \/ Fail
      BY <1>4, <2>1, <2>2, DigEdits DEF Ok, Fail
    <2>3. CASE Native(<<"go", "centre">>, "moved")
      <3>1. /\ Len(stack') = 3 /\ stack'[1] = stack[1]
            /\ stack'[2].fn = "_align_for_descent" /\ stack'[2].at = "moved" /\ stack'[2].x = stack[2].x
            /\ stack'[3].fn = "_dispatch" /\ stack'[3].x = <<"go", "centre">> /\ Still
        BY <1>1, <2>1, <2>3, DigEdits DEF Native, Calls, Kept
      <3>2. Chain'
        BY <1>1, <2>1, <3>1 DEF Chain, Below, Within
      <3> QED
        BY <1>1, <1>2, <1>3, <2>1, <3>1, <3>2 DEF Dig, DigState, Looking, Looked, Armed, Broken, Level, Still
    <2> QED
      BY <1>5, <2>2, <2>3 DEF _align_for_descent
  <1>6. CASE _wait_for_descent
    <2>1. stack[1].at = "descended" /\ stack[2].fn = "_wait_for_descent" /\ stack[2].x = stack[1].x.floor - 1
      BY <1>1, <1>6 DEF _wait_for_descent, In
    <2>2. CASE world.y <= Here.x /\ Ok
      BY <1>1, <1>4, <2>1, <2>2, DigEdits DEF Ok
    <2>3. CASE Fail
      BY <1>4, <2>1, <2>3, DigEdits DEF Fail
    <2>4. CASE Count("begin")
      <3>1. /\ Len(stack') = 2 /\ stack'[1] = stack[1]
            /\ stack'[2].fn = "_wait_for_descent" /\ stack'[2].x = stack[2].x /\ Still
        BY <1>1, <2>1, <2>4, DigEdits DEF Stays, Kept
      <3>2. Chain'
        BY <1>1, <2>1, <3>1 DEF Chain, Below
      <3> QED
        BY <1>1, <1>2, <1>3, <2>1, <3>1, <3>2 DEF Dig, DigState, Looking, Looked, Armed, Broken, Level, Still
    <2> QED
      BY <1>6, <2>2, <2>3, <2>4 DEF _wait_for_descent
  <1> QED
    BY <1>5, <1>6

(* The mining of the floor, up to the break and after it.                  *)
LEMMA DigMine ==
    ASSUME IsStack, stack # <<>>, Ground(FALSE), Dig, mine_block
    PROVE  Dig'
  <1>1. /\ Len(stack) = 3 /\ Here = stack[3] /\ stack[3].fn = "mine_block" /\ stack[3].x = "site"
        /\ stack[2].fn = "dig_down_one" /\ stack[2].at = "mined" /\ stack[1].at = "opened" /\ Loop(stack[1])
    BY DigDepth DEF mine_block, In, Dig, Chain, Below, Within
  <1>2. Still => DigGround' /\ UNCHANGED <<Breaking, Bearable>>
    BY DEF Dig, DigGround, Still, Breaking, Bearable
  <1>3. ASSUME Leaves, Still, Breaking => ret' # "ok" PROVE Dig'
    <2>1. Len(stack') = 2 /\ stack'[1] = stack[1] /\ stack'[2] = stack[2]
      BY <1>1, <1>3 DEF Leaves, Kept
    <2>2. Chain'
      BY <1>1, <2>1 DEF Chain, Below
    <2>3. Breaking' => Firm' /\ Broken'
      <3>1. Breaking' => Firm
        BY <1>2, <1>3 DEF Dig, DigState
      <3>2. Firm => Firm'
        BY <1>1, <1>2, <1>3, <2>1 DEF Firm, Level, Still
      <3>3. Breaking' => Broken'
        BY <1>1, <1>2, <1>3, <2>1 DEF Broken
      <3> QED
        BY <3>1, <3>2, <3>3
    <2> QED
      BY <1>1, <1>2, <1>3, <2>1, <2>2, <2>3 DEF Dig, DigState, Looking, Looked, Armed, Still
  <1>4. ASSUME At("approach") \/ At("close") \/ At("break") \/ At("begin")
        PROVE  ~Breaking /\ Firm
    BY <1>1, <1>4 DEF Dig, DigState, Armed, Broken, At
  <1>5. CASE Fail
    BY <1>3, <1>5, DigEdits DEF Fail
  <1>6. CASE (At("begin") /\ Goto("approach")) \/ ((At("approach") \/ At("close")) /\ Goto("break"))
    <2>1. /\ Len(stack') = 3 /\ stack'[1] = stack[1] /\ stack'[2] = stack[2]
          /\ stack'[3].fn = "mine_block" /\ stack'[3].x = "site" /\ stack'[3].at # "broken" /\ Still
      BY <1>1, <1>6, DigEdits DEF Stays, Kept
    <2>2. Chain'
      BY <1>1, <2>1 DEF Chain, Below, Within, Dig
    <2>3. Firm' /\ ~Breaking' /\ DigGround'
      BY <1>1, <1>2, <1>4, <1>6, <2>1 DEF Firm, Level, Still
    <2> QED
      BY <1>1, <2>1, <2>2, <2>3 DEF Dig, DigState, Looking, Looked, Armed, Firm
  <1>7. CASE At("approach") /\ Call("_approach_mining_target", 0, "close")
    <2>1. /\ Len(stack') = 4 /\ stack'[1] = stack[1] /\ stack'[2] = stack[2]
          /\ stack'[3].fn = "mine_block" /\ stack'[3].x = "site" /\ stack'[3].at = "close"
          /\ stack'[4].fn = "_approach_mining_target" /\ Still
      BY <1>1, <1>7, DigEdits DEF Calls, Kept
    <2>2. Chain'
      BY <1>1, <2>1 DEF Chain, Below, Within, Last, Dig
    <2>3. Firm' /\ ~Breaking' /\ DigGround'
      BY <1>1, <1>2, <1>4, <1>7, <2>1 DEF Firm, Level, Still
    <2> QED
      BY <1>1, <2>1, <2>2, <2>3 DEF Dig, DigState, Looking, Looked, Armed, Firm
  <1>8. CASE At("break") /\ Native(<<"break", Here.x>>, "broken")
    <2>1. /\ Len(stack') = 4 /\ stack'[1] = stack[1] /\ stack'[2] = stack[2]
          /\ stack'[3].fn = "mine_block" /\ stack'[3].x = "site" /\ stack'[3].at = "broken"
          /\ stack'[4].fn = "_dispatch" /\ stack'[4].at = "begin" /\ stack'[4].x = <<"break", "site">> /\ Still
      BY <1>1, <1>8, DigEdits DEF Calls, Kept, Native
    <2>2. Chain'
      BY <1>1, <2>1 DEF Chain, Below, Within, Last, Dig
    <2>3. Firm' /\ ~Breaking' /\ DigGround'
      BY <1>1, <1>2, <1>4, <1>8, <2>1 DEF Firm, Level, Still
    <2> QED
      BY <1>1, <2>1, <2>2, <2>3 DEF Dig, DigState, Looking, Looked, Armed, Firm
  <1>9. CASE At("close") /\ Return(ret)
    BY <1>3, <1>4, <1>9, DigEdits
  <1>10. CASE At("broken") /\ ret = "ok" /\ Ok
    <2>1. ~Breaking
      BY <1>1, <1>10 DEF Dig, DigState, Broken, At
    <2> QED
      BY <1>3, <1>10, <2>1, DigEdits DEF Ok
  <1> QED
    BY <1>5, <1>6, <1>7, <1>8, <1>9, <1>10 DEF mine_block, Read, Then

(* A walk changes where the Body is; a timeout or a cancellation ends the  *)
(* transaction.                                                            *)
LEMMA DigCut ==
    ASSUME Dig, Len(stack') = 0, UNCHANGED <<client.run, client.late>>,
           UNCHANGED <<world.y, world.site, world.under, world.hazard>>
    PROVE  Dig'
  <1>1. Chain' /\ Breaking' = Breaking /\ Bearable' = Bearable
    BY DEF Chain, Breaking, Bearable
  <1> QED
    BY <1>1 DEF Dig, DigGround, DigState, Looking, Looked, Armed, Broken, Firm, Level

(* The approach leaves the floor, and what lies under it, alone.           *)
LEMMA DigApproach ==
    ASSUME IsStack, IsClient, stack # <<>>, Ground(FALSE), Dig, _approach_mining_target
    PROVE  Dig'
  <1>1. /\ Len(stack) = 4 /\ Here = stack[4] /\ stack[4].fn = "_approach_mining_target"
        /\ stack[3].fn = "mine_block" /\ stack[3].at = "close" /\ stack[3].x = "site"
        /\ stack[2].fn = "dig_down_one" /\ stack[2].at = "mined" /\ stack[1].at = "opened" /\ Loop(stack[1])
    BY DigDepth DEF _approach_mining_target, In, Dig, Chain, Below, Within, Last
  <1>2. ~Breaking /\ Firm
    BY <1>1 DEF Dig, DigState, Armed, Broken
  <1>3. ASSUME UNCHANGED <<client.run, client.late>>, UNCHANGED <<world.y, world.site, world.under, world.hazard>>,
               Len(stack') \in {3, 4}, \A i \in {1, 2, 3} : stack'[i] = stack[i],
               Len(stack') = 4 => stack'[4].fn = "_approach_mining_target"
        PROVE  Dig'
    <2>1. Chain'
      BY <1>1, <1>3 DEF Chain, Below, Within, Last, Dig
    <2>2. Firm' /\ ~Breaking' /\ DigGround'
      BY <1>1, <1>2, <1>3 DEF Firm, Level, Breaking, Dig, DigGround, Bearable
    <2> QED
      BY <1>1, <1>3, <2>1, <2>2 DEF Dig, DigState, Looking, Looked, Armed, Firm
  <1>4. CASE Ok \/ Fail
    <2>1. Leaves /\ Still
      BY <1>4, DigEdits DEF Ok, Fail
    <2> QED
      BY <1>1, <1>3, <2>1 DEF Leaves, Kept, Still
  <1>5. CASE Deal("navigate_to", 0, "walked")
    <2>1. client' \in {client, [client EXCEPT !.unknown = TRUE]}
      BY <1>5 DEF Deal, Contracted
    <2>2. UNCHANGED <<client.run, client.late>>
      BY <2>1, ClientLeft
    <2>3. world' = world \/ \E b, c : world' = Elsewhither(world, b, c)
      BY <1>5, SparesNavigate DEF Deal, Contracted
    <2>4. \A b, c : /\ Elsewhither(world, b, c).y = world.y /\ Elsewhither(world, b, c).site = world.site
                    /\ Elsewhither(world, b, c).under = world.under /\ Elsewhither(world, b, c).hazard = world.hazard
      BY DEF Elsewhither, Ground, IsWorld, Plain
    <2>5. UNCHANGED <<world.y, world.site, world.under, world.hazard>>
      BY <2>3, <2>4
    <2>6. Stand([Here EXCEPT !.at = "walked"]) \/ Raise("cancelled") \/ Raise("timeout")
      BY <1>5 DEF Deal, Contracted
    <2>7. CASE Stand([Here EXCEPT !.at = "walked"])
      <3>1. Stays("walked", Here.x)
        BY <2>7, DigEdits
      <3> QED
        BY <1>1, <1>3, <2>2, <2>5, <3>1 DEF Stays, Kept
    <2>8. ASSUME NEW e, Raise(e) PROVE Dig'
      <3>1. Len(stack') = 0
        BY <1>1, <2>8, DigRaises DEF Dig
      <3> QED
        BY <2>2, <2>5, <3>1, DigCut
    <2> QED
      BY <2>6, <2>7, <2>8
  <1> QED
    BY <1>4, <1>5 DEF _approach_mining_target, Read

(* The native action: the move, or the break of a floor that was looked    *)
(* under.                                                                  *)
LEMMA DigDispatch ==
    ASSUME IsStack, IsClient, stack # <<>>, Ground(FALSE), Dig, _dispatch
    PROVE  Dig'
  <1>1. Still => DigGround' /\ UNCHANGED <<Breaking, Bearable, client.run, client.late>>
    BY DEF Dig, DigGround, Still, Breaking, Bearable
  <1>2. CASE Len(stack) = 3
    <2>1. /\ Here = stack[3] /\ stack[3].fn = "_dispatch" /\ stack[3].x = <<"go", "centre">>
          /\ stack[2].fn = "_align_for_descent" /\ stack[2].at = "moved" /\ stack[2].x = stack[1].x.floor
          /\ stack[1].at = "aligned" /\ Loop(stack[1])
      BY <1>2, DigDepth DEF _dispatch, In, Dig, Chain, Below, Within
    <2>2. ~Breaking
      BY <1>2, <2>1 DEF Dig, DigState, Broken
    <2>3. ASSUME Len(stack') = 2, stack'[1] = stack[1], stack'[2] = stack[2], Still PROVE Dig'
      <3>1. Chain'
        BY <2>1, <2>3 DEF Chain, Below
      <3> QED
        BY <1>1, <1>2, <2>1, <2>2, <2>3, <3>1 DEF Dig, DigState, Looking, Looked, Armed, Still
    <2>4. ASSUME NEW r, Return(r) PROVE Dig'
      <3>1. Leaves /\ Still
        BY <2>4, DigEdits
      <3> QED
        BY <1>2, <2>3, <3>1 DEF Leaves, Kept
    <2>5. ASSUME NEW e, Raise(e), Still PROVE Dig'
      <3>1. Len(stack') = 0 \/ (Len(stack') = 2 /\ Kept)
        BY <2>1, <2>5, DigRaises DEF Dig
      <3>2. CASE Len(stack') = 0
        BY <1>1, <2>5, <3>2, DigCut DEF Still
      <3>3. CASE Len(stack') = 2 /\ Kept
        BY <1>2, <2>3, <2>5, <3>3 DEF Kept
      <3> QED
        BY <3>1, <3>2, <3>3
    <2>6. CASE /\ client' = Started(Here.x)
               /\ Stand([Here EXCEPT !.at = "wait"]) /\ UNCHANGED world
      <3>1. /\ client'.run = <<"go", "centre">>
            /\ client'.late = IF client.run = Idle THEN client.late ELSE client.run
        BY <2>1, <2>6, ClientStarted
      <3>2. ~Breaking' /\ DigGround'
        BY <2>2, <2>6, <3>1 DEF Breaking, Dig, DigGround, DigKinds, Bearable
      <3>3. /\ Len(stack') = 3 /\ stack'[1] = stack[1] /\ stack'[2] = stack[2]
            /\ stack'[3].fn = "_dispatch" /\ stack'[3].x = stack[3].x
        <4>1. Stays("wait", Here.x)
          BY <2>6, DigEdits
        <4> QED
          BY <1>2, <2>1, <4>1 DEF Stays, Kept
      <3>4. Chain'
        BY <1>2, <2>1, <3>3 DEF Chain, Below, Within, Dig
      <3> QED
        BY <1>2, <2>1, <2>6, <3>2, <3>3, <3>4 DEF Dig, DigState, Looking, Looked, Armed
    <2> QED
      BY <2>4, <2>5, <2>6 DEF _dispatch, Execute, await_action_terminal, Fail, Started, Still
  <1>3. CASE Len(stack) = 4
    <2>1. /\ Here = stack[4] /\ stack[4].fn = "_dispatch" /\ stack[4].x = <<"break", "site">>
          /\ stack[3].fn = "mine_block" /\ stack[3].at = "broken" /\ stack[3].x = "site"
          /\ stack[2].fn = "dig_down_one" /\ stack[2].at = "mined" /\ stack[1].at = "opened" /\ Loop(stack[1])
      BY <1>3, DigDepth DEF _dispatch, In, Dig, Chain, Below, Within, Last
    <2>2. ASSUME NEW r, Return(r), Breaking => r # "ok" PROVE Dig'
      <3>1. Leaves /\ Still /\ ret' = r
        BY <2>2, DigEdits
      <3>2. Len(stack') = 3 /\ stack'[1] = stack[1] /\ stack'[2] = stack[2] /\ stack'[3] = stack[3]
        BY <1>3, <3>1 DEF Leaves, Kept
      <3>3. Chain'
        BY <2>1, <3>2 DEF Chain, Below, Within
      <3>4. Breaking' => Firm
        BY <1>1, <3>1 DEF Dig, DigState
      <3>5. Firm => Firm'
        BY <1>1, <1>3, <3>1, <3>2 DEF Firm, Level, Still
      <3>6. Breaking' => Broken'
        BY <1>1, <2>1, <2>2, <3>1, <3>2 DEF Broken
      <3> QED
        BY <1>1, <2>1, <1>3, <3>1, <3>2, <3>3, <3>4, <3>5, <3>6 DEF Dig, DigState, Looking, Looked, Armed, Still
    <2>3. ASSUME NEW e, Raise(e), Still PROVE Dig'
      <3>1. Len(stack') = 0
        BY <1>3, <2>1, <2>3, DigRaises DEF Dig
      <3> QED
        BY <1>1, <2>3, <3>1, DigCut DEF Still
    <2>4. CASE /\ At("begin") /\ client' = Started(Here.x)
               /\ Stand([Here EXCEPT !.at = "wait"]) /\ UNCHANGED world
      <3>1. /\ client'.run = <<"break", "site">> /\ client'.term = "none"
            /\ client'.late = IF client.run = Idle THEN client.late ELSE client.run
        BY <2>1, <2>4, ClientStarted DEF Started, IsClient
      <3>2. DigGround'
        BY <2>4, <3>1 DEF Dig, DigGround, DigKinds, Bearable
      <3>3. /\ Len(stack') = 4 /\ stack'[1] = stack[1] /\ stack'[2] = stack[2] /\ stack'[3] = stack[3]
            /\ stack'[4].fn = "_dispatch" /\ stack'[4].at = "wait" /\ stack'[4].x = stack[4].x
        <4>1. Stays("wait", Here.x)
          BY <2>4, DigEdits
        <4> QED
          BY <1>3, <2>1, <4>1 DEF Stays, Kept
      <3>4. Chain'
        BY <1>3, <2>1, <3>3 DEF Chain, Below, Within, Last, Dig
      <3>5. Firm
        BY <1>3, <2>1, <2>4 DEF Dig, DigState, Armed, At
      <3>6. Firm'
        BY <1>3, <2>4, <3>3, <3>5 DEF Firm, Level, Bearable
      <3>7. Broken'
        BY <3>1, <3>3 DEF Broken
      <3> QED
        BY <1>3, <2>1, <2>4, <3>2, <3>3, <3>4, <3>6, <3>7 DEF Dig, DigState, Looking, Looked, Armed, Firm
    <2>5. ASSUME At("begin") PROVE ~Breaking
      BY <1>3, <2>1, <2>5 DEF Dig, DigState, Broken, At
    <2>6. ASSUME At("wait") PROVE Breaking => client.term # "ok"
      BY <1>3, <2>1, <2>6 DEF Dig, DigState, Broken, At
    <2>7. CASE At("begin") /\ Execute(Here.x, "wait")
      BY <2>2, <2>3, <2>4, <2>5, <2>7 DEF Execute, Fail, Started, Still
    <2>8. CASE At("wait") /\ await_action_terminal
      BY <2>2, <2>3, <2>6, <2>8 DEF await_action_terminal, Still
    <2> QED
      BY <2>7, <2>8 DEF _dispatch
  <1> QED
    BY <1>2, <1>3, DigDepth DEF _dispatch, In, Dig

(* The innermost frame is one of these, and it is its function that goes   *)
(* on.                                                                     *)
LEMMA DigSteps ==
    ASSUME IsStack, IsClient, stack # <<>>, Ground(FALSE), Dig, BlockStep \/ _dispatch
    PROVE  Dig'
  <1>1. Here.fn \in {"dig_down_to_y", "dig_down_one", "_align_for_descent", "_wait_for_descent",
                     "_fall_probe_after_opening", "mine_block", "_dispatch", "_approach_mining_target"}
    BY DigDepth DEF Dig
  <1>2. ASSUME BlockStep
        PROVE  \/ mine_block \/ _approach_mining_target \/ dig_down_one \/ _fall_probe_after_opening
               \/ dig_down_to_y \/ _align_for_descent \/ _wait_for_descent
    <2> USE <1>1 DEF In
    <2>1. ~mine_block_dry /\ ~_approach_seal_face /\ ~_place_first_available_seal_block
      BY DEF mine_block_dry, _approach_seal_face, _place_first_available_seal_block
    <2>2. ~mine_block_collect /\ ~_ensure_collect_pickaxe /\ ~place_block
      BY DEF mine_block_collect, _ensure_collect_pickaxe, place_block
    <2>3. ~dig_up_one /\ ~dig_up_to_y /\ ~_standable_feet_at /\ ~_surface_candidate_at /\ ~egress_to_dry
      BY DEF dig_up_one, dig_up_to_y, _standable_feet_at, _surface_candidate_at, egress_to_dry
    <2>4. ~go_to_surface_begin /\ ~go_to_surface_walk /\ ~_find_surface_domain /\ ~_constructible_surface_column_at
      BY DEF go_to_surface_begin, go_to_surface_walk, _find_surface_domain, _constructible_surface_column_at
    <2>5. ~search_for_block /\ ~place_here_prepare /\ ~place_here_spots /\ ~_approach_place_candidate
      BY DEF search_for_block, place_here_prepare, place_here_spots, _approach_place_candidate
    <2>6. ~_recover_place_here_headroom /\ ~_recover_place_here_stand_position
      BY DEF _recover_place_here_headroom, _recover_place_here_stand_position
    <2> QED
      BY <1>2, <2>1, <2>2, <2>3, <2>4, <2>5, <2>6 DEF BlockStep
  <1> QED
    BY <1>2, DigLoop, DigFloor, DigProbe, DigAlign, DigMine, DigApproach, DigDispatch

(* What the two actions do to the ground.                                  *)
LEMMA DigEffects ==
    ASSUME NEW w, DOMAIN w = DOMAIN Plain, ~w.hazard
    PROVE  /\ \A u \in Effect(<<"go", "centre">>, w) :
                 u.y = w.y /\ u.under = w.under /\ ~u.hazard /\ u.site = w.site
           /\ \A u \in Effect(<<"break", "site">>, w) :
                 u.y = w.y /\ u.under = w.under /\ ~u.hazard /\ ~u.site
  <1>1. ASSUME NEW u \in Effect(<<"go", "centre">>, w)
        PROVE  u.y = w.y /\ u.under = w.under /\ ~u.hazard /\ u.site = w.site
    BY <1>1 DEF Effect, Plain
  <1>2. ASSUME NEW u \in Effect(<<"break", "site">>, w)
        PROVE  u.y = w.y /\ u.under = w.under /\ ~u.hazard /\ ~u.site
    BY <1>2 DEF Effect, Plain
  <1> QED
    BY <1>1, <1>2

(* What the client does of the two actions, in time or late.               *)
LEMMA DigClient ==
    ASSUME ScopeInv, Ground(FALSE), Dig, Client
    PROVE  Dig'
  <1> DEFINE Go == <<"go", "centre">>
             Break == <<"break", "site">>
  <1>1. UNCHANGED <<stack, ret>> /\ Chain'
    BY DEF Client, _run_action, LateEffect, confirm_control_idle, Dig, Chain
  <1>2. Go # Idle /\ Break # Idle /\ ~Control(Go) /\ ~Control(Break) /\ Go[1] # "break" /\ Break[1] = "break" /\ Idle[1] # "break"
    BY DEF Idle, Control
  <1>3. client.run \in {Idle, Go, Break} /\ client.late \in {Idle, Go, Break}
    BY DEF Dig, DigGround, DigKinds
  <1>4. client.run = Idle \/ client.late = Idle
    BY <1>2, <1>3 DEF ScopeInv, OneActionInClient
  <1> HIDE DEF Go, Break
  <1>5. CASE confirm_control_idle
    <2>1. UNCHANGED <<world, client.run, client.late, client.term>>
      BY <1>5 DEF confirm_control_idle, ScopeInv, IsClient
    <2> QED
      BY <1>1, <2>1
         DEF Dig, DigGround, DigState, Looking, Looked, Armed, Broken, Firm, Level, Breaking, Bearable
  <1>6. CASE _run_action \/ LateEffect
    <2>1. \/ client.run # Idle /\ client.late = Idle
          \/ client.late # Idle /\ client.run = Idle
      BY <1>4, <1>6 DEF _run_action, LateEffect
    <2>2. /\ client'.run = Idle
          /\ client'.late = Idle \/ (client.run # Idle /\ client'.late = client.run /\ client'.term = "failed" /\ UNCHANGED world)
      BY <1>6, <2>1 DEF _run_action, LateEffect, ScopeInv, IsClient
    <2>3. \/ UNCHANGED world
          \/ (client.run = Go \/ client.late = Go) /\ world' \in Effect(Go, world)
          \/ (client.run = Break \/ client.late = Break) /\ world' \in Effect(Break, world)
      BY <1>3, <1>6 DEF _run_action, LateEffect
    <2>4. ~world.hazard /\ DOMAIN world = DOMAIN Plain
      BY DEF Dig, DigGround, Ground, IsWorld
    <2>5. \/ UNCHANGED world
          \/ UNCHANGED <<world.y, world.under, world.site>> /\ ~world'.hazard
          \/ Breaking /\ UNCHANGED <<world.y, world.under>> /\ ~world'.site /\ ~world'.hazard
      BY <1>2, <2>3, <2>4, DigEffects DEF Breaking, Go, Break
    <2>6. Breaking' => Breaking /\ UNCHANGED world /\ client'.term = "failed"
      BY <1>2, <2>2 DEF Breaking
    <2>7. Looking => Level /\ world.site /\ ~Breaking
      BY <2>1 DEF Dig, DigState, Looking, Broken
    <2>8. DigGround'
      BY <1>3, <2>2, <2>4, <2>5 DEF Dig, DigGround, DigState, DigKinds, Firm, Bearable, Go, Break
    <2>9. CASE UNCHANGED <<world.y, world.under, world.site>>
      <3>1. Level' = Level /\ Bearable' = Bearable /\ Looking' = Looking /\ Looked' = Looked /\ Armed' = Armed
        BY <1>1, <2>9 DEF Level, Bearable, Looking, Looked, Armed
      <3>2. Breaking' => Firm' /\ Broken'
        BY <1>1, <2>6, <2>9, <3>1 DEF Dig, DigState, Firm, Broken
      <3> QED
        BY <1>1, <2>7, <2>8, <2>9, <3>1, <3>2 DEF Dig, DigState, Firm
    <2>10. CASE Breaking /\ UNCHANGED <<world.y, world.under>> /\ ~world'.site
      <3>1. Firm /\ Broken
        BY <2>10 DEF Dig, DigState
      <3>2. ~Breaking'
        BY <2>6, <2>10, <3>1 DEF Firm
      <3>3. ~Looking /\ ~Armed /\ ~Looked
        BY <3>1 DEF Broken, Looking, Armed, Looked
      <3>4. Looking' = Looking /\ Looked' = Looked /\ Armed' = Armed
        BY <1>1, <2>10 DEF Looking, Looked, Armed
      <3>5. Len(stack) > 0 /\ stack[1].at \in {"opened", "aligned", "descended"} => ~(world.y < stack[1].x.floor)
        BY <3>1 DEF Firm, Level, Dig, Chain, Loop, DigGround
      <3> QED
        BY <1>1, <2>8, <2>10, <3>2, <3>3, <3>4, <3>5 DEF Dig, DigState
    <2> QED
      BY <2>5, <2>9, <2>10
  <1> QED
    BY <1>5, <1>6 DEF Client

(* The Body falls through an opening only where nobody looks or breaks.    *)
LEMMA DigFalls ==
    ASSUME Ground(FALSE), Dig, Game
    PROVE  Dig' /\ (Falling => world.under \notin {"deep", "lava"})
  <1>1. UNCHANGED <<stack, ret, client>> /\ Chain' /\ Breaking' = Breaking
    BY DEF Game, Dig, Chain, Breaking
  <1>2. Falling => world.under \notin {"deep", "lava"}
    BY DEF Falling, Dig, DigGround, Bearable
  <1>3. DOMAIN world = DOMAIN Plain
    BY DEF Ground, IsWorld
  <1>4. CASE UNCHANGED <<world.y, world.under, world.site, world.near, world.hazard>>
    <2>1. /\ Level' = Level /\ Bearable' = Bearable /\ Looking' = Looking /\ Looked' = Looked
          /\ Armed' = Armed /\ Broken' = Broken
      BY <1>1, <1>4 DEF Level, Bearable, Looking, Looked, Armed, Broken
    <2>2. DigGround'
      BY <1>1, <1>4, <2>1 DEF Dig, DigGround
    <2> QED
      BY <1>1, <1>2, <1>4, <2>1, <2>2 DEF Dig, DigState, Firm
  <1>5. CASE Falling /\ world' \in FallDown(world)
    <2>1. world'.y = world.y - 1 /\ world'.site /\ world'.hazard = world.hazard
      BY <1>3, <1>5 DEF FallDown, Falling, Plain
    <2>2. ~Looking /\ ~Armed /\ ~Breaking /\ ~Looked
      BY <1>5 DEF Falling, Dig, DigState, Firm, Looking, Looked
    <2>3. ~Looking' /\ ~Looked' /\ ~Armed'
      BY <1>1, <2>2 DEF Looking, Looked, Armed
    <2>4. DigGround'
      BY <1>1, <2>1 DEF Dig, DigGround
    <2>5. Len(stack) > 0 => stack[1].x.floor \in Int
      BY DEF Dig, Chain, Loop
    <2> QED
      BY <1>1, <1>2, <2>1, <2>2, <2>3, <2>4, <2>5 DEF Dig, DigState, DigGround
  <1>6. \/ UNCHANGED <<world.y, world.under, world.site, world.near, world.hazard>>
        \/ Falling /\ world' \in FallDown(world)
    <2>1. CASE world' \in Bake(world)
      BY <1>3, <2>1 DEF Bake, Plain
    <2>2. CASE world' \in FallDown(world)
      BY <2>2 DEF FallDown, Falling
    <2>3. CASE world' \in Land(world)
      BY <1>3, <2>3 DEF Land, Plain
    <2>4. CASE world.near /\ world' \in PickUp(world)
      BY <1>3, <2>4 DEF PickUp, Plain
    <2> QED
      BY <2>1, <2>2, <2>3, <2>4 DEF Game
  <1> QED
    BY <1>2, <1>4, <1>5, <1>6

\* ----- the transaction does nobody else's part ------------------------------

(* Strays are counted by nobody but others.                                *)
LEMMA StraysKept ==
    /\ \A l : Goto(l) \/ Count(l) => UNCHANGED strays
    /\ \A l, v : Keep(l, v) => UNCHANGED strays
    /\ \A l, v, m : KeepCount(l, v, m) => UNCHANGED strays
    /\ \A f, v, l : Call(f, v, l) => UNCHANGED strays
    /\ \A k, l : Native(k, l) => UNCHANGED strays
    /\ \A k, l : Execute(k, l) => UNCHANGED strays
    /\ \A r : Return(r) => UNCHANGED strays
    /\ \A f, v, l : Deal(f, v, l) => UNCHANGED strays
    /\ Ok => UNCHANGED strays
    /\ Fail => UNCHANGED strays
  <1>1. Ok => UNCHANGED strays
    BY DEF Ok, Return, Outside
  <1>2. Fail => UNCHANGED strays
    BY DEF Fail, Return, Outside
  <1>3. \A k, l : Execute(k, l) => UNCHANGED strays
    BY <1>2 DEF Execute
  <1>4. \A f, v, l : Deal(f, v, l) => UNCHANGED strays
    BY DEF Deal, Contracted
  <1>5. \A r : Return(r) => UNCHANGED strays
    BY DEF Return, Outside
  <1>6. \A l : Goto(l) \/ Count(l) => UNCHANGED strays
    BY DEF Goto, Count, Outside
  <1>7. \A l, v : Keep(l, v) => UNCHANGED strays
    BY DEF Keep, Outside
  <1>8. \A l, v, m : KeepCount(l, v, m) => UNCHANGED strays
    BY DEF KeepCount, Outside
  <1>9. \A f, v, l : Call(f, v, l) => UNCHANGED strays
    BY DEF Call, Outside
  <1>10. \A k, l : Native(k, l) => UNCHANGED strays
    BY <1>9 DEF Native
  <1> QED
    BY <1>1, <1>2, <1>3, <1>4, <1>5, <1>6, <1>7, <1>8, <1>9, <1>10

LEMMA BlockStrays ==
    ASSUME BlockStep \/ _dispatch
    PROVE  UNCHANGED strays
  <1> USE StraysKept DEF Read, Then, OkThen
  <1>1. mine_block \/ _approach_mining_target => UNCHANGED strays
    BY DEF mine_block, _approach_mining_target
  <1>2. mine_block_dry \/ _approach_seal_face => UNCHANGED strays
    BY DEF mine_block_dry, _approach_seal_face
  <1>3. _place_first_available_seal_block \/ mine_block_collect \/ _ensure_collect_pickaxe => UNCHANGED strays
    BY DEF _place_first_available_seal_block, mine_block_collect, _ensure_collect_pickaxe
  <1>4. dig_down_one \/ _fall_probe_after_opening \/ dig_down_to_y => UNCHANGED strays
    BY DEF dig_down_one, _fall_probe_after_opening, dig_down_to_y
  <1>5. _align_for_descent \/ _wait_for_descent => UNCHANGED strays
    BY DEF _align_for_descent, _wait_for_descent
  <1>6. dig_up_one \/ dig_up_to_y => UNCHANGED strays
    BY DEF dig_up_one, dig_up_to_y
  <1>7. _standable_feet_at \/ _surface_candidate_at \/ egress_to_dry => UNCHANGED strays
    BY DEF _standable_feet_at, _surface_candidate_at, egress_to_dry
  <1>8. go_to_surface_begin \/ go_to_surface_walk => UNCHANGED strays
    BY DEF go_to_surface_begin, go_to_surface_walk
  <1>9. _find_surface_domain \/ _constructible_surface_column_at \/ search_for_block => UNCHANGED strays
    BY DEF _find_surface_domain, _constructible_surface_column_at, search_for_block
  <1>10. place_block \/ place_here_prepare \/ place_here_spots => UNCHANGED strays
    BY DEF place_block, place_here_prepare, place_here_spots
  <1>11. _approach_place_candidate \/ _recover_place_here_headroom \/ _recover_place_here_stand_position => UNCHANGED strays
    BY DEF _approach_place_candidate, _recover_place_here_headroom, _recover_place_here_stand_position
  <1>12. _dispatch => UNCHANGED strays
    BY DEF _dispatch, await_action_terminal
  <1> QED
    BY <1>1, <1>2, <1>3, <1>4, <1>5, <1>6, <1>7, <1>8, <1>9, <1>10, <1>11, <1>12 DEF BlockStep

\* ----- no harm ---------------------------------------------------------------

Digger == entry.fn = "dig_down_to_y"

(* The invariant behind SafeDigging: what may be on the stack and in the   *)
(* client, that nothing breaks a block next to a hazard, and that a floor  *)
(* is opened only after the look under it.                                 *)
SafeInv ==
    /\ ScopeInv /\ Ground(Elsewhere)
    /\ Digger => ~Elsewhere /\ strays \in Nat
    /\ SealInv /\ DigInv
    /\ ~Digger \/ Alone => ~world.hurt

(* Every transaction begins safe.                                          *)
LEMMA InitIsSafe == Init => SafeInv
  <1> SUFFICES ASSUME Init PROVE SafeInv
    OBVIOUS
  <1>1. PICK k \in DOMAIN Entries : \E e \in Entries[k] :
          /\ entry = [family |-> k, fn |-> e[1], x |-> e[2], world |-> e[3]]
          /\ stack = <<Frame(e[1], e[2])>>
          /\ world = e[3]
    BY DEF Init
  <1>2. PICK e \in Entries[k] :
          /\ entry = [family |-> k, fn |-> e[1], x |-> e[2], world |-> e[3]]
          /\ stack = <<Frame(e[1], e[2])>>
          /\ world = e[3]
    BY <1>1
  <1>3. entry.family = k /\ entry.fn = e[1] /\ world = e[3]
    BY <1>2
  <1>4. /\ Len(stack) = 1
        /\ stack[1].fn = e[1] /\ stack[1].at = "begin" /\ stack[1].x = e[2]
        /\ IsFrame(stack[1])
    BY <1>2 DEF Frame, IsFrame
  <1>5. k \in {"item", "use", "field", "block"}
    BY DEF Entries
  <1>6. /\ k = "block" => EntryBlock(e)
        /\ k # "block" => EntryCalm(e)
    BY <1>5, ItemCalls, UseCalls, FieldCalls, BlockCalls DEF Entries
  <1>7. EntryFit(e)
    BY <1>6 DEF EntryBlock, EntryCalm
  <1>8. client.run = Idle /\ client.late = Idle /\ strays = 0
    BY DEF Init, ClientStart
  <1>9. Ground(Elsewhere)
    <2>1. Fit(stack[1], Elsewhere)
      BY <1>4, <1>7 DEF Fit, EntryFit, Choosy, OfBlocks, Blocks
    <2>2. IsWorld
      BY <1>3, <1>7 DEF IsWorld, EntryFit
    <2>3. Ordinary(Idle, Elsewhere)
      BY DEF Ordinary, Idle
    <2> QED
      BY <1>4, <1>8, <2>1, <2>2, <2>3 DEF Ground
  <1>10. Digger => ~Elsewhere
    BY <1>3, <1>6 DEF Digger, Elsewhere, EntryCalm
  <1>11. ~Breaking
    BY <1>8 DEF Breaking, Idle
  <1>12. SealInv
    <2>1. ASSUME ~Elsewhere, world.hazard PROVE Sealed
      <3>1. stack[1].fn = "mine_block_dry"
        BY <1>3, <1>4, <1>6, <2>1 DEF Elsewhere, EntryBlock
      <3>2. Sealing(stack[1])
        BY <1>4, <3>1 DEF Sealing
      <3> QED
        BY <1>4, <3>2 DEF Sealed
    <2> QED
      BY <1>11, <2>1 DEF SealInv
  <1>13. ASSUME Digger PROVE Dig
    <2>1. EntryDig(e)
      BY <1>3, <1>6, <1>10, <1>13 DEF Digger, Elsewhere, EntryBlock
    <2>2. Chain
      BY <1>3, <1>4, <1>13, <2>1 DEF Chain, Loop, EntryDig, Digger
    <2>3. DigGround
      BY <1>3, <1>8, <2>1 DEF DigGround, EntryDig, DigKinds, Bearable
    <2>4. DigState
      BY <1>3, <1>4, <1>8, <1>11, <2>1 DEF DigState, EntryDig, Looking, Looked, Armed, Level
    <2> QED
      BY <2>2, <2>3, <2>4 DEF Dig
  <1> QED
    BY <1>3, <1>7, <1>8, <1>9, <1>10, <1>12, <1>13, InitSafe DEF SafeInv, DigInv, Digger, EntryFit

(* The steps of the transaction, and those of everybody else.              *)
LEMMA StepIsSafe ==
    ASSUME SafeInv, Transact, UNCHANGED entry
    PROVE  SafeInv'
  <1>1. ScopeInv'
    BY NextSafe DEF SafeInv, Next
  <1>2. Elsewhere' = Elsewhere /\ Digger' = Digger
    BY DEF Elsewhere, Digger
  <1>3. stack # <<>>
    BY TransactShape DEF SafeInv, ScopeInv, Shape
  <1>4. Ground(Elsewhere)' /\ Unharmed
    BY TransactGround DEF SafeInv, ScopeInv, GroundStep
  <1>5. ASSUME ~Elsewhere
        PROVE  (BlockStep \/ _dispatch) /\ Ground(FALSE)
    <2>1. Elsewhere = FALSE
      BY <1>5 DEF Elsewhere
    <2>2. Ground(FALSE)
      BY <2>1, Zenon DEF SafeInv
    <2>3. BlockStep \/ _dispatch
      BY <1>5 DEF Transact, Elsewhere
    <2> QED
      BY <2>2, <2>3
  <1>6. SealInv'
    <2>1. ASSUME ~Elsewhere, world.hazard PROVE SealStep
      BY <1>3, <1>5, <2>1, SealSteps DEF SafeInv, SealInv, ScopeInv
    <2> QED
      BY <1>2, <1>4, <2>1 DEF SafeInv, SealInv, SealStep, Unharmed
  <1>7. Digger => UNCHANGED strays
    BY <1>5, BlockStrays DEF SafeInv
  <1>8. DigInv'
    <2>1. ASSUME Digger, Alone' PROVE Dig'
      <3>1. Dig
        BY <1>7, <2>1 DEF SafeInv, DigInv, Digger, Alone
      <3> QED
        BY <1>3, <1>5, <2>1, <3>1, DigSteps DEF SafeInv, ScopeInv
    <2> QED
      BY <1>2, <2>1 DEF DigInv, Digger
  <1> QED
    BY <1>1, <1>2, <1>4, <1>6, <1>7, <1>8 DEF SafeInv, Unharmed, Alone


LEMMA OthersAreSafe ==
    ASSUME SafeInv, UNCHANGED entry, Client \/ Game \/ Stray \/ cancel \/ Ended \/ UNCHANGED allVars
    PROVE  SafeInv'
  <1>1. ScopeInv'
    BY NextSafe DEF SafeInv, Next
  <1>2. Elsewhere' = Elsewhere /\ Digger' = Digger
    BY DEF Elsewhere, Digger
  <1>3. ASSUME ~Elsewhere PROVE Ground(FALSE)
    <2>1. Elsewhere = FALSE
      BY <1>3 DEF Elsewhere
    <2> QED
      BY <2>1, Zenon DEF SafeInv
  <1>4. ASSUME Breaking PROVE ~Elsewhere /\ ~world.hazard
    <2>1. ~Elsewhere
      BY <1>4 DEF SafeInv, Ground, Ordinary, Breaking
    <2> QED
      BY <1>4, <2>1 DEF SafeInv, SealInv
  <1>5. CASE Client
    <2>1. UNCHANGED <<stack, strays, ret>>
      BY <1>5 DEF Client, _run_action, LateEffect, confirm_control_idle
    <2>2. /\ Ground(Elsewhere)'
          /\ world'.hurt => world.hurt
          /\ world'.hazard => world.hazard
          /\ Breaking' => Breaking
      BY <1>2, <1>4, <1>5, ClientGround DEF SafeInv, ScopeInv
    <2>3. SealInv'
      BY <1>2, <2>1, <2>2 DEF SafeInv, SealInv, Sealed
    <2>4. ASSUME Digger, Alone' PROVE Dig'
      BY <1>3, <1>5, <2>1, <2>4, DigClient DEF SafeInv, DigInv, Digger, Alone
    <2>5. DigInv'
      BY <1>2, <2>4 DEF DigInv, Digger
    <2> QED
      BY <1>1, <1>2, <2>1, <2>2, <2>3, <2>5 DEF SafeInv, Alone
  <1>6. CASE Game
    <2>1. UNCHANGED <<stack, strays, client>>
      BY <1>6 DEF Game
    <2>2. /\ Ground(Elsewhere)'
          /\ world'.hurt => world.hurt \/ (Falling /\ world.under \in {"deep", "lava"})
          /\ world'.hazard = world.hazard
      BY <1>2, <1>6, GameGround DEF SafeInv
    <2>3. SealInv'
      BY <1>2, <2>1, <2>2 DEF SafeInv, SealInv, Sealed, Breaking
    <2>4. ASSUME Digger, Alone' PROVE Dig' /\ (Falling => world.under \notin {"deep", "lava"})
      BY <1>3, <1>6, <2>1, <2>4, DigFalls DEF SafeInv, DigInv, Digger, Alone
    <2>5. DigInv'
      BY <1>2, <2>4 DEF DigInv, Digger
    <2>6. ~Digger \/ Alone' => ~world'.hurt
      BY <2>1, <2>2, <2>4 DEF SafeInv, Falling, Digger, Alone
    <2> QED
      BY <1>1, <1>2, <2>1, <2>2, <2>3, <2>5, <2>6 DEF SafeInv
  <1>7. CASE Stray
    <2>1. UNCHANGED <<stack, client>> /\ strays' = strays + 1
      BY <1>7 DEF Stray
    <2>2. /\ Ground(Elsewhere)'
          /\ world'.hurt = world.hurt
          /\ ~Elsewhere => world'.hazard = world.hazard
      BY <1>2, <1>7, StrayGround DEF SafeInv
    <2>3. SealInv'
      BY <1>2, <2>1, <2>2 DEF SafeInv, SealInv, Sealed, Breaking
    <2>4. Digger => ~Alone'
      BY <2>1 DEF SafeInv, Alone
    <2>5. DigInv'
      BY <1>2, <2>4 DEF DigInv, Digger
    <2> QED
      BY <1>1, <1>2, <2>1, <2>2, <2>3, <2>4, <2>5 DEF SafeInv
  <1>8. CASE cancel \/ Ended \/ UNCHANGED allVars
    <2>1. UNCHANGED <<stack, ret, client, world, strays>>
      BY <1>8 DEF cancel, Ended, allVars, vars
    <2>2. Ground(Elsewhere)' /\ SealInv'
      BY <1>2, <2>1 DEF SafeInv, Ground, IsWorld, SealInv, Sealed, Breaking
    <2>3. Dig' = Dig
      BY <2>1 DEF Dig, Chain, DigGround, DigState, Looking, Looked, Armed, Broken, Breaking, Firm, Level, Bearable
    <2>4. DigInv'
      BY <1>2, <2>1, <2>3 DEF SafeInv, DigInv, Digger, Alone
    <2> QED
      BY <1>1, <1>2, <2>1, <2>2, <2>4 DEF SafeInv, Alone
  <1> QED
    BY <1>5, <1>6, <1>7, <1>8

(* For every number of units, strays and polls: as long as nobody else     *)
(* changes the ground, block_work does the Body no harm.  mine_block_dry   *)
(* looks for a liquid at the faces again before it breaks, dig_down_one    *)
(* looks under the floor before it has it broken, and a break that is cut  *)
(* off is over, or the transaction is, before the next look is taken.      *)
THEOREM DiggingIsSafe == Spec => []SafeDigging
  <1>1. SafeInv /\ [Next]_allVars => SafeInv'
    BY StepIsSafe, OthersAreSafe DEF Next, allVars
  <1>2. SafeInv => SafeDigging
    BY DEF SafeInv, SafeDigging
  <1> QED
    BY <1>1, <1>2, InitIsSafe, PTL DEF Spec
=============================================================================
