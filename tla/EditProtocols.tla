---------------------------- MODULE EditProtocols ----------------------------
(***************************************************************************)
(* Cluster edits (subspecs/dkg/protocols.py): the steps every node runs,   *)
(* who takes part, the threshold of the new cluster, and the share indices *)
(* of an operator during the ceremony and in the new lock.  Operators are  *)
(* sequences, in cluster lock order.                                       *)
(***************************************************************************)
EXTENDS Integers, Sequences, FiniteSets

Operators(enrs) == {enrs[i] : i \in DOMAIN enrs}

PositionOf(enrs, enr) == CHOOSE i \in DOMAIN enrs : enrs[i] = enr

-----------------------------------------------------------------------------

(* EditProtocolStep: the four steps of a node *)
edit_protocol_steps(departing) ==
  IF departing THEN <<"reshare", "noop", "ignore_node_signatures", "noop">>
  ELSE <<"reshare", "update_lock", "update_node_signatures", "write_artifacts">>

(* The ceiling of 2n/3 *)
recommended_threshold(nodes) == (2 * nodes + 2) \div 3

NoOverride == 0

valid_override(new_node_count, override) ==
  override = NoOverride \/
    override \in recommended_threshold(new_node_count) .. new_node_count - 1

resolve_new_threshold(new_node_count, override) ==
  IF override = NoOverride THEN recommended_threshold(new_node_count) ELSE override

-----------------------------------------------------------------------------
reshare_participants(operator_enrs) == operator_enrs

add_operators_participants(operator_enrs, new_enrs) == operator_enrs \o new_enrs

Remaining(operator_enrs, removing_enrs) ==
  SelectSeq(operator_enrs, LAMBDA enr : enr \notin Operators(removing_enrs))

valid_removal(operator_enrs, removing_enrs, participating_enrs) ==
  /\ Operators(removing_enrs) \subseteq Operators(operator_enrs)
  /\ Operators(participating_enrs) \subseteq Operators(operator_enrs)

(* An explicit participating set is used verbatim *)
remove_operators_participants(operator_enrs, removing_enrs, participating_enrs) ==
  IF participating_enrs # <<>> THEN participating_enrs
  ELSE Remaining(operator_enrs, removing_enrs)

(* The replacement takes the position of the old operator, who is a current one *)
replace_operator_participants(operator_enrs, old_enr, new_enr) ==
  [i \in DOMAIN operator_enrs |->
    IF i = PositionOf(operator_enrs, old_enr) THEN new_enr ELSE operator_enrs[i]]

-----------------------------------------------------------------------------
(* The position in the current lock: removing an operator leaves a gap *)
ceremony_share_index(operator_enrs, enr) == PositionOf(operator_enrs, enr)

(* The position in the new lock: the gaps are closed *)
new_lock_share_index(remaining_enrs, enr) == PositionOf(remaining_enrs, enr)
=============================================================================
