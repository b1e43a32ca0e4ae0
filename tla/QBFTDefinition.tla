--------------------------- MODULE QBFTDefinition ---------------------------
(***************************************************************************)
(* The parameters of one QBFT instance, fixed for the whole duty: class    *)
(* Definition of consensus/qbft/definition.py, the duty, and the value     *)
(* each peer would propose.                                                *)
(***************************************************************************)
EXTENDS Integers, FiniteSets

CONSTANTS
  Nodes,        \* Definition.nodes, the size of the cluster
  DutyOffset,   \* duty.slot + duty.type
  Value,        \* the values that may be proposed
  NoValue,      \* no value: None, and the zero hash
  Proposal      \* Proposal[p]: the proposal_value of peer p

(* peer_idx *)
Peer == 0 .. Nodes - 1

ASSUME ClusterAssumption ==
  /\ Nodes \in Nat \ {0}
  /\ DutyOffset \in Nat
  /\ NoValue \notin Value
  /\ Proposal \in [Peer -> Value]

(* Mutant: every node counts *)
AllNodes == Nodes

(* quorum(): ceil(2n/3) *)
Quorum == (2 * Nodes + 2) \div 3

(* faulty(): floor((n-1)/3) *)
Faulty == (Nodes - 1) \div 3

(* is_leader() *)
IsLeader(r, p) == (DutyOffset + r) % Nodes = p
=============================================================================
