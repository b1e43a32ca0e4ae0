------------------------------ MODULE NodeSigs ------------------------------
(***************************************************************************)
(* The node signature exchange (subspecs/dkg/node_sigs.py).  A signature   *)
(* is [key, digest]; peer indices count from 0.                            *)
(***************************************************************************)
EXTENDS Integers, Sequences, FiniteSets

(* The sentinel in place of a signature *)
NONE_DATA == [key |-> "deadbeef", digest |-> <<>>]

MsgNodeSig(signature, peer_index) == [signature |-> signature, peer_index |-> peer_index]

verify_node_sig_msg(msg, sender_peer_index, own_peer_index, num_peers) ==
  /\ msg.peer_index < num_peers
  /\ msg.peer_index # own_peer_index
  /\ msg.peer_index = sender_peer_index

Collected(sigs, num_peers) == \A index \in 0 .. num_peers - 1 : index \in DOMAIN sigs

(* The values of f at some indices, in the order of these *)
Nth(indices, position) ==
  CHOOSE i \in indices : Cardinality({j \in indices : j < i}) = position - 1

ByAscendingIndex(f, indices) ==
  [position \in 1 .. Cardinality(indices) |-> f[Nth(indices, position)]]

(* In the order of the peer indices, without the sentinels *)
collect_node_sigs(sigs, num_peers) ==
  ByAscendingIndex(sigs, {index \in 0 .. num_peers - 1 : sigs[index] # NONE_DATA})
=============================================================================
