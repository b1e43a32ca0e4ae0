-------------------------------- MODULE Frost --------------------------------
(***************************************************************************)
(* FROST key generation (subspecs/dkg/frost.py): the bundles of its two    *)
(* rounds, what a receiver checks, when a round is complete, and the key   *)
(* shares that come out of it.  The FROST algorithm itself is external; a  *)
(* polynomial is named by its commitments, one name per coefficient.       *)
(***************************************************************************)
EXTENDS Integers, Sequences, FiniteSets

BROADCAST_TARGET_ID == 0

FrostMsgKey(val_idx, source_id, target_id) ==
  [val_idx |-> val_idx, source_id |-> source_id, target_id |-> target_id]

(* Bundles are sequences: a validator may be missing from one, or repeated *)
FrostRound1Casts(source_id, polynomials, threshold) ==
  [v \in 1 .. Len(polynomials) |->
    [key |-> FrostMsgKey(v - 1, source_id, BROADCAST_TARGET_ID),
     commitments |-> [i \in 1 .. threshold |-> polynomials[v]]]]

FrostRound1P2P(source_id, target_id, polynomials) ==
  [v \in 1 .. Len(polynomials) |->
    [key |-> FrostMsgKey(v - 1, source_id, target_id), id |-> target_id,
     value |-> polynomials[v]]]

FrostRound2Casts(source_id, vk_shares) ==
  [v \in 1 .. Len(vk_shares) |->
    [key |-> FrostMsgKey(v - 1, source_id, BROADCAST_TARGET_ID), vk_share |-> vk_shares[v]]]

-----------------------------------------------------------------------------
_verify_val_idx(val_idx, num_validators) == val_idx < num_validators

_verify_cast_key(key, sender_share_idx, num_validators) ==
  /\ key.source_id = sender_share_idx
  /\ key.target_id = BROADCAST_TARGET_ID
  /\ _verify_val_idx(key.val_idx, num_validators)

verify_round1_casts(msg, sender_share_idx, num_validators, threshold) ==
  \A i \in DOMAIN msg :
    /\ _verify_cast_key(msg[i].key, sender_share_idx, num_validators)
    /\ Len(msg[i].commitments) = threshold

(* Mutant: the source of a cast is not compared with its sender *)
VerifyCastRange(msg, sender_share_idx, num_validators) ==
  \A i \in DOMAIN msg : _verify_val_idx(msg[i].key.val_idx, num_validators)

verify_round2_casts(msg, sender_share_idx, num_validators) ==
  \A i \in DOMAIN msg : _verify_cast_key(msg[i].key, sender_share_idx, num_validators)

verify_round1_p2p(msg, sender_share_idx, receiver_share_idx, num_validators) ==
  \A i \in DOMAIN msg :
    /\ msg[i].key.source_id = sender_share_idx
    /\ msg[i].key.target_id = receiver_share_idx
    /\ _verify_val_idx(msg[i].key.val_idx, num_validators)

-----------------------------------------------------------------------------
(* A node counts its own cast bundle, and sends no shares to itself; more bundles than
   these are an error *)
round1_complete(num_cast_bundles, num_p2p_bundles, num_nodes) ==
  num_cast_bundles = num_nodes /\ num_p2p_bundles = num_nodes - 1

round2_complete(num_cast_bundles, num_nodes) == num_cast_bundles = num_nodes

(* assemble_validator_shares: the public share of a node is read from the casts that name
   it as their source, of all bundles one after the other, and the last one counts.  The
   verification keys in them are not looked at. *)
assemble_validator_shares(bundles, validator_pubkeys, secret_shares) ==
  LET all == UNION {{b} \X DOMAIN bundles[b] : b \in DOMAIN bundles}
      casts(v) == {c \in all : bundles[c[1]][c[2]].key.val_idx = v - 1}
      source(c) == bundles[c[1]][c[2]].key.source_id
      last(v, s) == CHOOSE c \in casts(v) : source(c) = s
        /\ \A d \in casts(v) : source(d) = s => d[1] < c[1] \/ (d[1] = c[1] /\ d[2] <= c[2])
  IN  [v \in DOMAIN validator_pubkeys |->
        [validator_pubkey |-> validator_pubkeys[v],
         secret_share |-> secret_shares[v],
         public_shares |-> [s \in {source(c) : c \in casts(v)} |->
                              bundles[last(v, s)[1]][last(v, s)[2]].vk_share]]]
=============================================================================
