----------------------------- MODULE ClusterLock -----------------------------
(***************************************************************************)
(* The cluster lock, its hash and its verification (cluster/lock.py,       *)
(* cluster/hashing.py and cluster/verification.py).                        *)
(*                                                                         *)
(* A key share is named by the point it is of a polynomial: [polynomial,   *)
(* x], where the polynomial is [key, version] and key the group key it was *)
(* made for.  Public and private share, and public and private key, have   *)
(* one name.  With a threshold of 1 polynomials are constant: every point  *)
(* is the group key itself, under several names (SameShare).               *)
(* A signature is [key, digest].  The hash is injective on what it covers. *)
(***************************************************************************)
EXTENDS Integers, Sequences, FiniteSets

(* The definition: operators in order, the threshold and the number of validators *)
Lock(operators, threshold, validators) ==
  [definition |-> [operators |-> operators, threshold |-> threshold,
                   num_validators |-> Len(validators)],
   validators |-> validators,
   signature_aggregate |-> {},
   node_signatures |-> <<>>]

DistValidator(pubkey, pubshares) == [pubkey |-> pubkey, pubshares |-> pubshares]

(* What the hashes cover: all of the definition, and of the validators the keys; not the
   signatures of the lock *)
definition_hash(definition) ==
  <<definition.operators, definition.threshold, definition.num_validators>>

hash_validator(validator) == <<validator.pubkey, validator.pubshares>>

lock_hash(lock) ==
  <<definition_hash(lock.definition),
    [i \in DOMAIN lock.validators |-> hash_validator(lock.validators[i])]>>

num_operators(lock) == Len(lock.definition.operators)

-----------------------------------------------------------------------------
UnknownKey == <<0, <<>>>>

(* bls.recover_pubkey: the key of the polynomial that all shares lie on, each at the index
   it is read at; anything else recovers to a key nobody has.  A single share, all that a
   threshold of 1 asks for, is the key at any index. *)
recover_pubkey(shares) ==
  LET known == {shares[i] : i \in DOMAIN shares}
  IN  IF (\A i \in DOMAIN shares : shares[i].x = i \/ DOMAIN shares = {i})
         /\ Cardinality({s.polynomial : s \in known}) = 1
      THEN (CHOOSE s \in known : TRUE).polynomial.key
      ELSE UnknownKey

(* Equal public shares: those of one key, with a threshold of 1 *)
SameShare(threshold, s, t) ==
  s = t \/ (threshold = 1 /\ s.polynomial.key = t.polynomial.key)

verify_pubshare_counts(lock) ==
  \A i \in DOMAIN lock.validators :
    LET validator == lock.validators[i]
    IN  /\ Len(validator.pubshares) = num_operators(lock)
        /\ \A j \in 1 .. i - 1 : lock.validators[j].pubkey # validator.pubkey
        /\ \A p \in DOMAIN validator.pubshares : \A q \in 1 .. p - 1 :
             ~SameShare(lock.definition.threshold, validator.pubshares[p], validator.pubshares[q])

(* Mutant: only the first quorum of shares is checked *)
FirstQuorumReconstructs(lock) ==
  LET threshold == lock.definition.threshold
  IN  \A i \in DOMAIN lock.validators :
        LET shares == lock.validators[i].pubshares
        IN  /\ threshold \in 1 .. Len(shares)
            /\ recover_pubkey([p \in 1 .. threshold |-> shares[p]]) = lock.validators[i].pubkey

(* The first quorum of shares recovers the group key, and so does every other share in
   place of the last one of that quorum *)
verify_shares_reconstruct(lock) ==
  LET threshold == lock.definition.threshold
  IN  \A i \in DOMAIN lock.validators :
        LET shares == lock.validators[i].pubshares
            pubkey == lock.validators[i].pubkey
        IN  /\ threshold \in 1 .. Len(shares)
            /\ recover_pubkey([p \in 1 .. threshold |-> shares[p]]) = pubkey
            /\ \A position \in threshold + 1 .. Len(shares) :
                 recover_pubkey([p \in 1 .. threshold - 1 \cup {position} |-> shares[p]]) = pubkey

(* The public shares of all validators *)
aggregate_pubkeys(validators) ==
  UNION {{validators[i].pubshares[p] : p \in DOMAIN validators[i].pubshares} :
           i \in DOMAIN validators}

(* A plain aggregate verifies when it is made of one signature of each of the keys, of which
   there is one at least: a lock without validators fails here *)
verify_signature_aggregate(lock) ==
  /\ aggregate_pubkeys(lock.validators) # {}
  /\ lock.signature_aggregate =
       {[key |-> k, digest |-> lock_hash(lock)] : k \in aggregate_pubkeys(lock.validators)}

(* Mutant: the node signatures are looked for in any order *)
NodeSignaturesInAnyOrder(lock, node_pubkeys) ==
  /\ Len(lock.node_signatures) = num_operators(lock)
  /\ {lock.node_signatures[i] : i \in DOMAIN lock.node_signatures} =
       {[key |-> node_pubkeys[i], digest |-> lock_hash(lock)] : i \in DOMAIN node_pubkeys}

(* One signature per operator, in the order of the operators *)
verify_node_signatures(lock, node_pubkeys) ==
  /\ Len(lock.node_signatures) = num_operators(lock)
  /\ Len(node_pubkeys) = num_operators(lock)
  /\ \A i \in DOMAIN node_pubkeys :
       lock.node_signatures[i] = [key |-> node_pubkeys[i], digest |-> lock_hash(lock)]
=============================================================================
