------------------------------- MODULE Ceremony -------------------------------
(***************************************************************************)
(* A DKG ceremony, from the first barrier to a loaded cluster lock: FROST  *)
(* key generation or one of the four cluster edits (subspecs/dkg), over    *)
(* reliable broadcast, the step barrier and partial signature exchange.    *)
(*                                                                         *)
(* External: what moves the ceremony from message to message (charon); the *)
(* Pedersen reshare, which gives every remaining operator a share at its   *)
(* rank in the current lock; the deposit and registration steps, which     *)
(* sign and exchange like the lock step does; timeouts, after which a      *)
(* ceremony that waits is given up.                                        *)
(***************************************************************************)
EXTENDS ReliableBroadcast, DkgSync, Frost, EditProtocols, NodeSigs, ClusterLock

CONSTANTS
  CeremonyRequest,     \* the ceremonies that may be asked for
  FaultyPolynomial     \* what a faulty node may contribute

VARIABLES
  plan,        \* the ceremony: participants, and the operators and threshold of the new lock
  progress,    \* progress[n]: how far n is in the DKG
  sent,        \* the messages sent from peer to peer
  received,    \* received[n]: those n has accepted
  keys,        \* keys[n]: the key shares the DKG gave n
  lock,        \* lock[n]: the lock n has made
  written,     \* written[n]: n has written its artifacts
  loaded       \* loaded[n]: n has verified the written lock, and runs with it

dkg_vars == <<progress, keys>>
lock_vars == <<lock, written, loaded>>
vars == <<peers, plan, step, signed, delivered, progress, sent, received, keys, lock, written, loaded>>

NoLock == [definition |-> <<>>]

-----------------------------------------------------------------------------
(* Who asks for what; a request that raises an error starts no ceremony *)
ValidRequest(q) ==
  CASE q.kind = "remove" ->
         /\ valid_removal(q.operators, q.removing, q.participating)
         /\ valid_override(Len(Remaining(q.operators, q.removing)), q.threshold)
    [] q.kind = "replace" -> q.old \in Operators(q.operators)
    [] OTHER -> TRUE

Plan(q) ==
  LET participants ==
        CASE q.kind = "keygen" -> q.operators
          [] q.kind = "reshare" -> reshare_participants(q.operators)
          [] q.kind = "add" -> add_operators_participants(q.operators, q.new)
          [] q.kind = "remove" ->
               remove_operators_participants(q.operators, q.removing, q.participating)
          [] q.kind = "replace" -> replace_operator_participants(q.operators, q.old, q.new)
      operators == IF q.kind = "remove" THEN Remaining(q.operators, q.removing) ELSE participants
  IN  [kind |-> q.kind, num_validators |-> q.num_validators,
       current |-> q.operators, participants |-> participants, operators |-> operators,
       threshold |-> IF q.kind = "remove" THEN resolve_new_threshold(Len(operators), q.threshold)
                     ELSE q.threshold]

(* There is an ID for each broadcast of a ceremony, and a node for every operator; nothing
   keeps an operator from being listed twice *)
ASSUME CeremonyAssumption ==
  /\ {"round1/cast", "round2/cast", "node_sig"} \subseteq MessageId
  /\ \A q \in CeremonyRequest : ValidRequest(q) =>
       /\ Plan(q).participants \in Seq(Node)
       /\ Plan(q).operators \in Seq(Node)
       /\ Plan(q).num_validators \in Nat

NumPeers == Len(plan.participants)
PeerIndex(n) == PositionOf(plan.participants, n) - 1

Remains(n) == n \in Operators(plan.operators)

(* The assigned share index of a peer: its position in the current lock, or the one that
   an addition or a replacement was given *)
share_idx_by_peer(n) ==
  ceremony_share_index(
    IF plan.kind = "remove" THEN plan.current ELSE plan.participants, n)

(* The steps of a ceremony, between the connection of all peers and the shutdown *)
Steps(n) ==
  IF plan.kind = "keygen"
  THEN <<"frost", "update_lock", "update_node_signatures", "write_artifacts">>
  ELSE edit_protocol_steps(~Remains(n))

(* n works at a step of its ceremony *)
Working(n, work) ==
  /\ n \in Correct
  /\ step[n] \in 1 .. 4
  /\ Steps(n)[step[n]] = work
  /\ await_all_at_step(step[n])

-----------------------------------------------------------------------------
(* At most one bundle of a peer under a message ID is delivered *)
Bundle(n, r, id) == {d.message : d \in {e \in delivered : e.peer = n /\ e.requester = r /\ e.message_id = id}}

Own(n, id) == {s.message : s \in {e \in signed : e.peer = n /\ e.requester = n /\ e.message_id = id}}

(* The round 1 bundles n has accepted from r *)
Round1Casts(n, r) ==
  IF r = n THEN Own(n, "round1/cast")
  ELSE {m \in Bundle(n, r, "round1/cast") :
          verify_round1_casts(m, share_idx_by_peer(r), plan.num_validators, plan.threshold)}

Round2Casts(n, r) ==
  IF r = n THEN Own(n, "round2/cast")
  ELSE {m \in Bundle(n, r, "round2/cast") :
          verify_round2_casts(m, share_idx_by_peer(r), plan.num_validators)}

(* The direct messages of a type that n has accepted from a peer *)
From(n, r, type) == {m.payload : m \in {k \in received[n] : k.from = r /\ k.type = type}}

HeardFrom(n, casts(_, _)) == {r \in peers : casts(n, r) # {}}

The(set) == CHOOSE x \in set : TRUE

-----------------------------------------------------------------------------
(* The entry of a bundle for validator v, if there is one *)
EntryFor(bundle, v) == {bundle[i] : i \in {j \in DOMAIN bundle : bundle[j].key.val_idx = v - 1}}

Validators == 1 .. plan.num_validators

(* The key of validator v: what all participants have committed to *)
GroupKey(n, v) ==
  <<v, [i \in 1 .. NumPeers |->
    The(EntryFor(The(Round1Casts(n, plan.participants[i])), v)).commitments[1]]>>

(* The name of a share: with a threshold of 1 all shares of a key are equal (SameShare) *)
ShareOf(key, version, x) == [polynomial |-> [key |-> key, version |-> version], x |-> x]

(* FROST round 1: the bundle for everyone, and the secret shares for each of the others *)
FrostRound1(n) ==
  /\ Working(n, "frost")
  /\ progress[n] = "idle"
  /\ LET polynomials == [v \in Validators |-> n]
     IN  /\ Request(n, "round1/cast",
               FrostRound1Casts(share_idx_by_peer(n), polynomials, plan.threshold))
         /\ sent' = sent \cup
              {[from |-> n, to |-> r, type |-> "round1/p2p", payload |->
                 FrostRound1P2P(share_idx_by_peer(n), share_idx_by_peer(r), polynomials)]
                 : r \in Correct \ {n}}
  /\ progress' = [progress EXCEPT ![n] = "round1"]
  /\ UNCHANGED <<peers, plan, step, received, keys, lock_vars>>

(* FROST round 2: for every validator the commitments of all nodes and the shares of the
   others, which must lie on what was committed to *)
FrostRound2(n) ==
  /\ progress[n] = "round1" /\ plan.kind = "keygen"
  /\ round1_complete(Cardinality(HeardFrom(n, Round1Casts)),
                     Cardinality({r \in peers : From(n, r, "round1/p2p") # {}}), NumPeers)
  /\ \A v \in Validators : \A r \in peers :
       LET cast == EntryFor(The(Round1Casts(n, r)), v)
           share == EntryFor(The(From(n, r, "round1/p2p")), v)
       IN  /\ cast # {}
           /\ r # n => share # {} /\ The(share).value = The(cast).commitments[1]
  /\ Request(n, "round2/cast",
       FrostRound2Casts(share_idx_by_peer(n),
         [v \in Validators |-> ShareOf(GroupKey(n, v), 0, share_idx_by_peer(n))]))
  /\ progress' = [progress EXCEPT ![n] = "round2"]
  /\ UNCHANGED <<peers, plan, step, sent, received, keys, lock_vars>>

FrostFinish(n) ==
  /\ progress[n] = "round2"
  /\ round2_complete(Cardinality(HeardFrom(n, Round2Casts)), NumPeers)
  /\ keys' = [keys EXCEPT ![n] =
       assemble_validator_shares(
         [i \in 1 .. NumPeers |->
           LET casts == Round2Casts(n, plan.participants[i])
           IN  IF casts = {} THEN <<>> ELSE The(casts)],
         [v \in Validators |-> GroupKey(n, v)],
         [v \in Validators |-> ShareOf(GroupKey(n, v), 0, share_idx_by_peer(n))])]
  /\ progress' = [progress EXCEPT ![n] = "done"]
  /\ Advance(n)
  /\ UNCHANGED <<peers, plan, bcast_vars, sent, received, lock_vars>>

-----------------------------------------------------------------------------
(* Mutant: the new public shares keep the gapped indices of the old lock *)
GappedShareIndex(n) == share_idx_by_peer(n)

(* The index n's share is read back at *)
NewShareIndex(n) == new_lock_share_index(plan.operators, n)

CurrentKey(v) == <<v, <<"current">>>>

(* Pedersen: everyone deals, those who leave included *)
Deal(n) ==
  /\ Working(n, "reshare")
  /\ progress[n] = "idle"
  /\ progress' = [progress EXCEPT ![n] = "dealt"]
  /\ UNCHANGED <<peers, plan, step, bcast_vars, sent, received, keys, lock_vars>>

(* With the deals of all participants the remaining ones have new shares; those who leave
   have none *)
Reshare(n) ==
  /\ progress[n] = "dealt"
  /\ \A r \in peers : progress[r] # "idle"
  /\ LET shares(v) == [r \in peers \cap Operators(plan.operators) |->
                         ShareOf(CurrentKey(v), 1, NewShareIndex(r))]
     IN  keys' = [keys EXCEPT ![n] =
           IF ~Remains(n) THEN <<>>
           ELSE [v \in Validators |->
                  [validator_pubkey |-> CurrentKey(v),
                   secret_share |-> shares(v)[n],
                   public_shares |->
                     [i \in {NewShareIndex(r) : r \in DOMAIN shares(v)} |->
                       ShareOf(CurrentKey(v), 1, i)]]]]
  /\ progress' = [progress EXCEPT ![n] = "done"]
  /\ Advance(n)
  /\ UNCHANGED <<peers, plan, bcast_vars, sent, received, lock_vars>>

-----------------------------------------------------------------------------
(* A list of the public shares, by ascending index: the lock keeps no indices *)
PublicShareList(public_shares) == ByAscendingIndex(public_shares, DOMAIN public_shares)

(* A partial signature is bound to the index of the peer it comes from *)
verify_peer_share_idx(expected_share_idx, data) == data.share_idx = expected_share_idx

(* One signature per validator, by n's new share of it *)
LockSignatures(n, made) ==
  [v \in Validators |->
    [share_idx |-> share_idx_by_peer(n),
     signature |-> [key |-> keys[n][v].secret_share, digest |-> lock_hash(made)]]]

(* Make the new lock, and send the others who remain one's signatures of its hash *)
UpdateLock(n) ==
  /\ Working(n, "update_lock")
  /\ lock[n] = NoLock
  /\ LET made == Lock(plan.operators, plan.threshold,
                     [v \in DOMAIN keys[n] |->
                       DistValidator(keys[n][v].validator_pubkey,
                                     PublicShareList(keys[n][v].public_shares))])
     IN  /\ lock' = [lock EXCEPT ![n] = made]
         /\ sent' = sent \cup
              {[from |-> n, to |-> r, type |-> "sigLock", payload |-> LockSignatures(n, made)]
                 : r \in {q \in Correct \ {n} : Remains(q)}}
  /\ UNCHANGED <<peers, plan, step, bcast_vars, progress, received, keys, written, loaded>>

(* The aggregate is made of the signatures of all who remain, and must verify *)
AggregateLock(n) ==
  /\ Working(n, "update_lock")
  /\ lock[n] # NoLock
  /\ LET others == {r \in peers \ {n} : Remains(r)}
         sigs(r) == IF r = n THEN LockSignatures(n, lock[n]) ELSE The(From(n, r, "sigLock"))
         aggregated == [lock[n] EXCEPT !.signature_aggregate =
           UNION {{sigs(r)[v].signature : v \in Validators} : r \in others \cup {n}}]
     IN  /\ \A r \in others : From(n, r, "sigLock") # {}
         /\ verify_signature_aggregate(aggregated)
         /\ lock' = [lock EXCEPT ![n] = aggregated]
  /\ Advance(n)
  /\ UNCHANGED <<peers, plan, bcast_vars, dkg_vars, sent, received, written, loaded>>

(* n accepts the first message of a type from a peer: the shares for it, or signatures under
   the share index of their sender *)
Accepts(n, r, type, payload) ==
  IF type = "round1/p2p"
  THEN verify_round1_p2p(payload, share_idx_by_peer(r), share_idx_by_peer(n), plan.num_validators)
  ELSE \A v \in DOMAIN payload : verify_peer_share_idx(share_idx_by_peer(r), payload[v])

Receive(n, r, type, payload) ==
  /\ n \in Correct /\ r \in peers \ {n}
  /\ From(n, r, type) = {}
  /\ Accepts(n, r, type, payload)
  /\ received' = [received EXCEPT ![n] = @ \cup {[from |-> r, type |-> type, payload |-> payload]}]
  /\ UNCHANGED <<peers, plan, step, bcast_vars, dkg_vars, sent, lock_vars>>

-----------------------------------------------------------------------------
(* n signs the hash of its lock *)
UpdateNodeSignatures(n) ==
  /\ Working(n, "update_node_signatures")
  /\ Request(n, "node_sig",
       <<MsgNodeSig([key |-> n, digest |-> lock_hash(lock[n])], PeerIndex(n))>>)
  /\ UNCHANGED <<peers, plan, step, dkg_vars, sent, received, lock_vars>>

(* n has nothing to sign *)
IgnoreNodeSignatures(n) ==
  /\ Working(n, "ignore_node_signatures")
  /\ Request(n, "node_sig", <<MsgNodeSig(NONE_DATA, PeerIndex(n))>>)
  /\ UNCHANGED <<peers, plan, step, dkg_vars, sent, received, lock_vars>>

(* The node signatures n has accepted of r.  Without a lock n takes all for sentinels. *)
NodeSignatures(n, r) ==
  LET signature(msg) == IF lock[n] = NoLock THEN NONE_DATA ELSE msg.signature
      valid(msg) == \/ signature(msg) = NONE_DATA
                    \/ msg.signature = [key |-> r, digest |-> lock_hash(lock[n])]
      messages == IF r = n THEN Own(n, "node_sig")
                  ELSE {m \in Bundle(n, r, "node_sig") :
                          verify_node_sig_msg(m[1], PeerIndex(r), PeerIndex(n), NumPeers)}
  IN  {signature(m[1]) : m \in {k \in messages : valid(k[1])}}

(* With a signature of every peer n has the lock complete, if all of it verifies *)
FinishNodeSignatures(n) ==
  /\ Working(n, "update_node_signatures") \/ Working(n, "ignore_node_signatures")
  /\ LET heard == {r \in peers : NodeSignatures(n, r) # {}}
         sigs == [i \in {PeerIndex(r) : r \in heard} |->
                   The(NodeSignatures(n, plan.participants[i + 1]))]
         complete == [lock[n] EXCEPT !.node_signatures = collect_node_sigs(sigs, NumPeers)]
     IN  /\ Collected(sigs, NumPeers)
         /\ IF lock[n] = NoLock
            THEN UNCHANGED lock
            ELSE /\ verify_signature_aggregate(complete)
                 /\ verify_node_signatures(complete, plan.operators)
                 /\ lock' = [lock EXCEPT ![n] = complete]
  /\ Advance(n)
  /\ UNCHANGED <<peers, plan, bcast_vars, dkg_vars, sent, received, written, loaded>>

-----------------------------------------------------------------------------
WriteArtifacts(n) ==
  /\ Working(n, "write_artifacts")
  /\ written' = [written EXCEPT ![n] = TRUE]
  /\ Advance(n)
  /\ UNCHANGED <<peers, plan, bcast_vars, dkg_vars, sent, received, lock, loaded>>

Noop(n) ==
  /\ Working(n, "noop")
  /\ Advance(n)
  /\ UNCHANGED <<peers, plan, bcast_vars, dkg_vars, sent, received, lock_vars>>

(* All peers are connected, or have shut down *)
Connect(n) ==
  /\ step[n] \notin 1 .. 4
  /\ Advance(n)
  /\ UNCHANGED <<peers, plan, bcast_vars, dkg_vars, sent, received, lock_vars>>

(* All that is verified of a lock at load *)
Verifies(n) ==
  /\ verify_pubshare_counts(lock[n])
  /\ verify_shares_reconstruct(lock[n])
  /\ verify_signature_aggregate(lock[n])
  /\ verify_node_signatures(lock[n], plan.operators)

(* The cluster is started: a node verifies the lock it has written *)
Load(n) ==
  /\ written[n] /\ ~loaded[n]
  /\ Verifies(n)
  /\ loaded' = [loaded EXCEPT ![n] = TRUE]
  /\ UNCHANGED <<peers, plan, step, bcast_vars, dkg_vars, sent, received, lock, written>>

-----------------------------------------------------------------------------
(* What a faulty peer r may broadcast, and send: for each check of the receivers something
   that fails it, and otherwise shares that fit together or do not *)
SomeCorrect == CHOOSE q \in Correct : TRUE

BogusShare(r) == ShareOf(<<0, <<"bogus">>>>, 0, share_idx_by_peer(r))

FaultyShares(r) == {BogusShare(r)} \cup
  {ShareOf(GroupKey(n, 1), 0, share_idx_by_peer(r)) :
     n \in {m \in Correct : progress[m] \in {"round2", "done"}}}

Digests == {lock_hash(lock[n]) : n \in {m \in Correct : lock[m] # NoLock}}

FaultyMessages(r, id) ==
  LET own == share_idx_by_peer(r)
      other == share_idx_by_peer(SomeCorrect)
      everyone(s) == [v \in Validators |-> s]
  IN  CASE id = "round1/cast" ->
             {<<>>, FrostRound1Casts(other, everyone(r), plan.threshold),
                    FrostRound1Casts(own, everyone(r), plan.threshold - 1)} \cup
             {FrostRound1Casts(own, everyone(p), plan.threshold) : p \in FaultyPolynomial}
        [] id = "round2/cast" ->
             {<<>>, FrostRound2Casts(other, everyone(BogusShare(r)))} \cup
             {FrostRound2Casts(own, everyone(s)) : s \in FaultyShares(r)}
        [] id = "node_sig" ->
             {<<MsgNodeSig(NONE_DATA, PeerIndex(r))>>} \cup
             {<<MsgNodeSig([key |-> r, digest |-> d], PeerIndex(q))>> :
                d \in Digests, q \in {r, SomeCorrect}}

FaultyPayloads(r, type) ==
  LET indices == {share_idx_by_peer(r), share_idx_by_peer(SomeCorrect)}
  IN  IF type = "round1/p2p"
      THEN {FrostRound1P2P(share_idx_by_peer(r), i, [v \in Validators |-> p]) :
              i \in indices \cup {share_idx_by_peer(n) : n \in Correct}, p \in FaultyPolynomial}
      ELSE {[v \in Validators |-> [share_idx |-> i, signature |-> [key |-> s, digest |-> d]]] :
              i \in indices, s \in FaultyShares(r), d \in Digests}

(* n is in the part of its ceremony that a message belongs to.  What a faulty peer asks or
   sends is handled then: whether it is accepted depends on nothing that happens before. *)
Awaits(n, what) ==
  CASE what \in {"round1/cast", "round1/p2p"} -> progress[n] = "round1"
    [] what = "round2/cast" -> progress[n] = "round2"
    [] what = "sigLock" -> step[n] = 2 /\ lock[n] # NoLock
    [] what = "node_sig" -> step[n] = 3

(* A faulty peer collects signatures, or broadcasts, and sends what it likes *)
FaultySign(p, r, id) ==
  /\ r \in peers \cap Faulty /\ Awaits(p, id)
  /\ \E m \in FaultyMessages(r, id) : Sign(p, r, id, m)
  /\ UNCHANGED <<peers, plan, step, dkg_vars, sent, received, lock_vars>>

FaultyReceive(n, r, type) ==
  /\ r \in peers \cap Faulty /\ Awaits(n, type)
  /\ \E payload \in FaultyPayloads(r, type) : Receive(n, r, type, payload)

ReceiveBroadcast(p, r, id) ==
  /\ \E m \in {s.message : s \in {t \in signed : t.requester = r /\ t.message_id = id}} :
       Deliver(p, r, id, m)
  /\ UNCHANGED <<peers, plan, step, dkg_vars, sent, received, lock_vars>>

ReceiveSent(n) ==
  \E m \in sent : m.to = n /\ Receive(n, m.from, m.type, m.payload)

-----------------------------------------------------------------------------
Init ==
  /\ \E q \in CeremonyRequest : ValidRequest(q) /\ plan = Plan(q)
  /\ peers = Operators(plan.participants)
  /\ BcastInit
  /\ SyncInit
  /\ progress = [n \in Node |-> "idle"]
  /\ sent = {}
  /\ received = [n \in Node |-> {}]
  /\ keys = [n \in Node |-> <<>>]
  /\ lock = [n \in Node |-> NoLock]
  /\ written = [n \in Node |-> FALSE]
  /\ loaded = [n \in Node |-> FALSE]

Next ==
  \E n \in Node :
    \/ Connect(n) \/ FrostRound1(n) \/ FrostRound2(n) \/ FrostFinish(n)
    \/ Deal(n) \/ Reshare(n)
    \/ UpdateLock(n) \/ AggregateLock(n)
    \/ UpdateNodeSignatures(n) \/ IgnoreNodeSignatures(n) \/ FinishNodeSignatures(n)
    \/ WriteArtifacts(n) \/ Noop(n) \/ Load(n)
    \/ ReceiveSent(n)
    \/ \E r \in Node : \E id \in MessageId : ReceiveBroadcast(n, r, id) \/ FaultySign(n, r, id)
    \/ \E r \in Node : \E type \in {"round1/p2p", "sigLock"} : FaultyReceive(n, r, type)

(* Nodes keep running, and messages are handled in the end *)
Spec == Init /\ [][Next]_vars /\ WF_vars(Next)

-----------------------------------------------------------------------------
(* Correct nodes have the same group key for a validator, and each has the public share of
   the other in the place where its secret share belongs, whatever faulty peers broadcast
   (frost.py:360, assemble_validator_shares does not compare the keys peers report) *)
KeysAgree ==
  \A m, n \in Correct : \A v \in DOMAIN keys[m] \cap DOMAIN keys[n] :
    /\ keys[m][v].validator_pubkey = keys[n][v].validator_pubkey
    /\ NewShareIndex(m) \in DOMAIN keys[n][v].public_shares
    /\ keys[n][v].public_shares[NewShareIndex(m)] = keys[m][v].secret_share

(* When one node writes its artifacts, all correct nodes that remain have the same lock,
   complete with all its signatures: no cluster is left with two locks, or with a part of its
   nodes without one (dkg-sync.md, "no node left behind") *)
SameArtifacts ==
  \A m, n \in Correct : (written[n] /\ Remains(m)) => lock[m] = lock[n]

(* A node runs with a lock only if the public share at every position is that position's
   point of one polynomial of the group key, and its own secret share is the one at its own
   position (verification.py:85; protocols.py:332 on keying shares by the gapped indices) *)
SharesOnPolynomial ==
  \A n \in Correct : loaded[n] => \A v \in Validators :
    LET validator == lock[n].validators[v]
        polynomial == validator.pubshares[1].polynomial
    IN  /\ polynomial.key = validator.pubkey
        /\ validator.pubshares =
             [i \in 1 .. Len(plan.operators) |-> [polynomial |-> polynomial, x |-> i]]
        /\ validator.pubshares[NewShareIndex(n)] = keys[n][v].secret_share

InOrder ==
  LET participants == plan.participants
  IN  plan.operators =
        ByAscendingIndex(participants, {i \in DOMAIN participants : Remains(participants[i])})

(* A lock is only ever used when the operators that remain took part in the order of the
   lock: the node signatures are collected in the order of the participants, but verified in
   that of the operators (node_sigs.py:121, verification.py:171) *)
LoadedInOrder == \A n \in Correct : loaded[n] => InOrder

(* A threshold the operators can reach, and under which their shares differ: with 1, several
   operators have equal shares, which no lock may have (verification.py:81) *)
UsableThreshold ==
  /\ plan.threshold \in 1 .. Len(plan.operators)
  /\ plan.threshold = 1 => Len(plan.operators) = 1

(* What correct nodes write among themselves loads, if their threshold is usable: a ceremony
   whose gaps, order or shares make the new lock unusable stops before anyone writes
   (protocols.py:332, "every node rejects at load time"; node_sigs.py:121) *)
WrittenLoads ==
  (peers \cap Faulty = {} /\ UsableThreshold) =>
    \A n \in Correct : written[n] => Verifies(n)

=============================================================================
