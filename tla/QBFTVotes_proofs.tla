-------------------------- MODULE QBFTVotes_proofs --------------------------
(***************************************************************************)
(* Proofs about QBFTVotes, for every size of the cluster, every set of     *)
(* rounds and every set of values: the invariant Inv, and that all peers   *)
(* that decide decide the same value.                                      *)
(***************************************************************************)
EXTENDS QBFTVotes, FiniteSetTheorems, TLAPS

-----------------------------------------------------------------------------
(* Quorums *)

(* The peers are a finite set of Nodes elements *)
LEMMA PeerFinite == IsFiniteSet(Peer) /\ Cardinality(Peer) = Nodes
  BY FS_Interval, ClusterAssumption DEF Peer

(* quorum() is positive and more than half of the nodes *)
LEMMA QuorumMajority == Quorum \in Nat /\ Quorum > 0 /\ 2 * Quorum > Nodes
  BY ClusterAssumption DEF Quorum

(* Two quorums have a peer in common *)
LEMMA QuorumIntersection ==
  ASSUME NEW P \in Quorums, NEW Q \in Quorums
  PROVE  \E p \in Peer : p \in P /\ p \in Q
<1>1. /\ IsFiniteSet(P) /\ IsFiniteSet(Q)
      /\ Cardinality(P) \in Nat /\ Cardinality(Q) \in Nat
  BY PeerFinite, FS_Subset, FS_CardinalityType DEF Quorums
<1>2. IsFiniteSet(P \cup Q) /\ Cardinality(P \cup Q) \in Nat /\ Cardinality(P \cup Q) <= Nodes
  BY PeerFinite, FS_Subset, FS_CardinalityType DEF Quorums
<1>3. Cardinality(P \cup Q) = Cardinality(P) + Cardinality(Q) - Cardinality(P \cap Q)
  BY <1>1, FS_Union
<1>4. Cardinality(P) >= Quorum /\ Cardinality(Q) >= Quorum
  BY DEF Quorums
<1>5. Cardinality(P \cap Q) # 0
  BY <1>1, <1>2, <1>3, <1>4, QuorumMajority, ClusterAssumption
<1>6. P \cap Q # {}
  BY <1>5, FS_EmptySet
<1> QED
  BY <1>6 DEF Quorums

(* A quorum has a member *)
LEMMA QuorumNonempty ==
  ASSUME NEW Q \in Quorums
  PROVE  \E p \in Peer : p \in Q
  BY QuorumIntersection

(* A round has one leader *)
LEMMA OneLeader ==
  ASSUME NEW r, NEW p, NEW q, IsLeader(r, p), IsLeader(r, q)
  PROVE  p = q
  BY DEF IsLeader

(* Rounds are numbers *)
LEMMA RoundNat == \A r \in Round : r \in Nat
  BY RoundAssumption

-----------------------------------------------------------------------------
(* Messages *)

(* The messages that vote for a value *)
VoteTypes == {"PRE_PREPARE", "PREPARE", "COMMIT"}

(* A vote is determined by its type, sender, round and value *)
LEMMA VoteInjective ==
  ASSUME NEW t, NEW p, NEW r, NEW v, NEW u, NEW q, NEW s, NEW w,
         VoteFor(t, p, r, v) = VoteFor(u, q, s, w)
  PROVE  t = u /\ p = q /\ r = s /\ v = w
  BY DEF VoteFor

(* What has been sent once one more vote is sent *)
LEMMA OneMoreVote ==
  ASSUME NEW u \in VoteTypes, NEW q, NEW s, NEW w,
         msgs' = msgs \cup {VoteFor(u, q, s, w)}
  PROVE  /\ RoundChanges' = RoundChanges
         /\ \A t, p, r, v : Sent(t, p, r, v)' <=>
              Sent(t, p, r, v) \/ (t = u /\ p = q /\ r = s /\ v = w)
<1>1. VoteFor(u, q, s, w).type # "ROUND_CHANGE"
  BY DEF VoteFor, VoteTypes
<1>2. RoundChanges' = RoundChanges
  BY <1>1 DEF RoundChanges
<1>3. ASSUME NEW t, NEW p, NEW r, NEW v
      PROVE  Sent(t, p, r, v)' <=> Sent(t, p, r, v) \/ (t = u /\ p = q /\ r = s /\ v = w)
  BY VoteInjective DEF Sent
<1> QED
  BY <1>2, <1>3

(* What has been sent once one more ROUND_CHANGE is sent *)
LEMMA OneMoreChange ==
  ASSUME NEW q, NEW s, msgs' = msgs \cup {ChangeTo(q, s)}
  PROVE  /\ RoundChanges' = RoundChanges \cup {ChangeTo(q, s)}
         /\ \A t \in VoteTypes : \A p, r, v : Sent(t, p, r, v)' <=> Sent(t, p, r, v)
<1>1. ChangeTo(q, s).type = "ROUND_CHANGE"
  BY DEF ChangeTo
<1>2. RoundChanges' = RoundChanges \cup {ChangeTo(q, s)}
  BY <1>1 DEF RoundChanges
<1>3. ASSUME NEW t \in VoteTypes, NEW p, NEW r, NEW v
      PROVE  Sent(t, p, r, v)' <=> Sent(t, p, r, v)
  <2>1. VoteFor(t, p, r, v).type # "ROUND_CHANGE"
    BY DEF VoteFor, VoteTypes
  <2> QED
    BY <1>1, <2>1 DEF Sent
<1> QED
  BY <1>2, <1>3

(* The senders of a quorum of votes *)
LEMMA VotersQuorum ==
  ASSUME NEW t, NEW r, NEW v, Cardinality(Voters(t, r, v)) >= Quorum
  PROVE  \E Q \in Quorums : \A q \in Q : Sent(t, q, r, v)
<1>1. Voters(t, r, v) \in Quorums
  BY DEF Voters, Quorums
<1> QED
  BY <1>1 DEF Voters, Sent

-----------------------------------------------------------------------------
(* The invariant holds initially and is preserved by every action *)

(* At the start nothing has been sent *)
LEMMA InitInv == Init => Inv
<1> SUFFICES ASSUME Init PROVE Inv
  OBVIOUS
<1>1. TypeOK
  BY RoundAssumption DEF Init, TypeOK
<1>2. /\ \A t, p, r, v : ~Sent(t, p, r, v)
      /\ RoundChanges = {}
      /\ \A p \in Peer : Active(p)
  BY DEF Init, Sent, RoundChanges, Active
<1>3. OneProposal /\ VotesFollow
  BY <1>2 DEF OneProposal, VotesFollow
<1>4. PreparedLast
  BY <1>2 DEF Init, PreparedLast
<1>5. ChangesTell
  BY <1>2 DEF ChangesTell
<1>6. ProposalsSafe
  BY <1>2 DEF ProposalsSafe, Proposed
<1>7. ProposalsValid
  BY <1>2 DEF ProposalsValid, Proposed
<1>8. DecidedByVotes
  BY <1>2 DEF DecidedByVotes
<1> QED
  BY <1>1, <1>3, <1>4, <1>5, <1>6, <1>7, <1>8 DEF Inv

(* A proposal is safe: a quorum of ROUND_CHANGEs, and the one among them with the
   highest prepared round, rule out every other value in every earlier round *)
LEMMA JustifiedIsSafe ==
  ASSUME Inv, NEW r \in Round, NEW v \in Value, NEW S \in QuorumRC(r),
         \/ \A m \in S : m.prepared_round = 0
         \/ \E h \in S : /\ h.prepared_round > 0
                         /\ v = h.prepared_value
                         /\ \A m \in S : m.prepared_round <= h.prepared_round
  PROVE  SafeAt(r, v)
<1> DEFINE Q == {m.peer : m \in S}
<1>1. S \subseteq RoundChanges /\ \A m \in S : m.round = r
  BY DEF QuorumRC, RoundChanges
<1>2. \A m \in RoundChanges : m \in Change
  BY DEF Inv, TypeOK, RoundChanges, Vote
<1>3. Q \in Quorums
  BY <1>1, <1>2 DEF QuorumRC, Quorums, Change
<1>4. r \in Nat /\ Round \subseteq Nat
  BY RoundAssumption
<1> SUFFICES ASSUME NEW s \in Round, NEW w \in Value, s < r, w # v
             PROVE  \E P \in Quorums : \A q \in P : HasLeft(q, s) /\ ~Sent("COMMIT", q, s, w)
  BY DEF SafeAt
<1>5. \A q \in Q : HasLeft(q, s)
  BY <1>1 DEF HasLeft
<1>6. ASSUME \A m \in S : m.prepared_round < s
      PROVE  \A q \in Q : ~Sent("COMMIT", q, s, w)
  <2> SUFFICES ASSUME NEW m \in S, Sent("COMMIT", m.peer, s, w) PROVE FALSE
    OBVIOUS
  <2>1. s <= m.prepared_round
    BY <1>1 DEF Inv, ChangesTell
  <2>2. m.prepared_round \in Nat
    BY <1>1, <1>2 DEF Change
  <2> QED
    BY <1>4, <1>6, <2>1, <2>2
<1>7. CASE \A m \in S : m.prepared_round < s
  BY <1>3, <1>5, <1>6, <1>7
<1>8. CASE ~ \A m \in S : m.prepared_round < s
  <2>1. PICK k \in S : ~(k.prepared_round < s)
    BY <1>8
  <2>2. k.prepared_round > 0
    <3>1. k.prepared_round \in Nat /\ s \in Nat \ {0}
      BY <1>1, <1>2, RoundAssumption DEF Change
    <3> QED
      BY <2>1, <3>1
  <2>3. PICK h \in S : /\ h.prepared_round > 0
                       /\ v = h.prepared_value
                       /\ \A m \in S : m.prepared_round <= h.prepared_round
    BY <2>1, <2>2
  <2>4. h.prepared_round \in Round /\ Prepared(h.prepared_round, v)
    BY <1>1, <2>3 DEF Inv, ChangesTell
  <2>5. Proposed(h.prepared_round, v)
    BY <2>4 DEF Inv, VotesFollow, Prepared
  <2>6. s <= h.prepared_round
    <3>1. /\ k.prepared_round \in Nat /\ h.prepared_round \in Nat /\ s \in Nat
          /\ k.prepared_round <= h.prepared_round
      BY <1>1, <1>2, <1>4, <2>3 DEF Change
    <3> QED
      BY <2>1, <3>1
  <2>7. CASE s = h.prepared_round
    <3>1. \A q \in Peer : ~Sent("COMMIT", q, s, w)
      <4> SUFFICES ASSUME NEW q \in Peer, Sent("COMMIT", q, s, w) PROVE FALSE
        OBVIOUS
      <4>1. Proposed(s, w) /\ Proposed(s, v)
        BY <2>5, <2>7 DEF Inv, VotesFollow, Prepared
      <4>2. PICK a \in Peer, b \in Peer :
              Sent("PRE_PREPARE", a, s, w) /\ Sent("PRE_PREPARE", b, s, v)
        BY <4>1 DEF Proposed
      <4>3. a = b
        BY <4>2, OneLeader DEF Inv, OneProposal
      <4> QED
        BY <4>2, <4>3 DEF Inv, OneProposal
    <3>2. Q \subseteq Peer
      BY <1>3 DEF Quorums
    <3> QED
      BY <1>3, <1>5, <3>1, <3>2
  <2>8. CASE s # h.prepared_round
    <3>1. s \in Nat /\ h.prepared_round \in Nat
      BY <1>4, <2>4
    <3>2. s < h.prepared_round
      BY <2>6, <2>8, <3>1
    <3> QED
      BY <2>4, <2>5, <3>2 DEF Inv, ProposalsSafe, SafeAt
  <2> QED
    BY <2>7, <2>8
<1> QED
  BY <1>7, <1>8

(* What a ROUND_CHANGE says was prepared entered the instance as a proposal_value *)
LEMMA PreparedIsValid ==
  ASSUME Inv, NEW r \in Round, NEW S \in QuorumRC(r), NEW h \in S, h.prepared_round > 0
  PROVE  h.prepared_value \in Agreed!Proposed
<1>1. h \in RoundChanges
  BY DEF QuorumRC, RoundChanges
<1>2. /\ h.prepared_round \in Round /\ h.prepared_value \in Value
      /\ Prepared(h.prepared_round, h.prepared_value)
  BY <1>1 DEF Inv, ChangesTell
<1>3. Proposed(h.prepared_round, h.prepared_value)
  BY <1>2 DEF Inv, VotesFollow, Prepared
<1> QED
  BY <1>2, <1>3 DEF Inv, ProposalsValid

(* The leader proposes: its quorum of ROUND_CHANGEs makes the proposal safe *)
LEMMA PrePreparePreservesInv ==
  ASSUME Inv, NEW p \in Peer, NEW r \in Round, NEW v \in Value, PrePrepare(p, r, v)
  PROVE  Inv'
<1> USE DEF Inv
<1>1. /\ msgs' = msgs \cup {VoteFor("PRE_PREPARE", p, r, v)}
      /\ round' = round /\ prepared' = prepared /\ decided' = decided
  BY DEF PrePrepare
<1>2. /\ RoundChanges' = RoundChanges
      /\ \A t, q, s, w : Sent(t, q, s, w)' <=>
           Sent(t, q, s, w) \/ (t = "PRE_PREPARE" /\ q = p /\ s = r /\ w = v)
  BY <1>1, OneMoreVote DEF VoteTypes
<1>3. /\ \A q, s, w : Sent("PREPARE", q, s, w)' <=> Sent("PREPARE", q, s, w)
      /\ \A q, s, w : Sent("COMMIT", q, s, w)' <=> Sent("COMMIT", q, s, w)
  BY <1>2
<1>4. /\ \A q : Active(q)' <=> Active(q)
      /\ \A s, w : Prepared(s, w)' <=> Prepared(s, w)
      /\ \A q, s : HasLeft(q, s)' <=> HasLeft(q, s)
  BY <1>1, <1>2, <1>3 DEF Active, Prepared, HasLeft
<1>5. TypeOK'
  <2>1. VoteFor("PRE_PREPARE", p, r, v) \in Vote
    BY DEF VoteFor, Vote
  <2> QED
    BY <1>1, <2>1 DEF TypeOK
<1>6. OneProposal'
  <2>1. IsLeader(r, p) /\ \A w : ~Sent("PRE_PREPARE", p, r, w)
    BY DEF PrePrepare, Sent, VoteFor
  <2> QED
    BY <1>2, <2>1 DEF OneProposal
<1>7. VotesFollow'
  BY <1>2, <1>3, <1>4 DEF VotesFollow, Proposed
<1>8. PreparedLast'
  BY <1>1, <1>3, <1>4 DEF PreparedLast
<1>9. ChangesTell'
  BY <1>1, <1>2, <1>3, <1>4 DEF ChangesTell
<1>10. SafeAt(r, v)
  <2>1. CASE r = 1
    <3>1. ~ \E s \in Round : s < r
      BY <2>1, RoundAssumption
    <3> QED
      BY <3>1 DEF SafeAt
  <2>2. CASE r # 1
    <3>1. PICK S \in QuorumRC(r) :
            \/ v = Proposal[p] /\ \A m \in S : m.prepared_round = 0
            \/ \E h \in S : /\ h.prepared_round > 0
                            /\ v = h.prepared_value
                            /\ \A m \in S : m.prepared_round <= h.prepared_round
      BY <2>2 DEF PrePrepare
    <3> QED
      BY <3>1, JustifiedIsSafe
  <2> QED
    BY <2>1, <2>2
<1>11. ProposalsSafe'
  <2>1. \A s \in Round, w \in Value : Proposed(s, w)' => Proposed(s, w) \/ (s = r /\ w = v)
    BY <1>2 DEF Proposed
  <2>2. \A s \in Round, w \in Value : Proposed(s, w)' => SafeAt(s, w)
    BY <1>10, <2>1 DEF ProposalsSafe
  <2>3. \A s, w : SafeAt(s, w) => SafeAt(s, w)'
    BY <1>3, <1>4 DEF SafeAt
  <2> QED
    BY <2>2, <2>3 DEF ProposalsSafe
<1>12. ProposalsValid'
  <2>1. v \in Agreed!Proposed
    <3>1. Proposal[p] \in Agreed!Proposed
      BY DEF Agreed!Proposed, Agreed!Peer, Peer
    <3>2. CASE v = Proposal[p]
      BY <3>1, <3>2
    <3>3. CASE v # Proposal[p]
      <4>1. PICK S \in QuorumRC(r) : \E h \in S : h.prepared_round > 0 /\ v = h.prepared_value
        BY <3>3 DEF PrePrepare
      <4> QED
        BY <4>1, PreparedIsValid
    <3> QED
      BY <3>2, <3>3
  <2>2. \A s \in Round, w \in Value : Proposed(s, w)' => Proposed(s, w) \/ w = v
    BY <1>2 DEF Proposed
  <2> QED
    BY <2>1, <2>2 DEF ProposalsValid
<1>13. DecidedByVotes'
  BY <1>1, <1>3, <1>4 DEF DecidedByVotes
<1> QED
  BY <1>5, <1>6, <1>7, <1>8, <1>9, <1>11, <1>12, <1>13

(* A peer follows a proposal of its round or of a later one *)
LEMMA PreparePreservesInv ==
  ASSUME Inv, NEW p \in Peer, NEW r \in Round, NEW v \in Value, Prepare(p, r, v)
  PROVE  Inv'
<1> USE DEF Inv
<1>1. /\ msgs' = msgs \cup {VoteFor("PREPARE", p, r, v)}
      /\ round' = [round EXCEPT ![p] = r]
      /\ prepared' = prepared /\ decided' = decided
      /\ Active(p) /\ r >= round[p]
      /\ Proposed(r, v)
  BY DEF Prepare, Proposed, Sent
<1>2. /\ RoundChanges' = RoundChanges
      /\ \A t, q, s, w : Sent(t, q, s, w)' <=>
           Sent(t, q, s, w) \/ (t = "PREPARE" /\ q = p /\ s = r /\ w = v)
  BY <1>1, OneMoreVote DEF VoteTypes
<1>3. /\ \A q, s, w : Sent("PRE_PREPARE", q, s, w)' <=> Sent("PRE_PREPARE", q, s, w)
      /\ \A q, s, w : Sent("COMMIT", q, s, w)' <=> Sent("COMMIT", q, s, w)
  BY <1>2
<1>4. /\ \A q : Active(q)' <=> Active(q)
      /\ \A s, w : Proposed(s, w)' <=> Proposed(s, w)
      /\ \A s, w : Prepared(s, w) => Prepared(s, w)'
      /\ \A q, s : HasLeft(q, s)' <=> HasLeft(q, s)
  BY <1>1, <1>2, <1>3 DEF Active, Proposed, Prepared, HasLeft
<1>5. TypeOK'
  <2>1. VoteFor("PREPARE", p, r, v) \in Vote
    BY DEF VoteFor, Vote
  <2> QED
    BY <1>1, <2>1 DEF TypeOK
<1>6. \A q \in Peer : round[q] \in Nat /\ round'[q] \in Nat /\ round'[q] >= round[q]
  <2> SUFFICES ASSUME NEW q \in Peer
               PROVE  round[q] \in Nat /\ round'[q] \in Nat /\ round'[q] >= round[q]
    OBVIOUS
  <2>1. round[q] \in Nat /\ r \in Nat
    BY RoundNat DEF TypeOK
  <2>2. round'[q] = IF q = p THEN r ELSE round[q]
    BY <1>1 DEF TypeOK
  <2> QED
    BY <1>1, <2>1, <2>2
<1>7. OneProposal'
  BY <1>3 DEF OneProposal
<1>8. VotesFollow'
  BY <1>1, <1>2, <1>3, <1>4 DEF VotesFollow
<1>9. PreparedLast'
  <2>1. \A q \in Peer : prepared[q].round \in Nat
    BY DEF TypeOK
  <2> QED
    BY <1>1, <1>3, <1>4, <1>6, <2>1 DEF PreparedLast
<1>10. ChangesTell'
  <2>1. \A m \in RoundChanges : m.round \in Nat /\ m.peer \in Peer
    BY RoundAssumption DEF TypeOK, RoundChanges, Vote, Change
  <2> QED
    BY <1>2, <1>3, <1>4, <1>6, <2>1 DEF ChangesTell
<1>11. ProposalsSafe'
  BY <1>3, <1>4 DEF ProposalsSafe, SafeAt
<1>12. ProposalsValid'
  BY <1>4 DEF ProposalsValid
<1>13. DecidedByVotes'
  BY <1>1, <1>3, <1>4 DEF DecidedByVotes
<1> QED
  BY <1>5, <1>7, <1>8, <1>9, <1>10, <1>11, <1>12, <1>13

(* A peer commits to what a quorum has prepared in its round *)
LEMMA CommitPreservesInv ==
  ASSUME Inv, NEW p \in Peer, NEW v \in Value, Commit(p, v)
  PROVE  Inv'
<1> USE DEF Inv
<1> DEFINE r == round[p]
<1>1. /\ msgs' = msgs \cup {VoteFor("COMMIT", p, r, v)}
      /\ prepared' = [prepared EXCEPT ![p] = [round |-> r, value |-> v]]
      /\ round' = round /\ decided' = decided
      /\ Active(p)
      /\ Cardinality(Voters("PREPARE", r, v)) >= Quorum
  BY DEF Commit
<1>2. r \in Round /\ r \in Nat /\ \A q \in Peer : round[q] \in Nat
  BY RoundAssumption DEF TypeOK
<1>3. Prepared(r, v)
  <2>1. PICK Q \in Quorums : \A q \in Q : Sent("PREPARE", q, r, v)
    BY <1>1, VotersQuorum
  <2> QED
    BY <2>1, QuorumNonempty DEF Prepared
<1> HIDE DEF r
<1>4. /\ RoundChanges' = RoundChanges
      /\ \A t, q, s, w : Sent(t, q, s, w)' <=>
           Sent(t, q, s, w) \/ (t = "COMMIT" /\ q = p /\ s = r /\ w = v)
  BY <1>1, OneMoreVote DEF VoteTypes
<1>5. /\ \A q, s, w : Sent("PRE_PREPARE", q, s, w)' <=> Sent("PRE_PREPARE", q, s, w)
      /\ \A q, s, w : Sent("PREPARE", q, s, w)' <=> Sent("PREPARE", q, s, w)
      /\ \A q, s, w : Sent("COMMIT", q, s, w)' <=>
           Sent("COMMIT", q, s, w) \/ (q = p /\ s = r /\ w = v)
  BY <1>4
<1>6. /\ \A q : Active(q)' <=> Active(q)
      /\ \A s, w : Proposed(s, w)' <=> Proposed(s, w)
      /\ \A s, w : Prepared(s, w)' <=> Prepared(s, w)
      /\ \A q, s : HasLeft(q, s)' <=> HasLeft(q, s)
  BY <1>1, <1>4, <1>5 DEF Active, Proposed, Prepared, HasLeft
<1>7. TypeOK'
  <2>1. VoteFor("COMMIT", p, r, v) \in Vote
    BY <1>2 DEF VoteFor, Vote
  <2> QED
    BY <1>1, <1>2, <2>1 DEF TypeOK
<1>8. OneProposal'
  BY <1>5 DEF OneProposal
<1>9. VotesFollow'
  BY <1>3, <1>5, <1>6 DEF VotesFollow
<1>10. PreparedLast'
  <2> SUFFICES ASSUME NEW q \in Peer, Active(q)
               PROVE  /\ prepared'[q].round <= round[q]
                      /\ prepared'[q].round > 0 =>
                           /\ prepared'[q].round \in Round
                           /\ prepared'[q].value \in Value
                           /\ Prepared(prepared'[q].round, prepared'[q].value)
                      /\ \A s \in Round, w \in Value :
                           Sent("COMMIT", q, s, w)' => s <= prepared'[q].round
    BY <1>1, <1>6 DEF PreparedLast
  <2>1. CASE q = p
    <3>1. prepared'[p] = [round |-> r, value |-> v]
      BY <1>1 DEF TypeOK
    <3>2. ASSUME NEW s \in Round, NEW w \in Value, Sent("COMMIT", p, s, w)'
          PROVE  s <= r
      <4>1. CASE s = r
        BY <1>2, <4>1
      <4>2. CASE Sent("COMMIT", p, s, w)
        <5>1. s <= prepared[p].round
          BY <1>1, <4>2 DEF PreparedLast
        <5>2. prepared[p].round <= r /\ prepared[p].round \in Nat
          BY <1>1 DEF PreparedLast, TypeOK, r
        <5>3. s \in Nat /\ r \in Nat
          BY <1>2, RoundNat
        <5> QED
          BY <5>1, <5>2, <5>3
      <4> QED
        BY <1>5, <3>2, <4>1, <4>2
    <3> QED
      BY <1>2, <1>3, <2>1, <3>1, <3>2 DEF r
  <2>2. CASE q # p
    <3>1. prepared'[q] = prepared[q]
      BY <1>1, <2>2 DEF TypeOK
    <3> QED
      BY <1>5, <2>2, <3>1 DEF PreparedLast
  <2> QED
    BY <2>1, <2>2
<1>11. ChangesTell'
  <2>1. \A m \in RoundChanges : m.peer = p => m.round \in Nat /\ m.round <= r
    BY <1>1, RoundAssumption DEF ChangesTell, TypeOK, RoundChanges, Vote, Change, r
  <2> QED
    BY <1>1, <1>2, <1>4, <1>5, <1>6, <2>1 DEF ChangesTell
<1>12. ProposalsSafe'
  <2>1. ASSUME NEW s \in Round, HasLeft(p, s)
        PROVE  s < r
    <3>1. PICK m \in RoundChanges : m.peer = p /\ m.round > s
      BY <2>1 DEF HasLeft
    <3>2. m.round \in Nat /\ m.round <= r
      BY <1>1, <3>1, RoundAssumption DEF ChangesTell, TypeOK, RoundChanges, Vote, Change, r
    <3>3. s \in Nat /\ r \in Nat
      BY <1>2, RoundNat
    <3> QED
      BY <3>1, <3>2, <3>3
  <2>2. \A q, w : \A s \in Round : HasLeft(q, s) /\ ~Sent("COMMIT", q, s, w)
                                     => HasLeft(q, s)' /\ ~Sent("COMMIT", q, s, w)'
    BY <1>2, <1>5, <1>6, <2>1
  <2>3. \A s, w : SafeAt(s, w) => SafeAt(s, w)'
    BY <2>2 DEF SafeAt
  <2> QED
    BY <1>6, <2>3 DEF ProposalsSafe
<1>13. ProposalsValid'
  BY <1>6 DEF ProposalsValid
<1>14. DecidedByVotes'
  BY <1>1, <1>5, <1>6 DEF DecidedByVotes
<1> QED
  BY <1>7, <1>8, <1>9, <1>10, <1>11, <1>12, <1>13, <1>14

(* A peer leaves its round, telling what it has prepared *)
LEMMA GiveUpPreservesInv ==
  ASSUME Inv, NEW p \in Peer, NEW r \in Round, GiveUp(p, r)
  PROVE  Inv'
<1> USE DEF Inv
<1>1. /\ msgs' = msgs \cup {ChangeTo(p, r)}
      /\ round' = [round EXCEPT ![p] = r]
      /\ prepared' = prepared /\ decided' = decided
      /\ Active(p) /\ r > round[p]
  BY DEF GiveUp
<1>2. /\ RoundChanges' = RoundChanges \cup {ChangeTo(p, r)}
      /\ \A q, s, w : Sent("PRE_PREPARE", q, s, w)' <=> Sent("PRE_PREPARE", q, s, w)
      /\ \A q, s, w : Sent("PREPARE", q, s, w)' <=> Sent("PREPARE", q, s, w)
      /\ \A q, s, w : Sent("COMMIT", q, s, w)' <=> Sent("COMMIT", q, s, w)
  BY <1>1, OneMoreChange DEF VoteTypes
<1>3. /\ \A q : Active(q)' <=> Active(q)
      /\ \A s, w : Proposed(s, w)' <=> Proposed(s, w)
      /\ \A s, w : Prepared(s, w)' <=> Prepared(s, w)
      /\ \A q, s : HasLeft(q, s) => HasLeft(q, s)'
  BY <1>1, <1>2 DEF Active, Proposed, Prepared, HasLeft
<1>4. TypeOK'
  <2>1. ChangeTo(p, r) \in Change
    BY DEF ChangeTo, Change, TypeOK
  <2> QED
    BY <1>1, <2>1 DEF TypeOK
<1>5. /\ r \in Nat
      /\ \A q \in Peer : round[q] \in Nat /\ prepared[q].round \in Nat
  BY RoundNat DEF TypeOK
<1>6. round'[p] = r /\ \A q \in Peer : q # p => round'[q] = round[q]
  BY <1>1 DEF TypeOK
<1>7. OneProposal'
  BY <1>2 DEF OneProposal
<1>8. VotesFollow'
  BY <1>2, <1>3 DEF VotesFollow
<1>9. PreparedLast'
  <2>1. \A q \in Peer : Active(q) => prepared[q].round <= round'[q]
    <3> SUFFICES ASSUME NEW q \in Peer, Active(q) PROVE prepared[q].round <= round'[q]
      OBVIOUS
    <3>1. prepared[q].round <= round[q]
      BY DEF PreparedLast
    <3> QED
      BY <1>1, <1>5, <1>6, <3>1
  <2> QED
    BY <1>1, <1>2, <1>3, <2>1 DEF PreparedLast
<1>10. ChangesTell'
  <2> SUFFICES ASSUME NEW m \in RoundChanges'
               PROVE  /\ Active(m.peer) => m.round <= round'[m.peer]
                      /\ m.prepared_round < m.round
                      /\ m.prepared_round > 0 =>
                           /\ m.prepared_round \in Round
                           /\ m.prepared_value \in Value
                           /\ Prepared(m.prepared_round, m.prepared_value)
                      /\ \A s \in Round, w \in Value :
                           Sent("COMMIT", m.peer, s, w) /\ s < m.round => s <= m.prepared_round
    BY <1>2, <1>3 DEF ChangesTell
  <2>1. CASE m \in RoundChanges
    <3>1. m.peer \in Peer /\ m.round \in Nat
      BY <2>1, RoundNat DEF TypeOK, RoundChanges, Vote, Change
    <3>2. ASSUME Active(m.peer) PROVE m.round <= round'[m.peer]
      <4>1. m.round <= round[m.peer]
        BY <2>1, <3>2 DEF ChangesTell
      <4>2. CASE m.peer = p
        BY <1>1, <1>5, <1>6, <3>1, <4>1, <4>2
      <4>3. CASE m.peer # p
        BY <1>6, <3>1, <4>1, <4>3
      <4> QED
        BY <4>2, <4>3
    <3> QED
      BY <2>1, <3>2 DEF ChangesTell
  <2>2. CASE m = ChangeTo(p, r)
    <3>1. /\ m.peer = p /\ m.round = r
          /\ m.prepared_round = prepared[p].round /\ m.prepared_value = prepared[p].value
      BY <2>2 DEF ChangeTo
    <3>2. prepared[p].round <= round[p]
      BY <1>1 DEF PreparedLast
    <3>3. prepared[p].round < r
      BY <1>1, <1>5, <3>2
    <3> QED
      BY <1>1, <1>5, <1>6, <3>1, <3>3 DEF PreparedLast
  <2> QED
    BY <1>2, <2>1, <2>2
<1>11. ProposalsSafe'
  BY <1>2, <1>3 DEF ProposalsSafe, SafeAt
<1>12. ProposalsValid'
  BY <1>3 DEF ProposalsValid
<1>13. DecidedByVotes'
  BY <1>1, <1>2, <1>3 DEF DecidedByVotes
<1> QED
  BY <1>4, <1>7, <1>8, <1>9, <1>10, <1>11, <1>12, <1>13

(* A peer decides on the COMMITs of a quorum *)
LEMMA DecidePreservesInv ==
  ASSUME Inv, NEW p \in Peer, NEW r \in Round, NEW v \in Value, Decide(p, r, v)
  PROVE  Inv'
<1> USE DEF Inv
<1>1. /\ msgs' = msgs
      /\ round' = [round EXCEPT ![p] = r]
      /\ decided' = [decided EXCEPT ![p] = v]
      /\ prepared' = prepared
      /\ Cardinality(Voters("COMMIT", r, v)) >= Quorum
  BY DEF Decide
<1>2. /\ RoundChanges' = RoundChanges
      /\ \A t, q, s, w : Sent(t, q, s, w)' <=> Sent(t, q, s, w)
      /\ \A s, w : Proposed(s, w)' <=> Proposed(s, w)
      /\ \A s, w : Prepared(s, w)' <=> Prepared(s, w)
      /\ \A q, s : HasLeft(q, s)' <=> HasLeft(q, s)
  BY <1>1 DEF RoundChanges, Sent, Proposed, Prepared, HasLeft
<1>3. \A q \in Peer : q # p => round'[q] = round[q] /\ decided'[q] = decided[q]
  BY <1>1 DEF TypeOK
<1>4. decided'[p] = v /\ v # NoValue
  BY <1>1, ClusterAssumption DEF TypeOK
<1>5. \A q \in Peer : Active(q)' <=> Active(q) /\ q # p
  BY <1>3, <1>4 DEF Active
<1>6. TypeOK'
  BY <1>1 DEF TypeOK
<1>7. OneProposal' /\ VotesFollow'
  BY <1>2 DEF OneProposal, VotesFollow
<1>8. PreparedLast'
  BY <1>1, <1>2, <1>3, <1>5 DEF PreparedLast
<1>9. ChangesTell'
  <2>1. \A m \in RoundChanges : m.peer \in Peer
    BY DEF TypeOK, RoundChanges, Vote, Change
  <2> QED
    BY <1>2, <1>3, <1>5, <2>1 DEF ChangesTell
<1>10. ProposalsSafe'
  BY <1>2 DEF ProposalsSafe, SafeAt
<1>11. ProposalsValid'
  BY <1>2 DEF ProposalsValid
<1>12. DecidedByVotes'
  <2>1. \E Q \in Quorums : \A q \in Q : Sent("COMMIT", q, r, v)
    BY <1>1, VotersQuorum
  <2> SUFFICES ASSUME NEW q \in Peer, ~Active(q)'
               PROVE  \E s \in Round : \E Q \in Quorums :
                        \A o \in Q : Sent("COMMIT", o, s, decided'[q])
    BY <1>2 DEF DecidedByVotes
  <2>2. CASE q = p
    BY <1>4, <2>1, <2>2
  <2>3. CASE q # p
    BY <1>3, <1>5, <2>3 DEF DecidedByVotes
  <2> QED
    BY <2>2, <2>3
<1> QED
  BY <1>6, <1>7, <1>8, <1>9, <1>10, <1>11, <1>12

-----------------------------------------------------------------------------
(* The theorems *)

(* Inv is inductive: whatever the peers do, in whatever order *)
LEMMA NextPreservesInv == Inv /\ [Next]_vars => Inv'
<1> SUFFICES ASSUME Inv, [Next]_vars PROVE Inv'
  OBVIOUS
<1>1. ASSUME NEW p \in Peer, NEW r \in Round, NEW v \in Value, PrePrepare(p, r, v)
      PROVE  Inv'
  BY <1>1, PrePreparePreservesInv
<1>2. ASSUME NEW p \in Peer, NEW r \in Round, NEW v \in Value, Prepare(p, r, v)
      PROVE  Inv'
  BY <1>2, PreparePreservesInv
<1>3. ASSUME NEW p \in Peer, NEW v \in Value, Commit(p, v)
      PROVE  Inv'
  BY <1>3, CommitPreservesInv
<1>4. ASSUME NEW p \in Peer, NEW r \in Round, GiveUp(p, r)
      PROVE  Inv'
  BY <1>4, GiveUpPreservesInv
<1>5. ASSUME NEW p \in Peer, NEW r \in Round, NEW v \in Value, Decide(p, r, v)
      PROVE  Inv'
  BY <1>5, DecidePreservesInv
<1>6. CASE UNCHANGED vars
  <2>1. /\ round' = round /\ prepared' = prepared /\ decided' = decided /\ msgs' = msgs
    BY <1>6 DEF vars
  <2> QED
    BY <2>1 DEF Inv, TypeOK, OneProposal, VotesFollow, PreparedLast, ChangesTell,
                ProposalsSafe, SafeAt, ProposalsValid, DecidedByVotes, Active, Sent, Proposed, Prepared,
                RoundChanges, HasLeft
<1> QED
  BY <1>1, <1>2, <1>3, <1>4, <1>5, <1>6 DEF Next

(* Every reachable state satisfies Inv *)
THEOREM Invariance == Spec => []Inv
<1> QED
  BY InitInv, NextPreservesInv, PTL DEF Spec

(* The variables keep their types *)
THEOREM TypeCorrect == Spec => []TypeOK
<1>1. Inv => TypeOK
  BY DEF Inv
<1> QED
  BY <1>1, Invariance, PTL

(* A value decided in round r is the only one that can be proposed later *)
LEMMA DecisionsAgree ==
  ASSUME Inv, NEW r \in Round, NEW s \in Round, NEW v \in Value, NEW w \in Value,
         NEW P \in Quorums, \A p \in P : Sent("COMMIT", p, r, v),
         NEW Q \in Quorums, \A q \in Q : Sent("COMMIT", q, s, w),
         r <= s
  PROVE  v = w
<1> USE DEF Inv
<1>1. Proposed(r, v) /\ Proposed(s, w)
  <2>1. PICK p \in Peer, q \in Peer : p \in P /\ q \in Q
    BY QuorumNonempty
  <2> QED
    BY <2>1 DEF VotesFollow, Prepared
<1>2. CASE r = s
  <2>1. PICK a \in Peer, b \in Peer :
          Sent("PRE_PREPARE", a, r, v) /\ Sent("PRE_PREPARE", b, r, w)
    BY <1>1, <1>2 DEF Proposed
  <2>2. a = b
    BY <2>1, OneLeader DEF OneProposal
  <2> QED
    BY <2>1, <2>2 DEF OneProposal
<1>3. CASE r # s
  <2>1. r < s
    BY <1>3, RoundNat
  <2> SUFFICES ASSUME v # w PROVE FALSE
    OBVIOUS
  <2>2. PICK S \in Quorums : \A q \in S : ~Sent("COMMIT", q, r, v)
    BY <1>1, <2>1 DEF ProposalsSafe, SafeAt
  <2>3. PICK p \in Peer : p \in P /\ p \in S
    BY QuorumIntersection
  <2> QED
    BY <2>2, <2>3
<1> QED
  BY <1>2, <1>3

(* Two decisions rest on quorums of COMMITs for one value *)
LEMMA InvAgrees == Inv => Agreement
<1> SUFFICES ASSUME Inv, NEW p \in Peer, NEW q \in Peer, ~Active(p), ~Active(q)
             PROVE  decided[p] = decided[q]
  BY DEF Agreement
<1>1. decided[p] \in Value /\ decided[q] \in Value
  BY DEF Inv, TypeOK, Active
<1>2. PICK r \in Round, P \in Quorums : \A o \in P : Sent("COMMIT", o, r, decided[p])
  BY DEF Inv, DecidedByVotes
<1>3. PICK s \in Round, Q \in Quorums : \A o \in Q : Sent("COMMIT", o, s, decided[q])
  BY DEF Inv, DecidedByVotes
<1>4. r <= s \/ s <= r
  BY RoundNat
<1> QED
  BY <1>1, <1>2, <1>3, <1>4, DecisionsAgree

(* No two peers decide differently, however many nodes and rounds there are *)
THEOREM AgreementHolds == Spec => []Agreement
  BY InvAgrees, Invariance, PTL

(* A decision is made once, on a value that was proposed, as all the others *)
LEMMA DecideImplements ==
  ASSUME Inv, Inv', NEW p \in Peer, NEW r \in Round, NEW v \in Value, Decide(p, r, v)
  PROVE  Agreed!Next
<1>1. decided[p] = NoValue /\ decided' = [decided EXCEPT ![p] = v]
  BY DEF Decide, Active
<1>2. v \in Agreed!Proposed
  <2>1. PICK Q \in Quorums : \A q \in Q : Sent("COMMIT", q, r, v)
    BY VotersQuorum DEF Decide
  <2>2. Proposed(r, v)
    BY <2>1, QuorumNonempty DEF Inv, VotesFollow, Prepared
  <2> QED
    BY <2>2 DEF Inv, ProposalsValid
<1>3. ASSUME NEW q \in Peer, decided[q] # NoValue
      PROVE  decided[q] = v
  <2>1. q # p /\ decided'[q] = decided[q] /\ decided'[p] = v /\ v # NoValue
    BY <1>1, <1>3, ClusterAssumption DEF Inv, TypeOK
  <2>2. Agreement'
    BY InvAgrees, PTL
  <2> QED
    BY <1>3, <2>1, <2>2 DEF Agreement, Active
<1>4. Agreed!Decide(p, v)
  BY <1>1, <1>2, <1>3 DEF Agreed!Decide, Agreed!Peer, Peer
<1> QED
  BY <1>4 DEF Agreed!Next, Agreed!Peer, Peer

(* The voting protocol implements Consensus: only Decide decides, and the COMMITs of a
   quorum that it follows are for one value only, which some peer proposed *)
THEOREM ImplementsConsensusHolds == Spec => ImplementsConsensus
<1>1. Init => Agreed!Init
  BY DEF Init, Agreed!Init, Agreed!Peer, Peer
<1>2. Inv /\ Inv' /\ [Next]_vars => [Agreed!Next]_decided
  <2> SUFFICES ASSUME Inv, Inv', [Next]_vars PROVE Agreed!Next \/ decided' = decided
    OBVIOUS
  <2>1. ASSUME NEW p \in Peer, NEW r \in Round, NEW v \in Value, Decide(p, r, v)
        PROVE  Agreed!Next
    BY <2>1, DecideImplements
  <2>2. CASE UNCHANGED vars
    BY <2>2 DEF vars
  <2> QED
    BY <2>1, <2>2 DEF Next, PrePrepare, Prepare, Commit, GiveUp
<1> QED
  BY <1>1, <1>2, Invariance, PTL DEF Spec, ImplementsConsensus, Agreed!Spec
=============================================================================
