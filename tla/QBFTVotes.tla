----------------------------- MODULE QBFTVotes ------------------------------
(***************************************************************************)
(* What the instances of QBFT do to one another, without the buffers, the  *)
(* upon-rules and the justifications that make them do it: the abstract    *)
(* protocol a cluster follows as long as no message is duplicated.  A peer *)
(* acts on any of the messages that have been sent.                        *)
(***************************************************************************)
EXTENDS QBFTDefinition

CONSTANT Round   \* the rounds that may be reached

ASSUME RoundAssumption == Round \subseteq Nat \ {0} /\ 1 \in Round

VARIABLES
  round,      \* round[p]: the round p is in
  prepared,   \* prepared[p]: the round (0: none) and value p has prepared
  decided,    \* decided[p]: the value p has decided, or NoValue
  msgs        \* the messages sent, each without its justification

vars == <<round, prepared, decided, msgs>>

Vote == [type : {"PRE_PREPARE", "PREPARE", "COMMIT"}, peer : Peer, round : Round,
         value : Value, prepared_round : {0}, prepared_value : {NoValue}]

Change == [type : {"ROUND_CHANGE"}, peer : Peer, round : Round, value : {NoValue},
           prepared_round : Nat, prepared_value : Value \cup {NoValue}]

VoteFor(t, p, r, v) ==
  [type |-> t, peer |-> p, round |-> r, value |-> v,
   prepared_round |-> 0, prepared_value |-> NoValue]

ChangeTo(p, r) ==
  [type |-> "ROUND_CHANGE", peer |-> p, round |-> r, value |-> NoValue,
   prepared_round |-> prepared[p].round, prepared_value |-> prepared[p].value]

(* The peers that sent a message of type t for round r and value v *)
Voters(t, r, v) == {p \in Peer : VoteFor(t, p, r, v) \in msgs}

(* One ROUND_CHANGE to round r from each of a quorum of peers *)
QuorumRC(r) ==
  {S \in SUBSET {m \in msgs : m.type = "ROUND_CHANGE" /\ m.round = r} :
     Cardinality({m.peer : m \in S}) >= Quorum}

Init ==
  /\ round = [p \in Peer |-> 1]
  /\ prepared = [p \in Peer |-> [round |-> 0, value |-> NoValue]]
  /\ decided = [p \in Peer |-> NoValue]
  /\ msgs = {}

Active(p) == decided[p] = NoValue

(* Mutant: in a later round the leader may propose anything if a quorum has prepared
   nothing *)
PrePrepareAnything(p, r, v) ==
  /\ Active(p)
  /\ round[p] = r
  /\ IsLeader(r, p)
  /\ \A m \in msgs : ~(m.type = "PRE_PREPARE" /\ m.peer = p /\ m.round = r)
  /\ \/ r = 1 /\ v = Proposal[p]
     \/ \E S \in QuorumRC(r) :
          \/ \A m \in S : m.prepared_round = 0
          \/ \E h \in S : /\ h.prepared_round > 0
                          /\ v = h.prepared_value
                          /\ \A m \in S : m.prepared_round <= h.prepared_round
  /\ msgs' = msgs \cup {VoteFor("PRE_PREPARE", p, r, v)}
  /\ UNCHANGED <<round, prepared, decided>>

(* The leader of round r proposes its own value in round 1 or when a quorum has
   prepared nothing (J1), else the value with the highest prepared round (J2) *)
PrePrepare(p, r, v) ==
  /\ Active(p)
  /\ round[p] = r
  /\ IsLeader(r, p)
  /\ \A m \in msgs : ~(m.type = "PRE_PREPARE" /\ m.peer = p /\ m.round = r)
  /\ \/ r = 1 /\ v = Proposal[p]
     \/ \E S \in QuorumRC(r) :
          \/ v = Proposal[p] /\ \A m \in S : m.prepared_round = 0
          \/ \E h \in S : /\ h.prepared_round > 0
                          /\ v = h.prepared_value
                          /\ \A m \in S : m.prepared_round <= h.prepared_round
  /\ msgs' = msgs \cup {VoteFor("PRE_PREPARE", p, r, v)}
  /\ UNCHANGED <<round, prepared, decided>>

(* Mutant: it follows a proposal of an earlier round, too *)
PrepareAnyRound(p, r, v) ==
  /\ Active(p)
  /\ \E q \in Peer : VoteFor("PRE_PREPARE", q, r, v) \in msgs
  /\ round' = [round EXCEPT ![p] = r]
  /\ msgs' = msgs \cup {VoteFor("PREPARE", p, r, v)}
  /\ UNCHANGED <<prepared, decided>>

(* A peer follows a proposal of its round or of a later one *)
Prepare(p, r, v) ==
  /\ Active(p)
  /\ r >= round[p]
  /\ \E q \in Peer : VoteFor("PRE_PREPARE", q, r, v) \in msgs
  /\ round' = [round EXCEPT ![p] = r]
  /\ msgs' = msgs \cup {VoteFor("PREPARE", p, r, v)}
  /\ UNCHANGED <<prepared, decided>>

(* A peer commits to the value a quorum has prepared in its round *)
Commit(p, v) ==
  /\ Active(p)
  /\ Cardinality(Voters("PREPARE", round[p], v)) >= Quorum
  /\ prepared' = [prepared EXCEPT ![p] = [round |-> round[p], value |-> v]]
  /\ msgs' = msgs \cup {VoteFor("COMMIT", p, round[p], v)}
  /\ UNCHANGED <<round, decided>>

(* A peer gives up its round, on a timeout or because others have *)
GiveUp(p, r) ==
  /\ Active(p)
  /\ r > round[p]
  /\ round' = [round EXCEPT ![p] = r]
  /\ msgs' = msgs \cup {ChangeTo(p, r)}
  /\ UNCHANGED <<prepared, decided>>

(* A peer decides the value a quorum has committed to, in whatever round *)
Decide(p, r, v) ==
  /\ Active(p)
  /\ Cardinality(Voters("COMMIT", r, v)) >= Quorum
  /\ decided' = [decided EXCEPT ![p] = v]
  /\ round' = [round EXCEPT ![p] = r]
  /\ UNCHANGED <<prepared, msgs>>

Next ==
  \E p \in Peer :
    \/ \E r \in Round, v \in Value : PrePrepare(p, r, v)
    \/ \E r \in Round, v \in Value : Prepare(p, r, v)
    \/ \E v \in Value : Commit(p, v)
    \/ \E r \in Round : GiveUp(p, r)
    \/ \E r \in Round, v \in Value : Decide(p, r, v)

Spec == Init /\ [][Next]_vars

-----------------------------------------------------------------------------
TypeOK ==
  /\ round \in [Peer -> Round]
  /\ prepared \in [Peer -> [round : Nat, value : Value \cup {NoValue}]]
  /\ decided \in [Peer -> Value \cup {NoValue}]
  /\ msgs \subseteq Vote \cup Change

(* No two peers decide differently *)
Agreement ==
  \A p, q \in Peer : Active(p) \/ Active(q) \/ decided[p] = decided[q]

(* What the votes are for: each peer decides once, all of them alike, and a value that
   entered the instance as somebody's proposal_value *)
Agreed == INSTANCE Consensus

ImplementsConsensus == Agreed!Spec

-----------------------------------------------------------------------------
(* Why they agree: the parts of an inductive invariant *)

Quorums == {Q \in SUBSET Peer : Cardinality(Q) >= Quorum}

Sent(t, p, r, v) == VoteFor(t, p, r, v) \in msgs

Proposed(r, v) == \E p \in Peer : Sent("PRE_PREPARE", p, r, v)

Prepared(r, v) == \E p \in Peer : Sent("PREPARE", p, r, v)

RoundChanges == {m \in msgs : m.type = "ROUND_CHANGE"}

(* Peer p has left round r for good *)
HasLeft(p, r) == \E m \in RoundChanges : m.peer = p /\ m.round > r

(* One proposal per round, made by its leader *)
OneProposal ==
  \A p \in Peer, r \in Round, v \in Value : Sent("PRE_PREPARE", p, r, v) =>
    /\ IsLeader(r, p)
    /\ \A w \in Value : Sent("PRE_PREPARE", p, r, w) => v = w

(* PREPAREs follow a proposal, COMMITs follow PREPAREs *)
VotesFollow ==
  \A p \in Peer, r \in Round, v \in Value :
    /\ Sent("PREPARE", p, r, v) => Proposed(r, v)
    /\ Sent("COMMIT", p, r, v) => Prepared(r, v)

(* An active peer has prepared the last value it committed to *)
PreparedLast ==
  \A p \in Peer : Active(p) =>
    /\ prepared[p].round <= round[p]
    /\ prepared[p].round > 0 => /\ prepared[p].round \in Round
                                /\ prepared[p].value \in Value
                                /\ Prepared(prepared[p].round, prepared[p].value)
    /\ \A r \in Round, v \in Value : Sent("COMMIT", p, r, v) => r <= prepared[p].round

(* A ROUND_CHANGE tells the last COMMIT its sender has sent, and ever will send,
   in an earlier round *)
ChangesTell ==
  \A m \in RoundChanges :
    /\ Active(m.peer) => m.round <= round[m.peer]
    /\ m.prepared_round < m.round
    /\ m.prepared_round > 0 => /\ m.prepared_round \in Round
                               /\ m.prepared_value \in Value
                               /\ Prepared(m.prepared_round, m.prepared_value)
    /\ \A r \in Round, v \in Value :
         Sent("COMMIT", m.peer, r, v) /\ r < m.round => r <= m.prepared_round

(* No value other than v can be decided in a round before r: a quorum has left that
   round without committing to it *)
SafeAt(r, v) ==
  \A s \in Round, w \in Value : s < r /\ w # v =>
    \E Q \in Quorums : \A q \in Q : HasLeft(q, s) /\ ~Sent("COMMIT", q, s, w)

ProposalsSafe == \A r \in Round, v \in Value : Proposed(r, v) => SafeAt(r, v)

(* A quorum has committed to what has been decided *)
DecidedByVotes ==
  \A p \in Peer : ~Active(p) =>
    \E r \in Round : \E Q \in Quorums : \A q \in Q : Sent("COMMIT", q, r, decided[p])

(* What is proposed, again in later rounds, has come from a peer's proposal_value *)
ProposalsValid ==
  \A r \in Round, v \in Value : Proposed(r, v) => v \in Agreed!Proposed

Inv ==
  /\ TypeOK
  /\ OneProposal
  /\ VotesFollow
  /\ PreparedLast
  /\ ChangesTell
  /\ ProposalsSafe
  /\ ProposalsValid
  /\ DecidedByVotes
=============================================================================
