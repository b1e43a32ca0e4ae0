-------------------------------- MODULE QBFT --------------------------------
(***************************************************************************)
(* The QBFT consensus of one duty: a cluster of QBFTConsensus instances    *)
(* (consensus/qbft/protocol.py), their Transport and the network between   *)
(* them.  A step is one call of handle_message, or one of the two inputs   *)
(* the program leaves to its driver: the first proposal of the leader of   *)
(* round 1 and the round timeout.                                          *)
(*                                                                         *)
(* The network loses (a copy may stay undelivered for ever), delays,       *)
(* reorders and, at most MaxDuplicates times, duplicates what was          *)
(* broadcast.  A peer that is not in Up has crashed and takes no step.     *)
(*                                                                         *)
(* The hash of a value is represented by the value.  A list whose order is *)
(* irrelevant is a set of numbered copies <<x, k>>: an element that occurs *)
(* twice counts twice, as it does in the code.                             *)
(***************************************************************************)
EXTENDS QBFTDefinition

CONSTANTS
  Up,                 \* the peers that are running
  MaxRound,           \* bound: no timeout fires in this round
  MaxDuplicates,      \* bound: copies the network adds
  MaxDecidedResends   \* MAX_DECIDED_RESENDS (16 in the code)

ASSUME EnvironmentAssumption ==
  /\ Up \subseteq Peer
  /\ MaxRound \in Nat \ {0}
  /\ MaxDuplicates \in Nat
  /\ MaxDecidedResends \in Nat

VARIABLES
  round,            \* round[p]
  prepared,         \* prepared_round (0: None), _value_hash and _justification
  q_commit,         \* q_commit[p]: the quorum of COMMITs decided on, or {}
  buffer,           \* buffer[p]: the copies of messages p has stored
  dedup_rules,      \* dedup_rules[p]: the rules triggered in the current round
  decided_resends,  \* decided_resends[p][q]: highest round and count
  values,           \* values[p]: the values p's transport resolves
  sent,             \* the copies put on the network, never removed
  duplicates        \* how many copies the network has added

vars == <<round, prepared, q_commit, buffer, dedup_rules, decided_resends,
          values, sent, duplicates>>

-----------------------------------------------------------------------------
(* Messages *)

(* QBFTMsg *)
Body(t, p, r, v, pr, pv) ==
  [type |-> t, peer |-> p, round |-> r, value |-> v,
   prepared_round |-> pr, prepared_value |-> pv]

(* Mutant: the values are not attached *)
MessageWithoutValues(t, p, r, v, just, known) ==
  [msg |-> Body(t, p, r, v, 0, NoValue), justification |-> just, values |-> {}]

(* broadcast_message: the callers leave the prepared fields at their defaults *)
Message(t, p, r, v, just, known) ==
  [msg |-> Body(t, p, r, v, 0, NoValue), justification |-> just,
   values |-> {v} \cap known]

(* Mutant: what has been prepared is forgotten *)
RoundChangeUnprepared(p, r, known) ==
  [msg |-> Body("ROUND_CHANGE", p, r, NoValue, 0, NoValue),
   justification |-> {}, values |-> {}]

(* broadcast_round_change with the prepared fields of the instance *)
RoundChange(p, r, known) ==
  [msg |-> Body("ROUND_CHANGE", p, r, NoValue, prepared[p].round, prepared[p].value),
   justification |-> prepared[p].justification,
   values |-> {prepared[p].value} \cap known]

Broadcast(m) ==
  sent' = sent \cup {<<m, 1 + Cardinality({c \in sent : c[1] = m})>>}

(* verify_msg_limits *)
WithinLimits(m) ==
  /\ Cardinality(m.justification) <= 2 * Nodes
  /\ Cardinality(m.values) <= 2 * (Cardinality(m.justification) + 1)

NullPrepared(b) == b.prepared_round = 0 /\ b.prepared_value = NoValue

(* Entries <<body, _>> of kind t and round r; of these, the ones for value v *)
OfRound(entries, t, r) == {e \in entries : e[1].type = t /\ e[1].round = r}

(* Mutant: the rounds are not compared *)
VotesOfAnyRound(entries, t, r, v) == {e \in entries : e[1].type = t /\ e[1].value = v}

Votes(entries, t, r, v) == {e \in OfRound(entries, t, r) : e[1].value = v}

(* is_justified_pre_prepare; where max() has nothing to choose from, the
   handler raises, which drops the message as FALSE does *)
JustifiedPrePrepare(m) ==
  LET qrc == OfRound(m.justification, "ROUND_CHANGE", m.msg.round)
      prepares == {j \in m.justification : j[1].type = "PREPARE"}
  IN /\ IsLeader(m.msg.round, m.msg.peer)
     /\ \/ m.msg.round = 1
        \/ /\ Cardinality(qrc) >= Quorum
           /\ \/ \A rc \in qrc : NullPrepared(rc[1])
              \/ \E j \in prepares :
                   /\ \A i \in prepares : i[1].round <= j[1].round
                   /\ Cardinality(Votes(prepares, "PREPARE", j[1].round, j[1].value)) >= Quorum
                   /\ \A rc \in qrc : rc[1].prepared_round <= j[1].round
                   /\ \E rc \in qrc : /\ rc[1].prepared_round = j[1].round
                                      /\ rc[1].prepared_value = j[1].value
                   /\ m.msg.value = j[1].value

(* is_justified_round_change *)
JustifiedRoundChange(m) ==
  \/ m.justification = {} /\ NullPrepared(m.msg)
  \/ Cardinality(Votes(m.justification, "PREPARE",
                       m.msg.prepared_round, m.msg.prepared_value)) >= Quorum

(* is_justified_decided *)
JustifiedDecided(m) ==
  Cardinality(Votes(m.justification, "COMMIT", m.msg.round, m.msg.value)) >= Quorum

(* is_justified *)
Justified(m) ==
  \/ m.msg.type \in {"PREPARE", "COMMIT"}
  \/ m.msg.type = "PRE_PREPARE" /\ JustifiedPrePrepare(m)
  \/ m.msg.type = "ROUND_CHANGE" /\ JustifiedRoundChange(m)
  \/ m.msg.type = "DECIDED" /\ JustifiedDecided(m)

-----------------------------------------------------------------------------
(* The classification of a message over the flattened buffer *)

(* Mutant: nested justifications are not looked at *)
FlattenDirect(buf) == {<<c[1].msg, <<c>>>> : c \in buf}

(* _flatten: entries <<body, where it was found>> *)
Flatten(buf) ==
  {<<c[1].msg, <<c>>>> : c \in buf}
    \cup UNION {{<<j[1], <<c, j>>>> : j \in c[1].justification} : c \in buf}

Bodies(entries) == {e[1] : e \in entries}

(* the list of the bodies of entries: the same body may occur again *)
Listed(entries) ==
  {l \in Bodies(entries) \X (1 .. Cardinality(entries)) :
      l[2] <= Cardinality({e \in entries : e[1] = l[1]})}

(* The rounds F_PLUS_1_ROUND_CHANGES may lead to: the lowest round of f+1
   ROUND_CHANGEs from different sources.  Which ones the scan of the buffer
   takes depends on the order of arrival: here, any. *)
JumpRounds(p, flat) ==
  LET future == {b \in Bodies(flat) : b.type = "ROUND_CHANGE" /\ b.round > round[p]}
      From(r) == {b.peer : b \in {a \in future : a.round >= r}}
  IN {r \in {b.round : b \in future} : Cardinality(From(r)) >= Faulty + 1}

(* Mutant: any quorum of ROUND_CHANGEs will do *)
AnyQRC(flat, r) ==
  LET qrc == OfRound(flat, "ROUND_CHANGE", r)
  IN IF Cardinality(qrc) >= Quorum THEN {Listed(qrc)} ELSE {}

(* The justifications of a PRE_PREPARE for round r: the null-prepared
   ROUND_CHANGEs if they are a quorum; else, for a quorum of PREPAREs from
   different sources, the ROUND_CHANGEs prepared no later, one per source. *)
JustifiedQRC(flat, r) ==
  LET qrc == OfRound(flat, "ROUND_CHANGE", r)
      null == {e \in qrc : NullPrepared(e[1])}
      prepares == {b \in Bodies(flat) : b.type = "PREPARE"}
      PrepareSet(a) == {b \in prepares : b.round = a.round /\ b.value = a.value}
      Candidates(a) == {rc \in Bodies(qrc) : rc.prepared_round <= a.round}
  IN IF Cardinality(null) >= Quorum
     THEN {Listed(null)}
     ELSE {(Candidates(a) \cup PrepareSet(a)) \X {1} :
             a \in {b \in prepares :
                      /\ Cardinality(PrepareSet(b)) >= Quorum
                      /\ Cardinality(Candidates(b)) >= Quorum
                      /\ \E rc \in Candidates(b) : /\ rc.prepared_round = b.round
                                                   /\ rc.prepared_value = b.value}}

(* A message of a round that p has left triggers nothing, unless it is DECIDED *)
NeverStale(p, b) == FALSE

Stale(p, b) == b.type # "DECIDED" /\ b.round < round[p]

(* _classify.  UNJUST_QUORUM_ROUND_CHANGES, which handle_message answers with
   nothing, is NOTHING here. *)
Classify(p, b, flat) ==
  CASE Stale(p, b) -> "NOTHING"
    [] b.type = "DECIDED" -> "JUSTIFIED_DECIDED"
    [] b.type = "PRE_PREPARE" /\ ~Stale(p, b) -> "JUSTIFIED_PRE_PREPARE"
    [] /\ b.type = "PREPARE"
       /\ b.round = round[p]
       /\ Cardinality(Votes(flat, "PREPARE", b.round, b.value)) >= Quorum -> "QUORUM_PREPARES"
    [] /\ b.type = "COMMIT"
       /\ b.round = round[p]
       /\ Cardinality(Votes(flat, "COMMIT", b.round, b.value)) >= Quorum -> "QUORUM_COMMITS"
    [] /\ b.type = "ROUND_CHANGE"
       /\ b.round > round[p]
       /\ JumpRounds(p, flat) # {} -> "F_PLUS_1_ROUND_CHANGES"
    [] /\ b.type = "ROUND_CHANGE"
       /\ b.round = round[p]
       /\ IsLeader(b.round, p)
       /\ Cardinality(OfRound(flat, "ROUND_CHANGE", b.round)) >= Quorum
       /\ JustifiedQRC(flat, b.round) # {} -> "QUORUM_ROUND_CHANGES"
    [] OTHER -> "NOTHING"

-----------------------------------------------------------------------------
Init ==
  /\ round = [p \in Peer |-> 1]
  /\ prepared = [p \in Peer |-> [round |-> 0, value |-> NoValue, justification |-> {}]]
  /\ q_commit = [p \in Peer |-> {}]
  /\ buffer = [p \in Peer |-> {}]
  /\ dedup_rules = [p \in Peer |-> {}]
  /\ decided_resends = [p \in Peer |-> [q \in Peer |-> [round |-> 0, count |-> 0]]]
  /\ values = [p \in Peer |-> {Proposal[p]}]
  /\ sent = {}
  /\ duplicates = 0

Decided(p) == q_commit[p] # {}

(* The values of the COMMITs p has decided on: one value *)
Decision(p) == {j[1].value : j \in q_commit[p]}

(* Mutant: the rule is not recorded *)
ChangeRoundOnly(p, r, rule) ==
  /\ round' = [round EXCEPT ![p] = r]
  /\ dedup_rules' = [dedup_rules EXCEPT ![p] = IF r = round[p] THEN @ ELSE {}]

(* Record that rule was triggered, then _change_round(r), which forgets the
   rules of the round it leaves *)
ChangeRound(p, r, rule) ==
  /\ round' = [round EXCEPT ![p] = r]
  /\ dedup_rules' = [dedup_rules EXCEPT ![p] = IF r = round[p] THEN @ \cup {rule} ELSE {}]

(* The driver: the leader of round 1 makes its proposal *)
Start(p) ==
  /\ IsLeader(1, p)
  /\ round[p] = 1
  /\ ~Decided(p)
  /\ OfRound({<<c[1].msg, c>> : c \in sent}, "PRE_PREPARE", 1) = {}
  /\ Broadcast(Message("PRE_PREPARE", p, 1, Proposal[p], {}, values[p]))
  /\ UNCHANGED <<round, prepared, q_commit, buffer, dedup_rules, decided_resends,
                 values, duplicates>>

(* The driver: the timer of the round fires *)
Timeout(p) ==
  /\ ~Decided(p)
  /\ round[p] < MaxRound
  /\ ChangeRound(p, round[p] + 1, "ROUND_TIMEOUT")
  /\ Broadcast(RoundChange(p, round[p] + 1, values[p]))
  /\ UNCHANGED <<prepared, q_commit, buffer, decided_resends, values, duplicates>>

UponJustifiedPrePrepare(p, b) ==
  /\ ChangeRound(p, b.round, "JUSTIFIED_PRE_PREPARE")
  /\ Broadcast(Message("PREPARE", p, b.round, b.value, {}, values'[p]))
  /\ UNCHANGED <<prepared, q_commit>>

UponQuorumPrepares(p, b, flat) ==
  /\ prepared' = [prepared EXCEPT ![p] =
       [round |-> b.round, value |-> b.value,
        justification |-> Listed(Votes(flat, "PREPARE", b.round, b.value))]]
  /\ Broadcast(Message("COMMIT", p, round[p], b.value, {}, values'[p]))
  /\ ChangeRound(p, round[p], "QUORUM_PREPARES")
  /\ UNCHANGED q_commit

UponQuorumCommits(p, b, flat) ==
  /\ q_commit' = [q_commit EXCEPT ![p] = Listed(Votes(flat, "COMMIT", b.round, b.value))]
  /\ ChangeRound(p, b.round, "QUORUM_COMMITS")
  /\ UNCHANGED <<prepared, sent>>

UponJustifiedDecided(p, m) ==
  /\ q_commit' = [q_commit EXCEPT ![p] = m.justification]
  /\ ChangeRound(p, m.msg.round, "JUSTIFIED_DECIDED")
  /\ UNCHANGED <<prepared, sent>>

UponFPlus1RoundChanges(p, flat) ==
  /\ \E r \in JumpRounds(p, flat) :
       /\ ChangeRound(p, r, "F_PLUS_1_ROUND_CHANGES")
       /\ Broadcast(RoundChange(p, r, values'[p]))
  /\ UNCHANGED <<prepared, q_commit>>

(* Mutant: the leader keeps to its own value *)
OwnValue(p, just) == Proposal[p]

(* The leader proposes the prepared value its justification proves, else its own *)
ProposedValue(p, just) ==
  LET proven == {b.value : b \in {a \in Bodies(just) : a.type = "PREPARE"}}
  IN IF proven = {} THEN Proposal[p] ELSE CHOOSE v \in proven : TRUE

UponQuorumRoundChanges(p, flat) ==
  /\ \E just \in JustifiedQRC(flat, round[p]) :
       Broadcast(Message("PRE_PREPARE", p, round[p], ProposedValue(p, just), just, values'[p]))
  /\ ChangeRound(p, round[p], "QUORUM_ROUND_CHANGES")
  /\ UNCHANGED <<prepared, q_commit>>

(* handle_message of an instance that has not decided: a message within the
   limits and justified is stored, and triggers its rule once per round *)
Handle(p, c) ==
  LET b == c[1].msg
      flat == Flatten(buffer[p] \cup {c})
      rule == Classify(p, b, flat)
  IN /\ c \in sent \ buffer[p]
     /\ ~Decided(p)
     /\ WithinLimits(c[1])
     /\ Justified(c[1])
     /\ buffer' = [buffer EXCEPT ![p] = @ \cup {c}]
     /\ values' = [values EXCEPT ![p] = @ \cup c[1].values]
     /\ \/ /\ rule = "NOTHING" \/ rule \in dedup_rules[p]
           /\ UNCHANGED <<round, prepared, q_commit, dedup_rules, sent>>
        \/ /\ rule \notin dedup_rules[p]
           /\ \/ rule = "JUSTIFIED_PRE_PREPARE" /\ UponJustifiedPrePrepare(p, b)
              \/ rule = "QUORUM_PREPARES" /\ UponQuorumPrepares(p, b, flat)
              \/ rule = "QUORUM_COMMITS" /\ UponQuorumCommits(p, b, flat)
              \/ rule = "JUSTIFIED_DECIDED" /\ UponJustifiedDecided(p, c[1])
              \/ rule = "F_PLUS_1_ROUND_CHANGES" /\ UponFPlus1RoundChanges(p, flat)
              \/ rule = "QUORUM_ROUND_CHANGES" /\ UponQuorumRoundChanges(p, flat)
     /\ UNCHANGED <<decided_resends, duplicates>>

(* Mutants: no cap; no comparison of rounds *)
AllowUncapped(p, q, r) == r > decided_resends[p][q].round

AllowAnyRound(p, q, r) == decided_resends[p][q].count < MaxDecidedResends

(* _allow_decided_resend *)
AllowDecidedResend(p, q, r) ==
  /\ r > decided_resends[p][q].round
  /\ decided_resends[p][q].count < MaxDecidedResends

(* handle_message of an instance that has decided: it answers a ROUND_CHANGE *)
ResendDecided(p, c) ==
  LET b == c[1].msg
  IN /\ c \in sent
     /\ Decided(p)
     /\ b.type = "ROUND_CHANGE"
     /\ b.peer # p
     /\ AllowDecidedResend(p, b.peer, b.round)
     /\ WithinLimits(c[1])
     /\ decided_resends' = [decided_resends EXCEPT ![p][b.peer] =
                              [round |-> b.round, count |-> @.count + 1]]
     /\ values' = [values EXCEPT ![p] = @ \cup c[1].values]
     /\ \E v \in Decision(p) :
          Broadcast(Message("DECIDED", p, round[p], v, q_commit[p], values'[p]))
     /\ UNCHANGED <<round, prepared, q_commit, buffer, dedup_rules, duplicates>>

(* handle_message returns early, having taken only the values from the message: it is
   not justified, or the instance has decided and does not answer *)
Ignore(p, c) ==
  LET b == c[1].msg
  IN /\ c \in sent
     /\ ~(c[1].values \subseteq values[p])
     /\ WithinLimits(c[1])
     /\ \/ ~Decided(p) /\ ~Justified(c[1])
        \/ /\ Decided(p)
           /\ b.type = "ROUND_CHANGE" /\ b.peer # p => ~AllowDecidedResend(p, b.peer, b.round)
     /\ values' = [values EXCEPT ![p] = @ \cup c[1].values]
     /\ UNCHANGED <<round, prepared, q_commit, buffer, dedup_rules, decided_resends,
                    sent, duplicates>>

(* The network delivers a message once more *)
Duplicate(c) ==
  /\ duplicates < MaxDuplicates
  /\ duplicates' = duplicates + 1
  /\ Broadcast(c[1])
  /\ UNCHANGED <<round, prepared, q_commit, buffer, dedup_rules, decided_resends, values>>

Next ==
  \/ \E p \in Up : Start(p)
  \/ \E p \in Up : Timeout(p)
  \/ \E p \in Up, c \in sent : Handle(p, c)
  \/ \E p \in Up, c \in sent : ResendDecided(p, c)
  \/ \E p \in Up, c \in sent : Ignore(p, c)
  \/ \E c \in sent : Duplicate(c)

Spec == Init /\ [][Next]_vars

(* The network delivers every copy to every running peer in the end, the
   leader starts, and the timers keep firing *)
FairSpec ==
  /\ Spec
  /\ \A p \in Up : /\ WF_vars(Start(p))
                   /\ WF_vars(Timeout(p))
                   /\ WF_vars(\E c \in sent : Handle(p, c))
                   /\ WF_vars(\E c \in sent : ResendDecided(p, c))

-----------------------------------------------------------------------------
(* Properties *)

Types == {"PRE_PREPARE", "PREPARE", "COMMIT", "ROUND_CHANGE", "DECIDED"}

Rules == {"JUSTIFIED_PRE_PREPARE", "QUORUM_PREPARES", "QUORUM_COMMITS", "JUSTIFIED_DECIDED",
          "F_PLUS_1_ROUND_CHANGES", "QUORUM_ROUND_CHANGES"}

BodyType ==
  [type : Types, peer : Peer, round : Nat \ {0}, value : Value \cup {NoValue},
   prepared_round : Nat, prepared_value : Value \cup {NoValue}]

ListType == SUBSET (BodyType \X Nat)

MessageType == [msg : BodyType, justification : ListType, values : SUBSET Value]

(* The types of the fields of QBFTConsensus, Transport and the messages *)
TypeOK ==
  /\ round \in [Peer -> Nat \ {0}]
  /\ prepared \in [Peer -> [round : Nat, value : Value \cup {NoValue},
                            justification : ListType]]
  /\ q_commit \in [Peer -> ListType]
  /\ buffer \in [Peer -> SUBSET sent]
  /\ dedup_rules \in [Peer -> SUBSET Rules]
  /\ decided_resends \in [Peer -> [Peer -> [round : Nat, count : 0 .. MaxDecidedResends]]]
  /\ values \in [Peer -> SUBSET Value]
  /\ sent \in SUBSET (MessageType \X Nat)
  /\ duplicates \in 0 .. MaxDuplicates

SentBodies == {c[1].msg : c \in sent}

(* No two peers decide differently, whatever is lost, delayed or reordered:
   QUORUM_COMMITS and JUSTIFIED_DECIDED lead all of them to one value *)
Agreement == \A p, q \in Peer : \A v \in Decision(p), w \in Decision(q) : v = w

(* A decision rests on the COMMITs of a quorum of different peers, for one
   round and value: q_commit counts messages, the definition counts nodes *)
DecidedByQuorum ==
  \A p \in Peer : Decided(p) =>
    \E r \in {b.round : b \in SentBodies}, v \in Decision(p) :
      Cardinality({b.peer : b \in {a \in SentBodies : /\ a.type = "COMMIT"
                                                     /\ a.round = r
                                                     /\ a.value = v}}) >= Quorum

(* What a peer broadcasts, every peer accepts: the justification that _classify
   collects stays within verify_msg_limits and satisfies is_justified *)
SentIsAcceptable == \A c \in sent : WithinLimits(c[1]) /\ Justified(c[1])

(* The PREPAREs of round r that a buffer holds in the justifications of messages of later
   rounds *)
NestedPrepares(buf, r) == OfRound(Flatten({c \in buf : c[1].msg.round > r}), "PREPARE", r)

(* A list of PREPAREs of round r collected from a buffer holds no more than one from each
   peer beside those *)
CrowdedOnlyBy(buf, r, list) == Cardinality(list) <= Nodes + Cardinality(NestedPrepares(buf, r))

(* Nothing else makes prepared_justification, or a ROUND_CHANGE that carries it, longer
   than the cluster: what exceeds verify_msg_limits are copies nested in messages of
   rounds the sender had not reached when it prepared *)
CrowdedByNesting ==
  /\ \A p \in Peer : CrowdedOnlyBy(buffer[p], prepared[p].round, prepared[p].justification)
  /\ \A c \in sent : c[1].msg.type = "ROUND_CHANGE" =>
       CrowdedOnlyBy(buffer[c[1].msg.peer], c[1].msg.prepared_round, c[1].justification)

(* dedup_rules, though forgotten at every round change, keep a peer from sending
   a second PRE_PREPARE, PREPARE, COMMIT or ROUND_CHANGE of the same round *)
OneVotePerRound ==
  LET votes == {c \in sent : c[1].msg.type # "DECIDED"}
  IN Cardinality({<<c[1].msg.type, c[1].msg.peer, c[1].msg.round>> : c \in votes})
       = Cardinality(votes)

(* Whenever a leader holds a quorum of ROUND_CHANGEs of its round, it can justify
   a proposal: UNJUST_QUORUM_ROUND_CHANGES does not happen among correct peers *)
QuorumRoundChangesJustified ==
  \A p \in Peer :
    LET flat == Flatten(buffer[p])
    IN Cardinality(OfRound(flat, "ROUND_CHANGE", round[p])) >= Quorum
         => JustifiedQRC(flat, round[p]) # {}

(* The value of a decision can be resolved by the transport of the peer *)
DecisionResolvable == \A p \in Peer : Decision(p) \subseteq values[p]

(* A PRE_PREPARE that was stored while its round was not over has been answered
   with a PREPARE *)
PrePrepareAnswered ==
  \A p \in Peer : \A c \in buffer[p] :
    c[1].msg.type = "PRE_PREPARE" /\ c[1].msg.round >= round[p] =>
      \E b \in SentBodies : b.type = "PREPARE" /\ b.peer = p /\ b.round = c[1].msg.round

(* Duplicates of ROUND_CHANGEs included, DECIDED is rebroadcast at most once per
   peer and round it asks from, and at most MaxDecidedResends times per peer *)
ResendsBounded ==
  \A p \in Peer :
    LET resends == {c \in sent : c[1].msg.type = "DECIDED" /\ c[1].msg.peer = p}
        asked == {b \in SentBodies : b.type = "ROUND_CHANGE" /\ b.peer # p}
    IN /\ Cardinality(resends) <= duplicates + Cardinality(asked)
       /\ Cardinality(resends) <=
            duplicates + MaxDecidedResends * Cardinality({b.peer : b \in asked})

(* An instance never takes back a decision; until it decides, its round and its
   prepared round only grow *)
Forward ==
  \A p \in Peer :
    /\ Decided(p) => q_commit'[p] = q_commit[p] /\ round'[p] = round[p]
    /\ ~Decided(p)' => round'[p] >= round[p] /\ prepared'[p].round >= prepared[p].round

OnlyForward == [][Forward]_vars

(* The instances implement the abstract protocol QBFTVotes: quorums that _classify
   finds in a buffer, nested justifications included, are quorums of peers *)
Abstract == INSTANCE QBFTVotes WITH
  Round <- 1 .. MaxRound,
  prepared <- [p \in Peer |-> [round |-> prepared[p].round, value |-> prepared[p].value]],
  decided <- [p \in Peer |-> IF Decided(p) THEN CHOOSE v \in Decision(p) : TRUE ELSE NoValue],
  msgs <- {b \in SentBodies : b.type # "DECIDED"}

ImplementsVotes == Abstract!Spec

(* An instance keeps the promise of Consensus to its duty: whichever rule, round or
   message leads a peer to decide, it decides once, like everyone else, and a value
   that entered as a proposal_value *)
ImplementsConsensus == Abstract!ImplementsConsensus

(* Every running peer decides *)
EventuallyDecided == <>(\A p \in Up : Decided(p))
=============================================================================
