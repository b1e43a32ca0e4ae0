---------------------------- MODULE QBFT_proofs ----------------------------
(***************************************************************************)
(* Theorems about QBFT, for any number of nodes, any of them crashed, any  *)
(* leaders and values and any bound on rounds.  With duplicates too: type  *)
(* correctness, that every decision can be resolved, that no instance goes *)
(* back, that DECIDED is not rebroadcast too often and that what is sent   *)
(* is justified.  Without them: that a peer sends one vote a round, that a *)
(* decision rests on COMMITs of a quorum of peers, that the instances      *)
(* implement QBFTVotes, and with it that they decide as Consensus promises *)
(* and no two differently, that a leader can justify a proposal by any     *)
(* quorum of ROUND_CHANGEs, that only ROUND_CHANGEs can exceed the limits  *)
(* on messages, only by what their senders had stored of later rounds, and *)
(* not at all with up to three nodes and two rounds.                       *)
(*                                                                         *)
(* The first three follow from Inv: each message carries the values that   *)
(* it and its justification are about (SentInv), and the transport of a    *)
(* peer has taken those of everything the peer has stored (PeerInv).       *)
(*                                                                         *)
(* Those without duplicates need VotesInv: what an undecided peer          *)
(* remembers of each vote it has sent (Remembered) keeps it from sending   *)
(* another one of the round (Unique), so that a list of votes that is long *)
(* enough is one of enough peers, and the votes nested in a justification  *)
(* only repeat what such a list proved before (Known).                     *)
(*                                                                         *)
(* Six of them need one more invariant each.  ListsInv: a list that holds  *)
(* a PREPARE holds those of a quorum.  AnswersInv: each DECIDED answers    *)
(* another ROUND_CHANGE.  JustifiedInv: what an instance has prepared or   *)
(* decided proves it.  LimitsInv: only a DECIDED nests COMMITs, and        *)
(* nobody undecided stores one.  NestingInv: what a message nests is of an *)
(* earlier round than the message.  RoomInv: an undecided peer of a small  *)
(* cluster has entered the rounds of the ROUND_CHANGEs it holds.           *)
(***************************************************************************)
EXTENDS QBFT, FiniteSetTheorems, WellFoundedInduction, TLAPS

-----------------------------------------------------------------------------
(* A message resolves the values it is about: its own, and those its justification votes for;
   a DECIDED message is justified by COMMITs for its value only *)
Carries(m) ==
  /\ m.msg.type # "ROUND_CHANGE" => m.msg.value \in m.values
  /\ \A j \in m.justification :
       /\ j[1].type \in {"PREPARE", "COMMIT"} => j[1].value \in m.values
       /\ m.msg.type = "DECIDED" => j[1].type = "COMMIT" /\ j[1].value = m.msg.value

(* What is on the network: finitely many copies of messages that carry their values *)
SentInv ==
  /\ sent \in SUBSET (MessageType \X Nat)
  /\ IsFiniteSet(sent)
  /\ \A c \in sent : Carries(c[1])

(* The transport of p resolves what p has stored, prepared and decided *)
PeerInv(p) ==
  /\ ~Decided(p) => prepared[p].round <= round[p]
  /\ Proposal[p] \in values[p]
  /\ \A c \in buffer[p] : c[1].values \subseteq values[p]
  /\ \A j \in prepared[p].justification :
       j[1].type = "PREPARE" /\ j[1].value = prepared[p].value /\ j[1].value \in values[p]
  /\ \A j \in q_commit[p] :
       /\ j[1].type = "COMMIT" /\ j[1].value \in values[p]
       /\ \A i \in q_commit[p] : i[1].value = j[1].value

(* The inductive invariant *)
Inv == TypeOK /\ SentInv /\ \A p \in Peer : PeerInv(p)

-----------------------------------------------------------------------------
(* A quorum is never empty *)
LEMMA QuorumPositive == Quorum \in Nat /\ Quorum >= 1
BY ClusterAssumption DEF Quorum

(* A list as long as a quorum has an element *)
LEMMA QuorumNotEmpty ==
  ASSUME NEW S, Cardinality(S) >= Quorum
  PROVE  S # {}
BY QuorumPositive, FS_EmptySet

(* Messages that are put together have the type of messages *)
LEMMA MessageTyped ==
  ASSUME NEW t \in Types \ {"ROUND_CHANGE"}, NEW p \in Peer, NEW r \in Nat \ {0},
         NEW v \in Value \cup {NoValue}, NEW just \in ListType,
         NEW known \in SUBSET Value, v \in known,
         \A j \in just : /\ j[1].type \in {"PREPARE", "COMMIT"} => j[1].value = v
                         /\ t = "DECIDED" => j[1].type = "COMMIT"
  PROVE  /\ Message(t, p, r, v, just, known) \in MessageType
         /\ Carries(Message(t, p, r, v, just, known))
<1> DEFINE m == Message(t, p, r, v, just, known)
<1>1. /\ m.msg = Body(t, p, r, v, 0, NoValue) /\ m.justification = just
      /\ m.values = {v} \cap known
      /\ m = [msg |-> m.msg, justification |-> just, values |-> m.values]
  BY DEF Message
<1>2. m.msg \in BodyType /\ m.msg.type = t /\ m.msg.value = v
  BY <1>1 DEF Body, BodyType
<1>3. m \in MessageType
  BY <1>1, <1>2 DEF MessageType
<1>4. \A j \in just : t = "DECIDED" => j[1].value = v
  OBVIOUS
<1>5. Carries(m)
  BY <1>1, <1>2, <1>4 DEF Carries
<1>6. QED
  BY <1>3, <1>5

(* A ROUND_CHANGE carries the value it was prepared for, which its PREPAREs vote for *)
LEMMA RoundChangeTyped ==
  ASSUME TypeOK, NEW p \in Peer, NEW r \in Nat \ {0}, NEW known \in SUBSET Value,
         \A j \in prepared[p].justification :
           j[1].type = "PREPARE" /\ j[1].value = prepared[p].value /\ j[1].value \in known
  PROVE  RoundChange(p, r, known) \in MessageType /\ Carries(RoundChange(p, r, known))
<1> DEFINE m == RoundChange(p, r, known)
<1>1. prepared[p] \in [round : Nat, value : Value \cup {NoValue}, justification : ListType]
  BY DEF TypeOK
<1>2. /\ m.msg = Body("ROUND_CHANGE", p, r, NoValue, prepared[p].round, prepared[p].value)
      /\ m.justification = prepared[p].justification
      /\ m.values = {prepared[p].value} \cap known
      /\ m = [msg |-> m.msg, justification |-> m.justification, values |-> m.values]
  BY DEF RoundChange
<1>3. m.msg \in BodyType /\ m.msg.type = "ROUND_CHANGE"
  BY <1>1, <1>2 DEF Body, BodyType, Types
<1>4. m \in MessageType
  BY <1>1, <1>2, <1>3 DEF MessageType
<1>5. Carries(m)
  BY <1>2, <1>3 DEF Carries
<1>6. QED
  BY <1>4, <1>5

(* A broadcast adds one copy to the network *)
LEMMA BroadcastKeeps ==
  ASSUME SentInv, NEW m \in MessageType, Carries(m), Broadcast(m)
  PROVE  SentInv' /\ sent \subseteq sent'
<1> DEFINE k == 1 + Cardinality({c \in sent : c[1] = m})
<1>1. sent' = sent \cup {<<m, k>>}
  BY DEF Broadcast
<1>2. Cardinality({c \in sent : c[1] = m}) \in Nat
  <2>1. IsFiniteSet({c \in sent : c[1] = m})
    BY FS_Subset DEF SentInv
  <2>2. QED
    BY <2>1, FS_CardinalityType
<1>3. k \in Nat
  BY <1>2
<1> HIDE DEF k
<1>4. IsFiniteSet(sent')
  BY <1>1, FS_AddElement DEF SentInv
<1>5. QED
  BY <1>1, <1>3, <1>4 DEF SentInv

(* An entry of a flattened buffer is a body, stored or nested in what is stored *)
LEMMA FlattenFinds ==
  ASSUME NEW buf, NEW e \in Flatten(buf)
  PROVE  \E c \in buf : e[1] = c[1].msg \/ \E j \in c[1].justification : e[1] = j[1]
BY DEF Flatten

(* The entries of a buffer have the type of bodies, and votes among them are for known values *)
LEMMA FlattenTyped ==
  ASSUME NEW buf \in SUBSET sent, SentInv, NEW known,
         \A c \in buf : c[1].values \subseteq known
  PROVE  \A e \in Flatten(buf) :
           /\ e[1] \in BodyType
           /\ e[1].type \in {"PREPARE", "COMMIT"} => e[1].value \in known
<1> SUFFICES ASSUME NEW e \in Flatten(buf)
             PROVE  /\ e[1] \in BodyType
                    /\ e[1].type \in {"PREPARE", "COMMIT"} => e[1].value \in known
  OBVIOUS
<1>1. PICK c \in buf : e[1] = c[1].msg \/ \E j \in c[1].justification : e[1] = j[1]
  BY FlattenFinds
<1>2. c[1] \in MessageType /\ Carries(c[1]) /\ c[1].values \subseteq known
  BY DEF SentInv
<1>3. CASE e[1] = c[1].msg
  BY <1>2, <1>3 DEF MessageType, Carries
<1>4. CASE \E j \in c[1].justification : e[1] = j[1]
  <2>1. PICK j \in c[1].justification : e[1] = j[1]
    BY <1>4
  <2>2. j \in BodyType \X Nat
    BY <1>2 DEF MessageType, ListType
  <2>3. QED
    BY <2>1, <2>2, <1>2 DEF Carries
<1>5. QED
  BY <1>1, <1>3, <1>4

(* A list of entries is made of their bodies *)
LEMMA ListedTyped ==
  ASSUME NEW entries, \A e \in entries : e[1] \in BodyType
  PROVE  /\ Listed(entries) \in ListType
         /\ \A l \in Listed(entries) : \E e \in entries : l[1] = e[1]
<1>1. \A l \in Listed(entries) :
        l[1] \in Bodies(entries) /\ l \in Bodies(entries) \X (1 .. Cardinality(entries))
  BY DEF Listed
<1>2. Bodies(entries) \subseteq BodyType /\ \A b \in Bodies(entries) : \E e \in entries : b = e[1]
  BY DEF Bodies
<1>3. 1 .. Cardinality(entries) \subseteq Nat
  OBVIOUS
<1>4. QED
  BY <1>1, <1>2, <1>3 DEF ListType

-----------------------------------------------------------------------------
(* The type of prepared round, value and justification *)
PreparedType == [round : Nat, value : Value \cup {NoValue}, justification : ListType]

(* What a step at p does to p's instance, its transport taking values and its buffer aside *)
Result(p) ==
  /\ \E r \in Nat \ {0} : round' = [round EXCEPT ![p] = r]
  /\ \E x \in PreparedType : prepared' = [prepared EXCEPT ![p] = x]
  /\ \E x \in ListType : q_commit' = [q_commit EXCEPT ![p] = x]
  /\ \E x \in SUBSET Rules : dedup_rules' = [dedup_rules EXCEPT ![p] = x]
  /\ SentInv' /\ sent \subseteq sent'
  /\ ~Decided(p)' => /\ prepared'[p].round <= round'[p]
                     /\ round[p] <= round'[p]
                     /\ prepared[p].round <= prepared'[p].round
  /\ \A j \in prepared'[p].justification :
       j[1].type = "PREPARE" /\ j[1].value = prepared'[p].value /\ j[1].value \in values'[p]
  /\ \A j \in q_commit'[p] :
       /\ j[1].type = "COMMIT" /\ j[1].value \in values'[p]
       /\ \A i \in q_commit'[p] : i[1].value = j[1].value

(* The fields of p's instance, by the invariant *)
LEMMA InvFacts ==
  ASSUME Inv, NEW p \in Peer
  PROVE  /\ round[p] \in Nat \ {0} /\ round = [q \in Peer |-> round[q]]
         /\ prepared[p] \in PreparedType /\ prepared = [q \in Peer |-> prepared[q]]
         /\ q_commit[p] \in ListType /\ q_commit = [q \in Peer |-> q_commit[q]]
         /\ dedup_rules[p] \in SUBSET Rules /\ dedup_rules = [q \in Peer |-> dedup_rules[q]]
         /\ buffer[p] \in SUBSET sent /\ buffer = [q \in Peer |-> buffer[q]]
         /\ values[p] \in SUBSET Value /\ values = [q \in Peer |-> values[q]]
         /\ TypeOK /\ SentInv /\ PeerInv(p)
BY DEF Inv, TypeOK, PreparedType

(* A step that is a result at p and lets its transport take values keeps the invariant *)
LEMMA ResultKeeps ==
  ASSUME Inv, NEW p \in Peer, Result(p),
         NEW vs \in SUBSET Value, values' = [values EXCEPT ![p] = @ \cup vs],
         \/ UNCHANGED buffer
         \/ \E c \in sent : c[1].values \subseteq vs /\ buffer' = [buffer EXCEPT ![p] = @ \cup {c}],
         decided_resends' \in [Peer -> [Peer -> [round : Nat, count : 0 .. MaxDecidedResends]]],
         duplicates' = duplicates
  PROVE  Inv'
<1>a. PICK C \in SUBSET sent :
        /\ \A c \in C : c[1].values \subseteq vs
        /\ buffer' = [q \in Peer |-> IF q = p THEN buffer[p] \cup C ELSE buffer[q]]
  <2>1. CASE UNCHANGED buffer
    <3>1. buffer' = [q \in Peer |-> IF q = p THEN buffer[p] \cup {} ELSE buffer[q]]
      BY <2>1, InvFacts
    <3>2. QED
      BY <3>1
  <2>2. ASSUME NEW c \in sent, c[1].values \subseteq vs,
               buffer' = [buffer EXCEPT ![p] = @ \cup {c}]
        PROVE  \E D \in SUBSET sent :
                 /\ \A d \in D : d[1].values \subseteq vs
                 /\ buffer' = [q \in Peer |-> IF q = p THEN buffer[p] \cup D ELSE buffer[q]]
    <3>1. buffer' = [q \in Peer |-> IF q = p THEN buffer[p] \cup {c} ELSE buffer[q]]
      BY <2>2, InvFacts
    <3>2. QED
      BY <2>2, <3>1
  <2>3. QED
    BY <2>1, <2>2
<1>b. buffer'[p] = buffer[p] \cup C /\ \A q \in Peer \ {p} : buffer'[q] = buffer[q]
  BY <1>a
<1>1. TypeOK'
  <2>1. /\ round' \in [Peer -> Nat \ {0}]
        /\ prepared' \in [Peer -> PreparedType]
        /\ q_commit' \in [Peer -> ListType]
        /\ dedup_rules' \in [Peer -> SUBSET Rules]
    BY InvFacts DEF Result, TypeOK, PreparedType
  <2>2. values' \in [Peer -> SUBSET Value]
    BY InvFacts DEF TypeOK
  <2>3. buffer' \in [Peer -> SUBSET sent']
    <3>1. sent \subseteq sent'
      BY DEF Result
    <3>2. \A q \in Peer : buffer[q] \subseteq sent
      BY InvFacts
    <3>3. QED
      BY <1>a, <3>1, <3>2
  <2>4. sent' \in SUBSET (MessageType \X Nat)
    BY DEF Result, SentInv
  <2>5. duplicates' \in 0 .. MaxDuplicates
    BY InvFacts DEF TypeOK
  <2>6. QED
    BY <2>1, <2>2, <2>3, <2>4, <2>5 DEF TypeOK, PreparedType
<1>2. values'[p] = values[p] \cup vs
  BY InvFacts
<1>3. PeerInv(p)'
  <2>1. \A c \in buffer'[p] : c[1].values \subseteq values'[p]
    <3>1. \A c \in buffer[p] : c[1].values \subseteq values[p]
      BY InvFacts DEF PeerInv
    <3>2. QED
      BY <3>1, <1>a, <1>b, <1>2
  <2>2. (Proposal[p] \in values[p])'
    BY InvFacts, <1>2 DEF PeerInv
  <2>3. QED
    BY <2>1, <2>2 DEF PeerInv, Result
<1>4. ASSUME NEW q \in Peer \ {p} PROVE PeerInv(q)'
  <2>1. /\ round'[q] = round[q] /\ prepared'[q] = prepared[q] /\ q_commit'[q] = q_commit[q]
        /\ values'[q] = values[q] /\ buffer'[q] = buffer[q]
    BY InvFacts, <1>b DEF Result
  <2>2. PeerInv(q)
    BY DEF Inv
  <2>3. QED
    BY <2>1, <2>2 DEF PeerInv, Decided
<1>5. QED
  BY <1>1, <1>3, <1>4 DEF Inv, Result

(* The same, when the instance keeps what it has prepared and decided *)
LEMMA QuietResultKeeps ==
  ASSUME Inv, NEW p \in Peer, Result(p),
         UNCHANGED <<buffer, decided_resends, values, duplicates>>
  PROVE  Inv'
<1> DEFINE vs == {}
<1>1. vs \in SUBSET Value /\ values' = [values EXCEPT ![p] = @ \cup vs]
  BY InvFacts
<1>2. decided_resends' \in [Peer -> [Peer -> [round : Nat, count : 0 .. MaxDecidedResends]]]
  BY InvFacts DEF TypeOK
<1> HIDE DEF vs
<1>3. QED
  BY <1>1, <1>2, ResultKeeps

(* Changing the round, forward *)
LEMMA ChangeRoundKeeps ==
  ASSUME Inv, NEW p \in Peer, NEW r \in Nat \ {0},
         NEW rule, rule \in Rules \/ r # round[p], ChangeRound(p, r, rule)
  PROVE  /\ round' = [round EXCEPT ![p] = r] /\ round'[p] = r
         /\ \E x \in SUBSET Rules : dedup_rules' = [dedup_rules EXCEPT ![p] = x]
<1>1. round' = [round EXCEPT ![p] = r] /\ round'[p] = r
  BY InvFacts DEF ChangeRound
<1>2. dedup_rules' =
        [dedup_rules EXCEPT ![p] = IF r = round[p] THEN dedup_rules[p] \cup {rule} ELSE {}]
  BY DEF ChangeRound
<1>3. (IF r = round[p] THEN dedup_rules[p] \cup {rule} ELSE {}) \in SUBSET Rules
  BY InvFacts
<1>4. QED
  BY <1>1, <1>2, <1>3

(* A step of p that decides nothing, prepares nothing and does not go back *)
LEMMA ResultOfRound ==
  ASSUME Inv, NEW p \in Peer, ~Decided(p), values[p] \subseteq values'[p],
         NEW r \in Nat \ {0}, round[p] <= r, round' = [round EXCEPT ![p] = r],
         \E x \in SUBSET Rules : dedup_rules' = [dedup_rules EXCEPT ![p] = x],
         SentInv', sent \subseteq sent', UNCHANGED <<prepared, q_commit>>
  PROVE  Result(p)
<1>1. /\ prepared' = [prepared EXCEPT ![p] = prepared[p]] /\ prepared[p] \in PreparedType
      /\ q_commit' = [q_commit EXCEPT ![p] = q_commit[p]] /\ q_commit[p] \in ListType
      /\ PeerInv(p) /\ round'[p] = r /\ round[p] \in Nat /\ prepared[p].round \in Nat
  BY InvFacts DEF PreparedType
<1>2. prepared[p].round <= round'[p] /\ round[p] <= round'[p]
  BY <1>1 DEF PeerInv
<1>3. \A j \in prepared'[p].justification :
       j[1].type = "PREPARE" /\ j[1].value = prepared'[p].value /\ j[1].value \in values'[p]
  BY <1>1 DEF PeerInv
<1>4. q_commit'[p] = {}
  BY DEF Decided
<1>5. prepared'[p].round >= prepared[p].round
  BY <1>1
<1>6. (\E x \in PreparedType : prepared' = [prepared EXCEPT ![p] = x])
      /\ (\E x \in ListType : q_commit' = [q_commit EXCEPT ![p] = x])
  BY <1>1
<1>7. QED
  BY <1>2, <1>3, <1>4, <1>5, <1>6 DEF Result

-----------------------------------------------------------------------------
(* The two inputs of the driver *)
LEMMA StartInv ==
  ASSUME Inv, NEW p \in Up, Start(p)
  PROVE  Inv' /\ Result(p) /\ ~Decided(p)
<1> DEFINE m == Message("PRE_PREPARE", p, 1, Proposal[p], {}, values[p])
<1>1. p \in Peer /\ 1 \in Nat \ {0} /\ round[p] = 1 /\ ~Decided(p)
  BY EnvironmentAssumption DEF Start
<1>2. m \in MessageType /\ Carries(m)
  <2>1. Proposal[p] \in Value /\ Proposal[p] \in values[p] /\ values[p] \in SUBSET Value
    BY <1>1, ClusterAssumption, InvFacts DEF PeerInv
  <2>2. {} \in ListType /\ "PRE_PREPARE" \in Types \ {"ROUND_CHANGE"}
    BY DEF ListType, Types
  <2>3. QED
    BY <1>1, <2>1, <2>2, MessageTyped
<1> HIDE DEF m
<1>3. SentInv' /\ sent \subseteq sent'
  BY <1>1, <1>2, BroadcastKeeps, InvFacts DEF Start, m
<1>4. UNCHANGED <<round, prepared, q_commit, buffer, dedup_rules,
                  decided_resends, values, duplicates>>
  BY DEF Start
<1>5. /\ round' = [round EXCEPT ![p] = 1]
      /\ round[p] <= 1 /\ values[p] \subseteq values'[p]
      /\ \E x \in SUBSET Rules : dedup_rules' = [dedup_rules EXCEPT ![p] = x]
  <2>1. dedup_rules' = [dedup_rules EXCEPT ![p] = dedup_rules[p]] /\ dedup_rules[p] \in SUBSET Rules
    BY <1>1, <1>4, InvFacts
  <2>2. round' = [round EXCEPT ![p] = 1] /\ round[p] <= 1 /\ values[p] \subseteq values'[p]
    BY <1>1, <1>4, InvFacts
  <2>3. QED
    BY <2>1, <2>2
<1>6. Result(p)
  BY <1>1, <1>3, <1>4, <1>5, ResultOfRound
<1>7. QED
  BY <1>1, <1>4, <1>6, QuietResultKeeps

(* The timer of an undecided instance runs out *)
LEMMA TimeoutInv ==
  ASSUME Inv, NEW p \in Up, Timeout(p)
  PROVE  Inv' /\ Result(p) /\ ~Decided(p)
<1> DEFINE r == round[p] + 1
           m == RoundChange(p, r, values[p])
<1>1. /\ p \in Peer /\ r \in Nat \ {0} /\ r # round[p] /\ round[p] <= r /\ ~Decided(p)
      /\ values[p] \in SUBSET Value
  BY EnvironmentAssumption, InvFacts DEF Timeout
<1>2. m \in MessageType /\ Carries(m)
  BY <1>1, InvFacts, RoundChangeTyped DEF PeerInv
<1>3. ChangeRound(p, r, "ROUND_TIMEOUT") /\ Broadcast(m)
      /\ UNCHANGED <<prepared, q_commit, buffer, decided_resends, values, duplicates>>
  BY DEF Timeout
<1> HIDE DEF m, r
<1>4. SentInv' /\ sent \subseteq sent'
  BY <1>1, <1>2, <1>3, BroadcastKeeps, InvFacts
<1>5. /\ round' = [round EXCEPT ![p] = r]
      /\ \E x \in SUBSET Rules : dedup_rules' = [dedup_rules EXCEPT ![p] = x]
      /\ values[p] \subseteq values'[p]
  BY <1>1, <1>3, ChangeRoundKeeps
<1>6. Result(p)
  BY <1>1, <1>3, <1>4, <1>5, ResultOfRound
<1>7. QED
  BY <1>1, <1>3, <1>6, QuietResultKeeps

-----------------------------------------------------------------------------
(* What a rule says of the message that triggers it *)
LEMMA ClassifyFacts ==
  ASSUME NEW p, NEW b, NEW flat
  PROVE  LET rule == Classify(p, b, flat)
         IN  /\ rule = "JUSTIFIED_PRE_PREPARE" => b.type = "PRE_PREPARE" /\ ~(b.round < round[p])
             /\ rule = "QUORUM_PREPARES" =>
                  /\ b.type = "PREPARE" /\ b.round = round[p]
                  /\ Cardinality(Votes(flat, "PREPARE", b.round, b.value)) >= Quorum
             /\ rule = "QUORUM_COMMITS" =>
                  /\ b.type = "COMMIT" /\ b.round = round[p]
                  /\ Cardinality(Votes(flat, "COMMIT", b.round, b.value)) >= Quorum
             /\ rule = "JUSTIFIED_DECIDED" => b.type = "DECIDED"
             /\ rule = "QUORUM_ROUND_CHANGES" =>
                  b.type = "ROUND_CHANGE" /\ b.round = round[p] /\ IsLeader(b.round, p)
BY DEF Classify, Stale

(* The list of the votes of a flattened buffer *)
LEMMA VotesListed ==
  ASSUME NEW flat, \A e \in flat : e[1] \in BodyType, NEW t, NEW r, NEW v
  PROVE  /\ Listed(Votes(flat, t, r, v)) \in ListType
         /\ \A j \in Listed(Votes(flat, t, r, v)) :
              j[1].type = t /\ j[1].round = r /\ j[1].value = v
<1>1. \A e \in Votes(flat, t, r, v) :
        e \in flat /\ e[1].type = t /\ e[1].round = r /\ e[1].value = v
  BY DEF Votes, OfRound
<1>2. QED
  BY <1>1, ListedTyped

(* The justification of a new proposal votes for the value proposed, if for any *)
LEMMA QRCTyped ==
  ASSUME NEW flat, \A e \in flat : e[1] \in BodyType, NEW r,
         NEW just \in JustifiedQRC(flat, r), NEW p
  PROVE  /\ just \in ListType
         /\ \A j \in just :
              /\ j[1].type # "COMMIT"
              /\ j[1].type = "PREPARE" => j[1].value = ProposedValue(p, just)
         /\ \/ ProposedValue(p, just) = Proposal[p]
            \/ \E e \in flat : e[1].type = "PREPARE" /\ e[1].value = ProposedValue(p, just)
<1> DEFINE qrc == OfRound(flat, "ROUND_CHANGE", r)
           null == {e \in qrc : NullPrepared(e[1])}
           prepares == {b \in Bodies(flat) : b.type = "PREPARE"}
           PrepareSet(a) == {b \in prepares : b.round = a.round /\ b.value = a.value}
           Candidates(a) == {rc \in Bodies(qrc) : rc.prepared_round <= a.round}
           proven == {b.value : b \in {a \in Bodies(just) : a.type = "PREPARE"}}
<1>1. \A e \in qrc : e \in flat /\ e[1] \in BodyType /\ e[1].type = "ROUND_CHANGE"
  BY DEF OfRound
<1>2. proven = {} => ProposedValue(p, just) = Proposal[p]
  BY DEF ProposedValue
<1>3. proven # {} => ProposedValue(p, just) \in proven
  BY DEF ProposedValue
<1>4. \A j \in just : j[1].type = "PREPARE" => j[1].value \in proven
  BY DEF Bodies
<1>5. CASE just = Listed(null)
  <2>1. just \in ListType /\ \A j \in just : j[1].type = "ROUND_CHANGE"
    BY <1>1, <1>5, ListedTyped
  <2>2. proven = {}
    BY <2>1 DEF Bodies
  <2>3. QED
    BY <2>1, <2>2, <1>2
<1>6. ASSUME NEW a \in prepares, just = (Candidates(a) \cup PrepareSet(a)) \X {1}
      PROVE  /\ just \in ListType
             /\ \A j \in just :
                  /\ j[1].type # "COMMIT"
                  /\ j[1].type = "PREPARE" => j[1].value = ProposedValue(p, just)
             /\ \E e \in flat : e[1].type = "PREPARE" /\ e[1].value = ProposedValue(p, just)
  <2>1. \A b \in Candidates(a) : b \in BodyType /\ b.type = "ROUND_CHANGE"
    BY <1>1 DEF Bodies
  <2>2. \A b \in PrepareSet(a) : /\ b \in BodyType /\ b.type = "PREPARE" /\ b.value = a.value
                                 /\ \E e \in flat : e[1] = b
    BY DEF Bodies
  <2>3. just \in ListType
    BY <1>6, <2>1, <2>2 DEF ListType
  <2>4. \A j \in just : j[1] \in Candidates(a) \/ j[1] \in PrepareSet(a)
    BY <1>6
  <2>5. a \in PrepareSet(a) /\ <<a, 1>> \in just
    BY <1>6
  <2>6. proven = {a.value}
    <3>1. a.value \in proven
      BY <2>5, <2>2, <1>4
    <3>2. \A v \in proven : v = a.value
      BY <2>1, <2>2, <2>4 DEF Bodies
    <3>3. QED
      BY <3>1, <3>2
  <2>7. ProposedValue(p, just) = a.value
    BY <2>6, <1>3
  <2>8. QED
    BY <2>1, <2>2, <2>3, <2>4, <2>5, <2>7
<1>7. just = Listed(null) \/ \E a \in prepares : just = (Candidates(a) \cup PrepareSet(a)) \X {1}
  BY DEF JustifiedQRC
<1>8. QED
  BY <1>5, <1>6, <1>7

-----------------------------------------------------------------------------
(* handle_message of an undecided instance, with any of its rules *)
LEMMA HandleInv ==
  ASSUME Inv, NEW p \in Up, NEW c \in sent, Handle(p, c)
  PROVE  Inv' /\ Result(p) /\ ~Decided(p)
<1> DEFINE b == c[1].msg
           flat == Flatten(buffer[p] \cup {c})
           rule == Classify(p, b, flat)
           vs == c[1].values
<1>1. /\ p \in Peer /\ ~Decided(p)
      /\ c[1] \in MessageType /\ Carries(c[1]) /\ b \in BodyType /\ vs \in SUBSET Value
      /\ c[1].justification \in ListType
  BY EnvironmentAssumption, InvFacts DEF Handle, SentInv, MessageType
<1>2. /\ Justified(c[1])
      /\ buffer' = [buffer EXCEPT ![p] = @ \cup {c}]
      /\ values' = [values EXCEPT ![p] = @ \cup vs]
      /\ UNCHANGED <<decided_resends, duplicates>>
  BY DEF Handle
<1>3. /\ values'[p] = values[p] \cup vs /\ values'[p] \in SUBSET Value
      /\ values[p] \subseteq values'[p] /\ vs \subseteq values'[p]
  BY <1>1, <1>2, InvFacts
<1>4. \A e \in flat : /\ e[1] \in BodyType
                      /\ e[1].type \in {"PREPARE", "COMMIT"} => e[1].value \in values'[p]
  <2>1. buffer[p] \cup {c} \in SUBSET sent /\ SentInv
    BY <1>1, InvFacts
  <2>2. \A d \in buffer[p] \cup {c} : d[1].values \subseteq values'[p]
    BY <1>1, <1>3, InvFacts DEF PeerInv
  <2>3. QED
    BY <2>1, <2>2, FlattenTyped
<1>5. /\ b.round \in Nat \ {0} /\ round[p] \in Nat \ {0} /\ round[p] <= round[p]
      /\ prepared[p] \in PreparedType /\ prepared[p].round <= round[p]
      /\ b.type \in Types /\ b.value \in Value \cup {NoValue}
  BY <1>1, InvFacts DEF BodyType, PeerInv, PreparedType
<1>6. /\ rule = "JUSTIFIED_PRE_PREPARE" => b.type = "PRE_PREPARE" /\ round[p] <= b.round
      /\ rule = "QUORUM_PREPARES" => b.type = "PREPARE" /\ b.round = round[p]
      /\ rule = "QUORUM_COMMITS" => b.type = "COMMIT" /\ b.round = round[p]
      /\ rule = "JUSTIFIED_DECIDED" => b.type = "DECIDED"
  BY <1>5, ClassifyFacts
<1>7. b.type # "ROUND_CHANGE" => b.value \in values'[p]
  BY <1>1, <1>3 DEF Carries
<1>8. SentInv /\ PeerInv(p)
  BY <1>1, InvFacts
<1> HIDE DEF b, flat, rule, vs
<1>9. Result(p)
  <2>1. CASE UNCHANGED <<round, prepared, q_commit, dedup_rules, sent>>
    <3>1. round' = [round EXCEPT ![p] = round[p]]
      BY <2>1, <1>1, InvFacts
    <3>2. \E x \in SUBSET Rules : dedup_rules' = [dedup_rules EXCEPT ![p] = x]
      <4>1. dedup_rules' = [dedup_rules EXCEPT ![p] = dedup_rules[p]]
            /\ dedup_rules[p] \in SUBSET Rules
        BY <2>1, <1>1, InvFacts
      <4>2. QED
        BY <4>1
    <3>3. SentInv' /\ sent \subseteq sent'
      BY <1>8, <2>1 DEF SentInv
    <3>4. UNCHANGED <<prepared, q_commit>>
      BY <2>1
    <3>5. QED
      BY <1>1, <1>3, <1>5, <3>1, <3>2, <3>3, <3>4, ResultOfRound
  <2>2. CASE rule = "JUSTIFIED_PRE_PREPARE" /\ UponJustifiedPrePrepare(p, b)
    <3> DEFINE m == Message("PREPARE", p, b.round, b.value, {}, values'[p])
    <3>1. /\ ChangeRound(p, b.round, "JUSTIFIED_PRE_PREPARE") /\ Broadcast(m)
          /\ UNCHANGED <<prepared, q_commit>>
          /\ b.value \in values'[p] /\ round[p] <= b.round
      BY <2>2, <1>6, <1>7 DEF UponJustifiedPrePrepare
    <3>2. m \in MessageType /\ Carries(m)
      <4>1. {} \in ListType /\ "PREPARE" \in Types \ {"ROUND_CHANGE"}
        BY DEF ListType, Types
      <4>2. QED
        BY <4>1, <3>1, <1>1, <1>3, <1>5, MessageTyped
    <3> HIDE DEF m
    <3>3. SentInv' /\ sent \subseteq sent'
      BY <3>1, <3>2, <1>8, BroadcastKeeps
    <3>4. /\ round' = [round EXCEPT ![p] = b.round]
          /\ \E x \in SUBSET Rules : dedup_rules' = [dedup_rules EXCEPT ![p] = x]
      BY <3>1, <1>1, <1>5, ChangeRoundKeeps DEF Rules
    <3>5. QED
      BY <1>1, <1>3, <1>5, <3>1, <3>3, <3>4, ResultOfRound
  <2>3. CASE rule = "QUORUM_PREPARES" /\ UponQuorumPrepares(p, b, flat)
    <3> DEFINE m == Message("COMMIT", p, round[p], b.value, {}, values'[p])
               just == Listed(Votes(flat, "PREPARE", b.round, b.value))
               x == [round |-> b.round, value |-> b.value, justification |-> just]
    <3>1. /\ ChangeRound(p, round[p], "QUORUM_PREPARES") /\ Broadcast(m)
          /\ prepared' = [prepared EXCEPT ![p] = x]
          /\ q_commit' = q_commit
          /\ b.value \in values'[p] /\ b.round = round[p]
      BY <2>3, <1>6, <1>7 DEF UponQuorumPrepares
    <3>2. m \in MessageType /\ Carries(m)
      <4>1. {} \in ListType /\ "COMMIT" \in Types \ {"ROUND_CHANGE"}
        BY DEF ListType, Types
      <4>2. QED
        BY <4>1, <3>1, <1>1, <1>3, <1>5, MessageTyped
    <3>3. /\ just \in ListType
          /\ \A j \in just : j[1].type = "PREPARE" /\ j[1].value = b.value
      BY <1>4, VotesListed
    <3>4. x \in PreparedType /\ x.round = b.round /\ x.justification = just /\ x.value = b.value
      BY <3>3, <1>5 DEF PreparedType
    <3> HIDE DEF m, x, just
    <3>5. SentInv' /\ sent \subseteq sent'
      BY <3>1, <3>2, <1>8, BroadcastKeeps
    <3>6. /\ round' = [round EXCEPT ![p] = round[p]] /\ round'[p] = round[p]
          /\ \E y \in SUBSET Rules : dedup_rules' = [dedup_rules EXCEPT ![p] = y]
      BY <3>1, <1>1, <1>5, ChangeRoundKeeps DEF Rules
    <3>7. prepared'[p] = x
      BY <3>1, <1>1, InvFacts
    <3>8. q_commit' = [q_commit EXCEPT ![p] = q_commit[p]] /\ q_commit[p] \in ListType
          /\ q_commit'[p] = {}
      BY <3>1, <1>1, InvFacts DEF Decided
    <3>9. /\ prepared'[p].round <= round'[p]
          /\ round[p] <= round'[p]
          /\ prepared[p].round <= prepared'[p].round
      BY <3>1, <3>4, <3>6, <3>7, <1>5
    <3>10. \A j \in prepared'[p].justification :
             j[1].type = "PREPARE" /\ j[1].value = prepared'[p].value /\ j[1].value \in values'[p]
      BY <3>1, <3>3, <3>4, <3>7
    <3>11. /\ \E r \in Nat \ {0} : round' = [round EXCEPT ![p] = r]
           /\ \E y \in PreparedType : prepared' = [prepared EXCEPT ![p] = y]
           /\ \E y \in ListType : q_commit' = [q_commit EXCEPT ![p] = y]
      BY <3>1, <3>4, <3>6, <3>8, <1>5
    <3>12. QED
      BY <3>5, <3>6, <3>8, <3>9, <3>10, <3>11 DEF Result
  <2>4. ASSUME NEW quorum \in ListType,
               q_commit' = [q_commit EXCEPT ![p] = quorum],
               UNCHANGED <<prepared, sent>>,
               ChangeRound(p, b.round, rule), rule \in Rules,
               (quorum = {}) => round[p] <= b.round,
               \A j \in quorum : /\ j[1].type = "COMMIT" /\ j[1].value = b.value
                                 /\ j[1].value \in values'[p]
        PROVE  Result(p)
    <3>1. /\ round' = [round EXCEPT ![p] = b.round] /\ round'[p] = b.round
          /\ \E x \in SUBSET Rules : dedup_rules' = [dedup_rules EXCEPT ![p] = x]
      BY <2>4, <1>1, <1>5, ChangeRoundKeeps
    <3>2. q_commit'[p] = quorum
      BY <2>4, <1>1, InvFacts
    <3>3. prepared' = [prepared EXCEPT ![p] = prepared[p]] /\ prepared'[p] = prepared[p]
      BY <2>4, <1>1, InvFacts
    <3>4. SentInv' /\ sent \subseteq sent'
      BY <2>4, <1>8 DEF SentInv
    <3>5. ~Decided(p)' => /\ prepared'[p].round <= round'[p]
                          /\ round[p] <= round'[p]
                          /\ prepared[p].round <= prepared'[p].round
      <4> SUFFICES ASSUME ~Decided(p)' PROVE /\ prepared'[p].round <= round'[p]
                                             /\ round[p] <= round'[p]
                                             /\ prepared[p].round <= prepared'[p].round
        OBVIOUS
      <4>1. round[p] <= b.round
        BY <2>4, <3>2 DEF Decided
      <4>2. prepared[p].round \in Nat
        BY <1>5 DEF PreparedType
      <4>3. QED
        BY <4>1, <4>2, <3>1, <3>3, <1>5
    <3>6. \A j \in prepared'[p].justification :
            j[1].type = "PREPARE" /\ j[1].value = prepared'[p].value /\ j[1].value \in values'[p]
      BY <3>3, <1>3, <1>8 DEF PeerInv
    <3>7. /\ \E r \in Nat \ {0} : round' = [round EXCEPT ![p] = r]
          /\ \E x \in PreparedType : prepared' = [prepared EXCEPT ![p] = x]
          /\ \E x \in ListType : q_commit' = [q_commit EXCEPT ![p] = x]
      BY <2>4, <3>1, <3>3, <1>5
    <3>8. \A j \in q_commit'[p] :
            /\ j[1].type = "COMMIT" /\ j[1].value \in values'[p]
            /\ \A i \in q_commit'[p] : i[1].value = j[1].value
      BY <2>4, <3>2
    <3>9. QED
      BY <3>1, <3>4, <3>5, <3>6, <3>7, <3>8 DEF Result
  <2>5. CASE rule = "QUORUM_COMMITS" /\ UponQuorumCommits(p, b, flat)
    <3> DEFINE quorum == Listed(Votes(flat, "COMMIT", b.round, b.value))
    <3>1. /\ quorum \in ListType
          /\ \A j \in quorum : j[1].type = "COMMIT" /\ j[1].value = b.value
      <4>1. \A e \in flat : e[1] \in BodyType
        BY <1>4
      <4>2. QED
        BY <4>1, VotesListed
    <3>2. /\ q_commit' = [q_commit EXCEPT ![p] = quorum]
          /\ UNCHANGED <<prepared, sent>> /\ ChangeRound(p, b.round, rule)
          /\ rule \in Rules /\ round[p] <= b.round /\ b.value \in values'[p]
      BY <2>5, <1>5, <1>6, <1>7 DEF UponQuorumCommits, Rules
    <3> HIDE DEF quorum
    <3>3. QED
      BY <3>1, <3>2, <2>4
  <2>6. CASE rule = "JUSTIFIED_DECIDED" /\ UponJustifiedDecided(p, c[1])
    <3> DEFINE quorum == c[1].justification
    <3>1. /\ quorum \in ListType /\ b.type = "DECIDED"
          /\ \A j \in quorum : j[1].type = "COMMIT" /\ j[1].value = b.value
      BY <2>6, <1>1, <1>6 DEF Carries, b
    <3>2. quorum # {}
      <4>1. Cardinality(Votes(quorum, "COMMIT", b.round, b.value)) >= Quorum
        BY <3>1, <1>2 DEF Justified, JustifiedDecided, b
      <4>2. Votes(quorum, "COMMIT", b.round, b.value) # {}
        BY <4>1, QuorumNotEmpty
      <4>3. QED
        BY <4>2 DEF Votes, OfRound
    <3>3. /\ q_commit' = [q_commit EXCEPT ![p] = quorum]
          /\ UNCHANGED <<prepared, sent>> /\ ChangeRound(p, b.round, rule)
          /\ rule \in Rules /\ b.value \in values'[p]
      BY <2>6, <3>1, <1>7 DEF UponJustifiedDecided, Rules, b
    <3> HIDE DEF quorum
    <3>4. QED
      BY <3>1, <3>2, <3>3, <2>4
  <2>7. CASE rule = "F_PLUS_1_ROUND_CHANGES" /\ UponFPlus1RoundChanges(p, flat)
    <3>1. PICK r \in JumpRounds(p, flat) :
            /\ ChangeRound(p, r, "F_PLUS_1_ROUND_CHANGES")
            /\ Broadcast(RoundChange(p, r, values'[p]))
            /\ UNCHANGED <<prepared, q_commit>>
      BY <2>7 DEF UponFPlus1RoundChanges
    <3>2. r \in Nat \ {0} /\ round[p] <= r
      <4>1. PICK a \in Bodies(flat) : a.round > round[p] /\ r = a.round
        BY DEF JumpRounds
      <4>2. a \in BodyType
        BY <4>1, <1>4 DEF Bodies
      <4>3. QED
        BY <4>1, <4>2, <1>5 DEF BodyType
    <3>3. RoundChange(p, r, values'[p]) \in MessageType /\ Carries(RoundChange(p, r, values'[p]))
      <4>1. \A j \in prepared[p].justification :
              j[1].type = "PREPARE" /\ j[1].value = prepared[p].value /\ j[1].value \in values'[p]
        BY <1>3, <1>8 DEF PeerInv
      <4>2. TypeOK
        BY DEF Inv
      <4>3. QED
        BY <4>1, <4>2, <3>2, <1>1, <1>3, RoundChangeTyped
    <3>4. SentInv' /\ sent \subseteq sent'
      BY <3>1, <3>3, <1>8, BroadcastKeeps
    <3>5. /\ round' = [round EXCEPT ![p] = r]
          /\ \E x \in SUBSET Rules : dedup_rules' = [dedup_rules EXCEPT ![p] = x]
      BY <3>1, <3>2, <1>1, ChangeRoundKeeps DEF Rules
    <3>6. QED
      BY <1>1, <1>3, <3>1, <3>2, <3>4, <3>5, ResultOfRound
  <2>8. CASE rule = "QUORUM_ROUND_CHANGES" /\ UponQuorumRoundChanges(p, flat)
    <3>1. PICK just \in JustifiedQRC(flat, round[p]) :
            Broadcast(Message("PRE_PREPARE", p, round[p], ProposedValue(p, just), just, values'[p]))
      BY <2>8 DEF UponQuorumRoundChanges
    <3> DEFINE v == ProposedValue(p, just)
               m == Message("PRE_PREPARE", p, round[p], v, just, values'[p])
    <3>2. ChangeRound(p, round[p], "QUORUM_ROUND_CHANGES") /\ UNCHANGED <<prepared, q_commit>>
      BY <2>8 DEF UponQuorumRoundChanges
    <3>3. /\ just \in ListType
          /\ \A j \in just : j[1].type \in {"PREPARE", "COMMIT"} => j[1].value = v
          /\ v = Proposal[p] \/ \E e \in flat : e[1].type = "PREPARE" /\ e[1].value = v
      BY <1>4, QRCTyped
    <3>4. v \in values'[p]
      BY <3>3, <1>3, <1>4, <1>8 DEF PeerInv
    <3> HIDE DEF v
    <3>5. m \in MessageType /\ Carries(m)
      <4>1. "PRE_PREPARE" \in Types \ {"ROUND_CHANGE"} /\ "PRE_PREPARE" # "DECIDED"
            /\ v \in Value \cup {NoValue}
        BY <3>4, <1>3 DEF Types
      <4>2. QED
        BY <4>1, <3>3, <3>4, <1>1, <1>3, <1>5, MessageTyped
    <3>6. Broadcast(m)
      BY <3>1 DEF v
    <3> HIDE DEF m
    <3>7. SentInv' /\ sent \subseteq sent'
      BY <3>5, <3>6, <1>8, BroadcastKeeps
    <3>8. /\ round' = [round EXCEPT ![p] = round[p]]
          /\ \E x \in SUBSET Rules : dedup_rules' = [dedup_rules EXCEPT ![p] = x]
      BY <3>2, <1>1, <1>5, ChangeRoundKeeps DEF Rules
    <3>9. QED
      BY <1>1, <1>3, <1>5, <3>2, <3>7, <3>8, ResultOfRound
  <2>9. QED
    BY <2>1, <2>2, <2>3, <2>5, <2>6, <2>7, <2>8 DEF Handle, b, flat, rule
<1>10. c[1].values \subseteq vs
  BY DEF vs
<1>11. decided_resends' \in [Peer -> [Peer -> [round : Nat, count : 0 .. MaxDecidedResends]]]
       /\ duplicates' = duplicates
  BY <1>2, InvFacts, <1>1 DEF TypeOK
<1>12. QED
  BY <1>1, <1>2, <1>9, <1>10, <1>11, ResultKeeps

-----------------------------------------------------------------------------
(* A step that changes no instance keeps the invariant *)
LEMMA InstancesSame ==
  ASSUME Inv, UNCHANGED <<round, prepared, q_commit, buffer, dedup_rules>>,
         SentInv', sent \subseteq sent',
         values' \in [Peer -> SUBSET Value], \A p \in Peer : values[p] \subseteq values'[p],
         decided_resends' \in [Peer -> [Peer -> [round : Nat, count : 0 .. MaxDecidedResends]]],
         duplicates' \in 0 .. MaxDuplicates
  PROVE  Inv'
<1>1. TypeOK'
  <2>1. buffer \in [Peer -> SUBSET sent']
    BY DEF Inv, TypeOK
  <2>2. buffer' \in [Peer -> SUBSET sent']
    BY <2>1
  <2>3. QED
    BY <2>2 DEF Inv, TypeOK, SentInv
<1>2. ASSUME NEW p \in Peer PROVE PeerInv(p)'
  BY InvFacts DEF PeerInv, Decided
<1>3. QED
  BY <1>1, <1>2 DEF Inv

(* handle_message of a decided instance *)
LEMMA ResendDecidedInv ==
  ASSUME Inv, NEW p \in Up, NEW c \in sent, ResendDecided(p, c)
  PROVE  Inv' /\ UNCHANGED <<round, prepared, q_commit>>
<1> DEFINE b == c[1].msg
<1>1. /\ p \in Peer /\ c[1] \in MessageType /\ b \in BodyType /\ c[1].values \in SUBSET Value
      /\ UNCHANGED <<round, prepared, q_commit, buffer, dedup_rules, duplicates>>
      /\ SentInv /\ PeerInv(p)
  BY EnvironmentAssumption, InvFacts DEF ResendDecided, SentInv, MessageType
<1>2. /\ values' = [values EXCEPT ![p] = @ \cup c[1].values]
      /\ values'[p] = values[p] \cup c[1].values
      /\ values' \in [Peer -> SUBSET Value] /\ \A q \in Peer : values[q] \subseteq values'[q]
  BY <1>1, InvFacts DEF ResendDecided
<1>3. decided_resends' \in [Peer -> [Peer -> [round : Nat, count : 0 .. MaxDecidedResends]]]
  <2>1. /\ decided_resends \in [Peer -> [Peer -> [round : Nat, count : 0 .. MaxDecidedResends]]]
        /\ b.peer \in Peer /\ b.round \in Nat
    BY <1>1 DEF Inv, TypeOK, BodyType
  <2> DEFINE old == decided_resends[p][b.peer]
             new == [round |-> b.round, count |-> old.count + 1]
  <2>2. old.count < MaxDecidedResends /\ old.count \in 0 .. MaxDecidedResends
    BY <2>1, <1>1 DEF ResendDecided, AllowDecidedResend
  <2>3. new \in [round : Nat, count : 0 .. MaxDecidedResends]
    BY <2>1, <2>2, EnvironmentAssumption
  <2>4. decided_resends' = [decided_resends EXCEPT ![p][b.peer] = new]
    BY DEF ResendDecided
  <2> HIDE DEF new, old, b
  <2>5. QED
    BY <2>1, <2>3, <2>4, <1>1
<1>4. SentInv' /\ sent \subseteq sent'
  <2>1. PICK v \in Decision(p) :
          Broadcast(Message("DECIDED", p, round[p], v, q_commit[p], values'[p]))
    BY DEF ResendDecided
  <2> DEFINE m == Message("DECIDED", p, round[p], v, q_commit[p], values'[p])
  <2>2. \A j \in q_commit[p] : j[1].type = "COMMIT" /\ j[1].value = v
    BY <1>1 DEF Decision, PeerInv
  <2>3. v \in values'[p] /\ values'[p] \in SUBSET Value
    <3>1. v \in values[p]
      BY <1>1 DEF Decision, PeerInv
    <3>2. QED
      BY <3>1, <1>1, <1>2
  <2>4. m \in MessageType /\ Carries(m)
    <3>1. round[p] \in Nat \ {0} /\ q_commit[p] \in ListType /\ v \in Value \cup {NoValue}
          /\ "DECIDED" \in Types \ {"ROUND_CHANGE"}
      BY <1>1, <2>3, InvFacts DEF Types
    <3>2. QED
      BY <3>1, <2>2, <2>3, <1>1, MessageTyped
  <2> HIDE DEF m
  <2>5. QED
    BY <2>1, <2>4, <1>1, BroadcastKeeps DEF m
<1>5. duplicates' \in 0 .. MaxDuplicates
  BY <1>1 DEF Inv, TypeOK
<1>6. QED
  BY <1>1, <1>2, <1>3, <1>4, <1>5, InstancesSame

(* handle_message that only takes the values of a message *)
LEMMA IgnoreInv ==
  ASSUME Inv, NEW p \in Up, NEW c \in sent, Ignore(p, c)
  PROVE  Inv' /\ UNCHANGED <<round, prepared, q_commit>>
<1>1. /\ p \in Peer /\ c[1].values \in SUBSET Value
      /\ UNCHANGED <<round, prepared, q_commit, buffer, dedup_rules, decided_resends, sent,
                     duplicates>>
      /\ values' = [values EXCEPT ![p] = @ \cup c[1].values]
  BY EnvironmentAssumption DEF Inv, Ignore, SentInv, MessageType
<1>2. values' \in [Peer -> SUBSET Value] /\ \A q \in Peer : values[q] \subseteq values'[q]
  BY <1>1, InvFacts
<1>3. SentInv' /\ sent \subseteq sent'
  BY <1>1 DEF Inv, SentInv
<1>4. QED
  BY <1>1, <1>2, <1>3, InstancesSame DEF Inv, TypeOK

(* The network: what is delivered again has been broadcast *)
LEMMA DuplicateInv ==
  ASSUME Inv, NEW c \in sent, Duplicate(c)
  PROVE  Inv' /\ UNCHANGED <<round, prepared, q_commit>>
<1>1. /\ UNCHANGED <<round, prepared, q_commit, buffer, dedup_rules, decided_resends, values>>
      /\ duplicates' \in 0 .. MaxDuplicates
      /\ Broadcast(c[1]) /\ c[1] \in MessageType /\ Carries(c[1]) /\ SentInv
  BY EnvironmentAssumption DEF Inv, TypeOK, SentInv, Duplicate
<1>2. SentInv' /\ sent \subseteq sent'
  BY <1>1, BroadcastKeeps
<1>3. QED
  BY <1>1, <1>2, InstancesSame DEF Inv, TypeOK

(* Nothing has been sent, stored or prepared at first *)
LEMMA InitInv == Init => Inv
<1> SUFFICES ASSUME Init PROVE Inv
  OBVIOUS
<1>1. /\ 0 \in Nat /\ 1 \in Nat \ {0} /\ 0 \in 0 .. MaxDecidedResends /\ 0 \in 0 .. MaxDuplicates
      /\ {} \in ListType
  BY EnvironmentAssumption DEF ListType
<1>2. TypeOK
  BY <1>1, ClusterAssumption DEF Init, TypeOK
<1>3. SentInv
  BY FS_EmptySet DEF Init, SentInv
<1>4. \A p \in Peer : PeerInv(p)
  BY ClusterAssumption DEF Init, PeerInv, Decided
<1>5. QED
  BY <1>2, <1>3, <1>4 DEF Inv

(* Every step keeps the invariant, and either changes no instance or is the result of one
   that has not decided *)
LEMMA NextInv ==
  ASSUME Inv, [Next]_vars
  PROVE  /\ Inv'
         /\ \/ UNCHANGED <<round, prepared, q_commit>>
            \/ \E p \in Peer : Result(p) /\ ~Decided(p)
<1>1. CASE UNCHANGED vars
  BY <1>1 DEF vars, Inv, TypeOK, SentInv, PeerInv, Decided
<1>2. CASE Next
  <2>1. Up \subseteq Peer
    BY EnvironmentAssumption
  <2>2. QED
    BY <1>2, <2>1, StartInv, TimeoutInv, HandleInv, ResendDecidedInv, IgnoreInv, DuplicateInv
    DEF Next
<1>3. QED
  BY <1>1, <1>2

(* The invariant holds throughout *)
LEMMA Invariance == Spec => []Inv
<1>1. Init => Inv
  BY InitInv
<1>2. Inv /\ [Next]_vars => Inv'
  BY NextInv
<1>3. QED
  BY <1>1, <1>2, PTL DEF Spec

(* The fields of the instances and transports, and all messages, keep their types, for every
   cluster and whatever the bound on rounds *)
THEOREM TypeCorrect == Spec => []TypeOK
<1>1. Inv => TypeOK
  BY DEF Inv
<1>2. QED
  BY <1>1, Invariance, PTL

(* A peer can resolve what it has decided: every message, a ROUND_CHANGE or DECIDED with
   nested votes included, carries the values its votes are for (transport.py) *)
THEOREM DecisionsResolvable == Spec => []DecisionResolvable
<1>1. Inv => DecisionResolvable
  BY DEF Inv, PeerInv, DecisionResolvable, Decision
<1>2. QED
  BY <1>1, Invariance, PTL

(* A decision is not taken back, and rounds and prepared rounds only grow until it is made *)
THEOREM OnlyForwardHolds == Spec => OnlyForward
<1>1. ASSUME Inv, [Next]_vars PROVE [Forward]_vars
  <2> SUFFICES ASSUME NEW p \in Peer
               PROVE  /\ Decided(p) => q_commit'[p] = q_commit[p] /\ round'[p] = round[p]
                      /\ ~Decided(p)' => /\ round'[p] >= round[p]
                                         /\ prepared'[p].round >= prepared[p].round
    BY DEF Forward
  <2>1. round[p] \in Nat /\ prepared[p].round \in Nat
    BY <1>1, InvFacts DEF PreparedType
  <2>2. CASE UNCHANGED <<round, prepared, q_commit>>
    BY <2>1, <2>2
  <2>3. ASSUME NEW q \in Peer, Result(q), ~Decided(q)
        PROVE  /\ Decided(p) => q_commit'[p] = q_commit[p] /\ round'[p] = round[p]
               /\ ~Decided(p)' => /\ round'[p] >= round[p]
                                  /\ prepared'[p].round >= prepared[p].round
    <3>1. CASE p = q
      <4>1. ~Decided(p)' => round[p] <= round'[p] /\ prepared[p].round <= prepared'[p].round
        BY <2>3, <3>1 DEF Result
      <4>2. round'[p] \in Nat /\ prepared'[p].round \in Nat
        BY <1>1, <2>3, <3>1, InvFacts DEF Result, PreparedType
      <4>3. QED
        BY <4>1, <4>2, <2>1, <2>3, <3>1
    <3>2. CASE p # q
      <4>1. round'[p] = round[p] /\ prepared'[p] = prepared[p] /\ q_commit'[p] = q_commit[p]
        BY <1>1, <2>3, <3>2, InvFacts DEF Result
      <4>2. QED
        BY <4>1, <2>1
    <3>3. QED
      BY <3>1, <3>2
  <2>4. QED
    BY <1>1, <2>2, <2>3, NextInv
<1>2. QED
  BY <1>1, Invariance, PTL DEF Spec, OnlyForward

-----------------------------------------------------------------------------
(* The peers that have voted with a message of type t for value v in round r *)
VotersFor(t, r, v) ==
  {b.peer : b \in {a \in SentBodies : a.type = t /\ a.round = r /\ a.value = v}}

(* They are a quorum *)
VoteQuorum(t, r, v) == Cardinality(VotersFor(t, r, v)) >= Quorum

(* What is sent for a round is for one that may be reached, a proposal comes from the leader,
   and only a ROUND_CHANGE, of a round after the first, tells what was prepared *)
Sane(b) ==
  /\ b.round <= MaxRound
  /\ b.type = "PRE_PREPARE" => IsLeader(b.round, b.peer)
  /\ b.type = "ROUND_CHANGE" => b.value = NoValue /\ b.round > 1
  /\ b.type # "ROUND_CHANGE" =>
       b.value \in Value /\ b.prepared_round = 0 /\ b.prepared_value = NoValue

(* Elements of a list have been sent, and votes among them repeat those of a quorum *)
Known(list) ==
  \A j \in list :
    /\ j[1] \in SentBodies
    /\ j[1].type \in {"PREPARE", "COMMIT"} => VoteQuorum(j[1].type, j[1].round, j[1].value)

(* What a message says, itself and by its justification: ROUND_CHANGEs are nested in a
   proposal for their round only *)
Proper(m) ==
  /\ Sane(m.msg)
  /\ Known(m.justification)
  /\ \A j \in m.justification : j[1].type = "ROUND_CHANGE" =>
       m.msg.type = "PRE_PREPARE" /\ m.msg.round = j[1].round

(* What an undecided peer p remembers of a message b it has sent, so that it does not send
   another one of the same round: the rule that made it send it, or, for a PREPARE, the
   proposal it has stored *)
Remembered(p, b) ==
  /\ b.type = "PRE_PREPARE" =>
       \/ b.round = 1 \/ b.round < round[p]
       \/ b.round = round[p] /\ "QUORUM_ROUND_CHANGES" \in dedup_rules[p]
  /\ b.type = "PREPARE" =>
       /\ b.round <= round[p]
       /\ \E c \in buffer[p] : c[1].msg.type = "PRE_PREPARE" /\ c[1].msg.round = b.round
  /\ b.type = "COMMIT" =>
       \/ b.round < round[p]
       \/ b.round = round[p] /\ "QUORUM_PREPARES" \in dedup_rules[p]
  /\ b.type = "ROUND_CHANGE" => b.round <= round[p]

(* Two messages a peer sends in its turn for one round *)
SameVote(b, d) ==
  b.type # "DECIDED" /\ b.type = d.type /\ b.peer = d.peer /\ b.round = d.round

(* There are no two of them *)
Unique == \A c, d \in sent : SameVote(c[1].msg, d[1].msg) => c = d

(* The strengthening of Inv that holds without duplicates *)
VotesInv ==
  /\ Unique
  /\ \A c \in sent :
       /\ Proper(c[1])
       /\ ~Decided(c[1].msg.peer) => Remembered(c[1].msg.peer, c[1].msg)
  /\ \A p \in Peer :
       round[p] <= MaxRound /\ Known(prepared[p].justification) /\ Known(q_commit[p])

-----------------------------------------------------------------------------
(* Peers are finitely many *)
LEMMA VotersFinite ==
  ASSUME SentInv, NEW t, NEW r, NEW v
  PROVE  IsFiniteSet(VotersFor(t, r, v)) /\ Cardinality(VotersFor(t, r, v)) \in Nat
<1>1. IsFiniteSet(Peer)
  BY FS_Interval, ClusterAssumption DEF Peer
<1>2. VotersFor(t, r, v) \subseteq Peer
  BY DEF VotersFor, SentBodies, SentInv, MessageType, BodyType
<1>3. QED
  BY <1>1, <1>2, FS_Subset, FS_CardinalityType

(* Once there, a quorum stays: no copy leaves the network *)
LEMMA VoteQuorumStays ==
  ASSUME SentInv, SentInv', sent \subseteq sent', NEW t, NEW r, NEW v, VoteQuorum(t, r, v)
  PROVE  VoteQuorum(t, r, v)'
<1>1. VotersFor(t, r, v) \subseteq VotersFor(t, r, v)'
  BY DEF VotersFor, SentBodies
<1>2. IsFiniteSet(VotersFor(t, r, v)') /\ Cardinality(VotersFor(t, r, v)') \in Nat
  <2>1. (IsFiniteSet(VotersFor(t, r, v)) /\ Cardinality(VotersFor(t, r, v)) \in Nat)'
    BY VotersFinite, PTL
  <2>2. QED
    BY <2>1
<1>3. Cardinality(VotersFor(t, r, v)) <= Cardinality(VotersFor(t, r, v)')
  BY <1>1, <1>2, FS_Subset
<1>4. Cardinality(VotersFor(t, r, v)) \in Nat
  BY VotersFinite
<1>5. QED
  BY <1>2, <1>3, <1>4, QuorumPositive DEF VoteQuorum

(* What is known remains known *)
LEMMA KnownStays ==
  ASSUME SentInv, SentInv', sent \subseteq sent', NEW list, Known(list)
  PROVE  \A j \in list :
           /\ j[1] \in SentBodies'
           /\ j[1].type \in {"PREPARE", "COMMIT"} => VoteQuorum(j[1].type, j[1].round, j[1].value)'
<1>1. SentBodies \subseteq SentBodies'
  BY DEF SentBodies
<1>2. QED
  BY <1>1, VoteQuorumStays DEF Known

(* The bodies in a buffer have been sent, and so they are sane *)
LEMMA FlattenSent ==
  ASSUME VotesInv, NEW buf \in SUBSET sent, NEW e \in Flatten(buf)
  PROVE  e[1] \in SentBodies /\ Sane(e[1])
<1>1. PICK c \in buf : e[1] = c[1].msg \/ \E j \in c[1].justification : e[1] = j[1]
  BY FlattenFinds
<1>2. e[1] \in SentBodies
  BY <1>1 DEF VotesInv, Proper, Known, SentBodies
<1>3. QED
  BY <1>2 DEF VotesInv, Proper, SentBodies

(* A quorum of entries for one vote in a buffer is a quorum of peers: copies of one peer's
   vote are nested in what proves a quorum already *)
LEMMA VotesOfQuorum ==
  ASSUME SentInv, VotesInv, NEW buf \in SUBSET sent, NEW t \in {"PREPARE", "COMMIT"},
         NEW r, NEW v, Cardinality(Votes(Flatten(buf), t, r, v)) >= Quorum
  PROVE  VoteQuorum(t, r, v)
<1> DEFINE votes == Votes(Flatten(buf), t, r, v)
           f == [e \in votes |-> e[1].peer]
<1>1. \A e \in votes : /\ e \in Flatten(buf)
                       /\ e[1].type = t /\ e[1].round = r /\ e[1].value = v
  BY DEF Votes, OfRound
<1>2. CASE \E e \in votes, c \in buf : \E j \in c[1].justification : e[1] = j[1]
  BY <1>1, <1>2 DEF VotesInv, Proper, Known
<1>3. CASE ~\E e \in votes, c \in buf : \E j \in c[1].justification : e[1] = j[1]
  <2>1. \A e \in votes : \E c \in buf : e = <<c[1].msg, <<c>>>>
    <3> SUFFICES ASSUME NEW e \in votes PROVE \E c \in buf : e = <<c[1].msg, <<c>>>>
      OBVIOUS
    <3>1. \/ e \in {<<c[1].msg, <<c>>>> : c \in buf}
          \/ \E c \in buf : e \in {<<j[1], <<c, j>>>> : j \in c[1].justification}
      BY <1>1 DEF Flatten
    <3>2. \A c \in buf : e \notin {<<j[1], <<c, j>>>> : j \in c[1].justification}
      BY <1>3
    <3>3. QED
      BY <3>1, <3>2
  <2>2. \A e \in votes : e[1].peer \in VotersFor(t, r, v)
    BY <1>1, <2>1 DEF VotersFor, SentBodies
  <2>3. \A e, d \in votes : e[1].peer = d[1].peer => e = d
    BY <1>1, <2>1 DEF VotesInv, Unique, SameVote
  <2>4. f \in Injection(votes, VotersFor(t, r, v))
    <3>1. f \in [votes -> VotersFor(t, r, v)]
      BY <2>2
    <3>2. IsInjective(f)
      BY <2>3 DEF IsInjective
    <3>3. QED
      BY <3>1, <3>2 DEF Injection
  <2>5. Cardinality(votes) <= Cardinality(VotersFor(t, r, v)) /\ IsFiniteSet(votes)
    BY <2>4, VotersFinite, FS_Injection
  <2>6. Cardinality(votes) \in Nat /\ Cardinality(VotersFor(t, r, v)) \in Nat
    BY <2>5, FS_CardinalityType, VotersFinite
  <2>7. QED
    BY <2>5, <2>6, QuorumPositive DEF VoteQuorum
<1>4. QED
  BY <1>2, <1>3

-----------------------------------------------------------------------------
(* A step leaves the instances other than p alone *)
OthersSame(p) ==
  \A q \in Peer \ {p} :
    UNCHANGED <<round[q], prepared[q], q_commit[q], buffer[q], dedup_rules[q]>>

(* An undecided p stores more, and forgets rules only when it enters a later round *)
Onward(p) ==
  ~Decided(p)' => /\ ~Decided(p) /\ buffer[p] \subseteq buffer'[p]
                  /\ \/ round[p] < round'[p]
                     \/ round[p] = round'[p] /\ dedup_rules[p] \subseteq dedup_rules'[p]

(* A step of p that only adds to what it knows, and sends at most one message, in its turn *)
VoteStep(p) ==
  /\ OthersSame(p) /\ Onward(p)
  /\ round'[p] <= MaxRound
  /\ prepared'[p] = prepared[p] \/ Known(prepared'[p].justification)
  /\ q_commit'[p] = q_commit[p] \/ Known(q_commit'[p])
  /\ \/ sent' = sent
     \/ \E m \in MessageType, k \in Nat :
          /\ sent' = sent \cup {<<m, k>>} /\ m.msg.peer = p /\ Proper(m)
          /\ \A c \in sent : ~SameVote(m.msg, c[1].msg)
          /\ ~Decided(p)' => Remembered(p, m.msg)'

(* What p has sent it remembers until it decides *)
LEMMA MemoryStays ==
  ASSUME Inv, Inv', NEW p \in Peer, NEW b \in BodyType, Remembered(p, b),
         buffer[p] \subseteq buffer'[p],
         \/ round[p] < round'[p]
         \/ round[p] = round'[p] /\ dedup_rules[p] \subseteq dedup_rules'[p]
  PROVE  Remembered(p, b)'
<1>1. /\ round[p] \in Nat /\ b.round \in Nat /\ round'[p] \in Nat
  BY DEF Inv, TypeOK, BodyType
<1>2. QED
  BY <1>1 DEF Remembered

(* Such a step keeps the invariant *)
LEMMA VoteStepKeeps ==
  ASSUME Inv, Inv', VotesInv, NEW p \in Peer, VoteStep(p)
  PROVE  VotesInv'
<1>1. SentInv /\ SentInv' /\ sent \subseteq sent'
  BY DEF VoteStep, Inv
<1>2. \A list : Known(list) =>
        \A j \in list :
           /\ j[1] \in SentBodies'
           /\ j[1].type \in {"PREPARE", "COMMIT"} => VoteQuorum(j[1].type, j[1].round, j[1].value)'
  BY <1>1, KnownStays
<1>3. \A m : Proper(m) => Proper(m)'
  BY <1>2 DEF Proper, Known, Sane
<1>4. \A q \in Peer : round'[q] <= MaxRound
  BY DEF VoteStep, OthersSame, VotesInv
<1>5. \A q \in Peer : Known(prepared[q].justification)' /\ Known(q_commit[q])'
  <2> SUFFICES ASSUME NEW q \in Peer
               PROVE  Known(prepared[q].justification)' /\ Known(q_commit[q])'
    OBVIOUS
  <2>1. Known(prepared'[q].justification) /\ Known(q_commit'[q])
    BY DEF VoteStep, OthersSame, VotesInv
  <2>2. QED
    BY <2>1, <1>2 DEF Known
<1>6. \A c \in sent : ~Decided(c[1].msg.peer)' => Remembered(c[1].msg.peer, c[1].msg)'
  <2> SUFFICES ASSUME NEW c \in sent, ~Decided(c[1].msg.peer)'
               PROVE  Remembered(c[1].msg.peer, c[1].msg)'
    OBVIOUS
  <2> DEFINE q == c[1].msg.peer
             b == c[1].msg
  <2>1. q \in Peer /\ b \in BodyType
    BY <1>1 DEF SentInv, MessageType, BodyType
  <2>2. /\ ~Decided(q) /\ buffer[q] \subseteq buffer'[q]
        /\ \/ round[q] < round'[q]
           \/ round[q] = round'[q] /\ dedup_rules[q] \subseteq dedup_rules'[q]
    <3>1. CASE q = p
      BY <3>1 DEF VoteStep, Onward
    <3>2. CASE q # p
      BY <2>1, <3>2 DEF VoteStep, OthersSame, Decided
    <3>3. QED
      BY <3>1, <3>2
  <2>3. Remembered(q, b)
    BY <2>2 DEF VotesInv
  <2> HIDE DEF q, b
  <2>4. Remembered(q, b)'
    BY <2>1, <2>2, <2>3, MemoryStays
  <2>5. QED
    BY <2>4 DEF q, b
<1>7. CASE sent' = sent
  <2>1. Unique'
    BY <1>7 DEF Unique, VotesInv
  <2>2. \A c \in sent' : Proper(c[1])'
    BY <1>3, <1>7 DEF VotesInv
  <2>3. QED
    BY <1>4, <1>5, <1>6, <1>7, <2>1, <2>2 DEF VotesInv
<1>8. ASSUME NEW m \in MessageType, NEW k \in Nat,
             sent' = sent \cup {<<m, k>>}, m.msg.peer = p, Proper(m),
             \A c \in sent : ~SameVote(m.msg, c[1].msg),
             ~Decided(p)' => Remembered(p, m.msg)'
      PROVE  VotesInv'
  <2> DEFINE n == <<m, k>>
  <2>1. n[1] = m /\ sent' = sent \cup {n}
    BY <1>8
  <2> HIDE DEF n
  <2>2. \A c \in sent : ~SameVote(c[1].msg, m.msg)
    BY <1>8 DEF SameVote
  <2>3. Unique'
    BY <2>1, <2>2, <1>8 DEF Unique, VotesInv
  <2>4. \A c \in sent' : Proper(c[1])'
    BY <1>3, <1>8, <2>1 DEF VotesInv
  <2>5. \A c \in sent' : ~Decided(c[1].msg.peer)' => Remembered(c[1].msg.peer, c[1].msg)'
    BY <1>6, <1>8, <2>1
  <2>6. QED
    BY <1>4, <1>5, <2>3, <2>4, <2>5 DEF VotesInv
<1>9. QED
  BY <1>7, <1>8 DEF VoteStep

-----------------------------------------------------------------------------
(* The messages the abstract protocol sees *)
AbstractMsgs == {b \in SentBodies : b.type # "DECIDED"}

(* The parameters of the abstract protocol are those of the instances *)
LEMMA SameParameters ==
  /\ Abstract!Peer = Peer /\ Abstract!Quorum = Quorum
  /\ \A r, p : Abstract!IsLeader(r, p) = IsLeader(r, p)
  /\ \A S : Abstract!Cardinality(S) = Cardinality(S)
<1>1. Abstract!Peer = Peer /\ Abstract!Quorum = Quorum
  BY DEF Abstract!Peer, Peer, Abstract!Quorum, Quorum
<1>2. \A r, p : Abstract!IsLeader(r, p) = IsLeader(r, p)
  BY DEF Abstract!IsLeader, IsLeader
<1>3. \A S : Abstract!Cardinality(S) = Cardinality(S)
  BY DEF Abstract!Cardinality, Cardinality
<1>4. QED
  BY <1>1, <1>2, <1>3

(* An undecided instance is an active peer *)
LEMMA UndecidedActive ==
  ASSUME NEW p \in Peer, ~Decided(p)
  PROVE  Abstract!Active(p)
BY DEF Abstract!Active

(* The votes of the abstract protocol are those of the instances *)
LEMMA SameVotes ==
  ASSUME SentInv, VotesInv, NEW b \in SentBodies, b.type \notin {"ROUND_CHANGE", "DECIDED"}
  PROVE  /\ b = Abstract!VoteFor(b.type, b.peer, b.round, b.value)
         /\ b.peer \in Peer /\ b.round \in 1 .. MaxRound /\ b.value \in Value
         /\ Abstract!VoteFor(b.type, b.peer, b.round, b.value) \in AbstractMsgs
<1>1. b \in BodyType /\ Sane(b)
  BY DEF SentInv, SentBodies, MessageType, VotesInv, Proper
<1>2. b = Abstract!VoteFor(b.type, b.peer, b.round, b.value)
  BY <1>1 DEF BodyType, Sane, Abstract!VoteFor
<1>3. b.peer \in Peer /\ b.round \in 1 .. MaxRound /\ b.value \in Value
  BY <1>1, EnvironmentAssumption DEF BodyType, Sane
<1>4. QED
  BY <1>2, <1>3 DEF AbstractMsgs

(* So are their quorums *)
LEMMA SameQuorums ==
  ASSUME SentInv, VotesInv, NEW t \in {"PREPARE", "COMMIT"}, NEW r, NEW v, VoteQuorum(t, r, v)
  PROVE  /\ r \in 1 .. MaxRound /\ v \in Value
         /\ Abstract!Cardinality(Abstract!Voters(t, r, v)) >= Abstract!Quorum
<1>1. \A p \in VotersFor(t, r, v) :
        /\ p \in Peer /\ r \in 1 .. MaxRound /\ v \in Value
        /\ Abstract!VoteFor(t, p, r, v) \in AbstractMsgs
  BY SameVotes DEF VotersFor
<1>2. VotersFor(t, r, v) # {}
  BY QuorumNotEmpty DEF VoteQuorum
<1>3. VotersFor(t, r, v) \subseteq Abstract!Voters(t, r, v)
  BY <1>1, SameParameters DEF Abstract!Voters, AbstractMsgs
<1>4. Abstract!Voters(t, r, v) \subseteq VotersFor(t, r, v)
  BY DEF Abstract!Voters, Abstract!VoteFor, VotersFor
<1>5. QED
  BY <1>1, <1>2, <1>3, <1>4, SameParameters DEF VoteQuorum

(* What the abstract protocol sees of a message that is sent *)
LEMMA MsgsAfter ==
  ASSUME NEW m, NEW k, sent' = sent \cup {<<m, k>>}
  PROVE  AbstractMsgs' = AbstractMsgs \cup (IF m.msg.type = "DECIDED" THEN {} ELSE {m.msg})
<1> DEFINE n == <<m, k>>
<1>1. n[1] = m /\ sent' = sent \cup {n}
  OBVIOUS
<1> HIDE DEF n
<1>2. SentBodies' = SentBodies \cup {m.msg}
  BY <1>1 DEF SentBodies
<1>3. QED
  BY <1>2 DEF AbstractMsgs

(* Steps that the abstract protocol does not see *)
LEMMA Stutters ==
  ASSUME UNCHANGED <<round, prepared, q_commit>>, AbstractMsgs' = AbstractMsgs
  PROVE  UNCHANGED Abstract!vars
BY DEF Abstract!vars, AbstractMsgs, Decided, Decision

(* A leader proposes *)
LEMMA Proposes ==
  ASSUME NEW p \in Peer, ~Decided(p), UNCHANGED <<round, prepared, q_commit>>,
         round[p] \in 1 .. MaxRound, IsLeader(round[p], p), NEW v \in Value,
         NEW m, NEW k, sent' = sent \cup {<<m, k>>},
         m.msg = Body("PRE_PREPARE", p, round[p], v, 0, NoValue),
         \A c \in sent : ~SameVote(m.msg, c[1].msg),
         \/ round[p] = 1 /\ v = Proposal[p]
         \/ \E S \in SUBSET {b \in SentBodies : b.type = "ROUND_CHANGE" /\ b.round = round[p]} :
              /\ Cardinality({b.peer : b \in S}) >= Quorum
              /\ \/ v = Proposal[p] /\ \A b \in S : b.prepared_round = 0
                 \/ \E h \in S : /\ h.prepared_round > 0
                                 /\ v = h.prepared_value
                                 /\ \A b \in S : b.prepared_round <= h.prepared_round
  PROVE  Abstract!Next
<1>1. AbstractMsgs' = AbstractMsgs \cup {Abstract!VoteFor("PRE_PREPARE", p, round[p], v)}
  <2>1. m.msg = Abstract!VoteFor("PRE_PREPARE", p, round[p], v) /\ m.msg.type # "DECIDED"
    BY DEF Body, Abstract!VoteFor
  <2>2. QED
    BY <2>1, MsgsAfter
<1>2. \A b \in AbstractMsgs : ~(b.type = "PRE_PREPARE" /\ b.peer = p /\ b.round = round[p])
  BY DEF AbstractMsgs, SentBodies, SameVote, Body
<1>3. \/ round[p] = 1 /\ v = Proposal[p]
      \/ \E S \in Abstract!QuorumRC(round[p]) :
          \/ v = Proposal[p] /\ \A b \in S : b.prepared_round = 0
          \/ \E h \in S : /\ h.prepared_round > 0
                          /\ v = h.prepared_value
                          /\ \A b \in S : b.prepared_round <= h.prepared_round
  <2>1. ASSUME NEW S \in SUBSET {b \in SentBodies : b.type = "ROUND_CHANGE" /\ b.round = round[p]},
               Cardinality({b.peer : b \in S}) >= Quorum
        PROVE  S \in Abstract!QuorumRC(round[p])
    BY <2>1, SameParameters DEF Abstract!QuorumRC
  <2>2. QED
    BY <2>1
<1>4. UNCHANGED <<round,
                  [q \in Peer |-> [round |-> prepared[q].round, value |-> prepared[q].value]],
                  [q \in Peer |-> IF Decided(q) THEN CHOOSE w \in Decision(q) : TRUE ELSE NoValue]>>
  BY DEF Decided, Decision
<1>5. Abstract!PrePrepare(p, round[p], v)
  BY <1>1, <1>2, <1>3, <1>4, SameParameters, UndecidedActive DEF Abstract!PrePrepare, AbstractMsgs
<1>6. QED
  BY <1>5, SameParameters DEF Abstract!Next

(* A peer follows a proposal *)
LEMMA Prepares ==
  ASSUME SentInv, VotesInv, NEW p \in Peer, ~Decided(p), UNCHANGED <<prepared, q_commit>>,
         NEW c \in sent, c[1].msg.type = "PRE_PREPARE", round[p] <= c[1].msg.round,
         round' = [round EXCEPT ![p] = c[1].msg.round],
         NEW m, NEW k, sent' = sent \cup {<<m, k>>},
         m.msg = Body("PREPARE", p, c[1].msg.round, c[1].msg.value, 0, NoValue)
  PROVE  Abstract!Next
<1> DEFINE r == c[1].msg.round
           v == c[1].msg.value
           q == c[1].msg.peer
<1>1. AbstractMsgs' = AbstractMsgs \cup {Abstract!VoteFor("PREPARE", p, r, v)}
  <2>1. m.msg = Abstract!VoteFor("PREPARE", p, r, v) /\ m.msg.type # "DECIDED"
    BY DEF Body, Abstract!VoteFor
  <2>2. QED
    BY <2>1, MsgsAfter
<1>2. /\ q \in Peer /\ r \in 1 .. MaxRound /\ v \in Value
      /\ Abstract!VoteFor("PRE_PREPARE", q, r, v) \in AbstractMsgs
  <2>1. c[1].msg \in SentBodies
    BY DEF SentBodies
  <2>2. QED
    BY <2>1, SameVotes
<1>3. UNCHANGED <<[o \in Peer |-> [round |-> prepared[o].round, value |-> prepared[o].value]],
                  [o \in Peer |-> IF Decided(o) THEN CHOOSE w \in Decision(o) : TRUE ELSE NoValue]>>
  BY DEF Decided, Decision
<1>4. Abstract!Prepare(p, r, v)
  <2>1. r >= round[p] /\ round' = [round EXCEPT ![p] = r]
    OBVIOUS
  <2> HIDE DEF r, v, q
  <2>2. QED
    BY <1>1, <1>2, <1>3, <2>1, SameParameters, UndecidedActive DEF Abstract!Prepare, AbstractMsgs
<1> HIDE DEF r, v, q
<1>5. QED
  BY <1>2, <1>4, SameParameters DEF Abstract!Next

(* A peer commits to what a quorum has prepared *)
LEMMA Commits ==
  ASSUME SentInv, VotesInv, NEW p \in Peer, ~Decided(p), UNCHANGED <<round, q_commit>>,
         NEW v, VoteQuorum("PREPARE", round[p], v), prepared = [q \in Peer |-> prepared[q]],
         NEW just,
         prepared' = [prepared EXCEPT ![p] = [round |-> round[p], value |-> v,
                                              justification |-> just]],
         NEW m, NEW k, sent' = sent \cup {<<m, k>>},
         m.msg = Body("COMMIT", p, round[p], v, 0, NoValue)
  PROVE  Abstract!Next
<1>1. AbstractMsgs' = AbstractMsgs \cup {Abstract!VoteFor("COMMIT", p, round[p], v)}
  <2>1. m.msg = Abstract!VoteFor("COMMIT", p, round[p], v) /\ m.msg.type # "DECIDED"
    BY DEF Body, Abstract!VoteFor
  <2>2. QED
    BY <2>1, MsgsAfter
<1>2. /\ v \in Value
      /\ Abstract!Cardinality(Abstract!Voters("PREPARE", round[p], v)) >= Abstract!Quorum
  BY SameQuorums
<1>3. UNCHANGED [o \in Peer |-> IF Decided(o) THEN CHOOSE w \in Decision(o) : TRUE ELSE NoValue]
  BY DEF Decided, Decision
<1>4. [o \in Peer |-> [round |-> prepared[o].round, value |-> prepared[o].value]]' =
        [[o \in Peer |-> [round |-> prepared[o].round, value |-> prepared[o].value]]
           EXCEPT ![p] = [round |-> round[p], value |-> v]]
  <2>1. prepared'[p] = [round |-> round[p], value |-> v, justification |-> just]
    OBVIOUS
  <2>2. \A o \in Peer \ {p} : prepared'[o] = prepared[o]
    OBVIOUS
  <2>3. QED
    BY <2>1, <2>2
<1>5. Abstract!Commit(p, v)
  BY <1>1, <1>2, <1>3, <1>4, SameParameters, UndecidedActive DEF Abstract!Commit, AbstractMsgs
<1>6. QED
  BY <1>2, <1>5, SameParameters DEF Abstract!Next

(* A peer gives up its round *)
LEMMA GivesUp ==
  ASSUME NEW p \in Peer, ~Decided(p), UNCHANGED <<prepared, q_commit>>,
         NEW r \in 1 .. MaxRound, r > round[p], round' = [round EXCEPT ![p] = r],
         NEW m, NEW k, sent' = sent \cup {<<m, k>>},
         m.msg = Body("ROUND_CHANGE", p, r, NoValue, prepared[p].round, prepared[p].value)
  PROVE  Abstract!Next
<1>1. AbstractMsgs' = AbstractMsgs \cup {Abstract!ChangeTo(p, r)}
  <2>1. m.msg = Abstract!ChangeTo(p, r) /\ m.msg.type # "DECIDED"
    BY DEF Body, Abstract!ChangeTo
  <2>2. QED
    BY <2>1, MsgsAfter
<1>2. UNCHANGED <<[o \in Peer |-> [round |-> prepared[o].round, value |-> prepared[o].value]],
                  [o \in Peer |-> IF Decided(o) THEN CHOOSE w \in Decision(o) : TRUE ELSE NoValue]>>
  BY DEF Decided, Decision
<1>3. Abstract!GiveUp(p, r)
  BY <1>1, <1>2, SameParameters, UndecidedActive DEF Abstract!GiveUp, AbstractMsgs
<1>4. QED
  BY <1>3, SameParameters DEF Abstract!Next

(* A peer decides on what a quorum has committed to *)
LEMMA Decides ==
  ASSUME SentInv, VotesInv, NEW p \in Peer, ~Decided(p), UNCHANGED <<prepared, sent>>,
         NEW r, NEW v, VoteQuorum("COMMIT", r, v), round' = [round EXCEPT ![p] = r],
         q_commit = [q \in Peer |-> q_commit[q]],
         NEW quorum, quorum # {}, \A j \in quorum : j[1].value = v,
         q_commit' = [q_commit EXCEPT ![p] = quorum]
  PROVE  Abstract!Next
<1> DEFINE decision == [o \in Peer |-> IF Decided(o) THEN CHOOSE w \in Decision(o) : TRUE
                                        ELSE NoValue]
<1>1. /\ v \in Value /\ r \in 1 .. MaxRound
      /\ Abstract!Cardinality(Abstract!Voters("COMMIT", r, v)) >= Abstract!Quorum
  BY SameQuorums
<1>2. UNCHANGED <<[o \in Peer |-> [round |-> prepared[o].round, value |-> prepared[o].value]],
                  AbstractMsgs>>
  BY DEF AbstractMsgs, SentBodies
<1>3. decision' = [decision EXCEPT ![p] = v]
  <2>1. Decided(p)' /\ Decision(p)' = {v}
    BY DEF Decided, Decision
  <2> DEFINE Pick(S) == CHOOSE w \in S : TRUE
             dec(o) == IF Decided(o) THEN Pick(Decision(o)) ELSE NoValue
  <2>2. Pick({v}) = v
    OBVIOUS
  <2>3. decision = [o \in Peer |-> dec(o)] /\ decision' = [o \in Peer |-> dec(o)']
    OBVIOUS
  <2> HIDE DEF Pick, decision
  <2>4. dec(p)' = v
    BY <2>1, <2>2
  <2>5. ASSUME NEW o \in Peer \ {p} PROVE dec(o)' = dec(o)
    <3>1. q_commit'[o] = q_commit[o]
      OBVIOUS
    <3>2. Decided(o)' = Decided(o) /\ Decision(o)' = Decision(o)
      BY <3>1 DEF Decided, Decision
    <3>3. QED
      BY <3>2
  <2> HIDE DEF dec
  <2>6. QED
    BY <2>3, <2>4, <2>5
<1>4. Abstract!Decide(p, r, v)
  BY <1>1, <1>2, <1>3, SameParameters, UndecidedActive DEF Abstract!Decide, AbstractMsgs
<1>5. QED
  BY <1>1, <1>4, SameParameters DEF Abstract!Next

-----------------------------------------------------------------------------
(* A broadcast adds one copy of a message to the network *)
LEMMA BroadcastAdds ==
  ASSUME SentInv', NEW m, Broadcast(m)
  PROVE  m \in MessageType /\ \E k \in Nat : sent' = sent \cup {<<m, k>>}
<1> DEFINE k == 1 + Cardinality({c \in sent : c[1] = m})
<1>1. sent' = sent \cup {<<m, k>>}
  BY DEF Broadcast
<1> HIDE DEF k
<1>2. <<m, k>> \in MessageType \X Nat
  BY <1>1 DEF SentInv
<1>3. m \in MessageType /\ k \in Nat
  BY <1>2
<1>4. QED
  BY <1>1, <1>3

(* What a rule does to the instance of p and leaves alone in the others *)
LEMMA RuleFrame ==
  ASSUME Inv, NEW p \in Peer, ~Decided(p), NEW r \in Nat, NEW rule, ChangeRound(p, r, rule),
         \E x : prepared' = [prepared EXCEPT ![p] = x],
         \E y : q_commit' = [q_commit EXCEPT ![p] = y],
         \E C : buffer' = [buffer EXCEPT ![p] = @ \cup C],
         ~Decided(p)' => r >= round[p]
  PROVE  /\ OthersSame(p) /\ Onward(p)
         /\ round'[p] = r /\ (r = round[p] => rule \in dedup_rules'[p])
<1>1. PICK C : buffer' = [buffer EXCEPT ![p] = @ \cup C]
  OBVIOUS
<1>2. /\ round'[p] = r /\ buffer'[p] = buffer[p] \cup C
      /\ dedup_rules'[p] = IF r = round[p] THEN dedup_rules[p] \cup {rule} ELSE {}
  BY <1>1, InvFacts DEF ChangeRound
<1>3. OthersSame(p)
  BY <1>1, InvFacts DEF ChangeRound, OthersSame
<1>4. round[p] \in Nat
  BY InvFacts
<1>5. Onward(p)
  BY <1>2, <1>4 DEF Onward
<1>6. QED
  BY <1>2, <1>3, <1>5

(* No vote like the next one of an undecided peer is on the network *)
LEMMA NothingSent ==
  ASSUME VotesInv, NEW p \in Peer, ~Decided(p), NEW b, b.peer = p,
         \A c \in sent : SameVote(b, c[1].msg) => ~Remembered(p, c[1].msg)
  PROVE  \A c \in sent : ~SameVote(b, c[1].msg)
BY DEF VotesInv, SameVote

(* The first proposal *)
LEMMA StartStep ==
  ASSUME Inv, Inv', VotesInv, NEW p \in Up, Start(p)
  PROVE  VoteStep(p) /\ Abstract!Next
<1>1. /\ p \in Peer /\ ~Decided(p) /\ round[p] = 1 /\ IsLeader(1, p)
      /\ Broadcast(Message("PRE_PREPARE", p, 1, Proposal[p], {}, values[p]))
      /\ OfRound({<<c[1].msg, c>> : c \in sent}, "PRE_PREPARE", 1) = {}
      /\ UNCHANGED <<round, prepared, q_commit, buffer, dedup_rules>>
      /\ SentInv' /\ Proposal[p] \in Value
  BY EnvironmentAssumption, ClusterAssumption, InvFacts DEF Start, Inv
<1>2. PICK m \in MessageType, k \in Nat :
        /\ sent' = sent \cup {<<m, k>>}
        /\ m.msg = Body("PRE_PREPARE", p, 1, Proposal[p], 0, NoValue) /\ m.justification = {}
  BY <1>1, BroadcastAdds DEF Message
<1>3. /\ m.msg.type = "PRE_PREPARE" /\ m.msg.peer = p /\ m.msg.round = 1
      /\ m.msg.value = Proposal[p] /\ m.msg.prepared_round = 0 /\ m.msg.prepared_value = NoValue
  BY <1>2 DEF Body
<1>4. \A c \in sent : ~SameVote(m.msg, c[1].msg)
  <2> SUFFICES ASSUME NEW c \in sent, SameVote(m.msg, c[1].msg) PROVE FALSE
    OBVIOUS
  <2>1. c[1].msg.type = "PRE_PREPARE" /\ c[1].msg.round = 1
    BY <1>3 DEF SameVote
  <2>2. <<c[1].msg, c>> \in OfRound({<<d[1].msg, d>> : d \in sent}, "PRE_PREPARE", 1)
    BY <2>1 DEF OfRound
  <2>3. QED
    BY <2>2, <1>1
<1>5. 1 <= MaxRound /\ 1 \in 1 .. MaxRound
  BY EnvironmentAssumption
<1>6. Proper(m) /\ Remembered(p, m.msg)'
  BY <1>1, <1>2, <1>3, <1>5 DEF Proper, Sane, Known, Remembered
<1>7. VoteStep(p)
  <2>1. ~Decided(p)' => ~Decided(p)
    BY <1>1
  <2>2. QED
    BY <1>1, <1>2, <1>3, <1>4, <1>5, <1>6, <2>1 DEF VoteStep, OthersSame, Onward
<1>8. Abstract!Next
  BY <1>1, <1>2, <1>4, <1>5, Proposes
<1>9. QED
  BY <1>7, <1>8

(* A ROUND_CHANGE, on a timeout or because others have sent theirs *)
LEMMA GiveUpStep ==
  ASSUME Inv, Inv', VotesInv, NEW p \in Peer, ~Decided(p), NEW r \in 1 .. MaxRound, r > round[p],
         NEW rule, ChangeRound(p, r, rule), NEW known, Broadcast(RoundChange(p, r, known)),
         UNCHANGED <<prepared, q_commit>>,
         NEW C, buffer' = [buffer EXCEPT ![p] = @ \cup C]
  PROVE  VoteStep(p) /\ Abstract!Next
<1>1. /\ r \in Nat /\ round[p] \in Nat \ {0} /\ r <= MaxRound /\ r > 1 /\ r >= round[p]
      /\ SentInv'
  BY InvFacts, EnvironmentAssumption DEF Inv
<1>2. OthersSame(p) /\ Onward(p) /\ round'[p] = r
  <2>1. /\ \E x : prepared' = [prepared EXCEPT ![p] = x]
        /\ \E y : q_commit' = [q_commit EXCEPT ![p] = y]
        /\ \E D : buffer' = [buffer EXCEPT ![p] = @ \cup D]
    <3>1. /\ prepared' = [prepared EXCEPT ![p] = prepared[p]]
          /\ q_commit' = [q_commit EXCEPT ![p] = q_commit[p]]
      BY InvFacts
    <3>2. QED
      BY <3>1
  <2>2. QED
    BY <1>1, <2>1, RuleFrame
<1>3. PICK m \in MessageType, k \in Nat :
        /\ sent' = sent \cup {<<m, k>>}
        /\ m.msg = Body("ROUND_CHANGE", p, r, NoValue, prepared[p].round, prepared[p].value)
        /\ m.justification = prepared[p].justification
  BY <1>1, BroadcastAdds DEF RoundChange
<1>4. /\ m.msg.type = "ROUND_CHANGE" /\ m.msg.peer = p /\ m.msg.round = r
      /\ m.msg.value = NoValue
  BY <1>3 DEF Body
<1>6. \A c \in sent : ~SameVote(m.msg, c[1].msg)
  <2>1. \A c \in sent : SameVote(m.msg, c[1].msg) => ~Remembered(p, c[1].msg)
    BY <1>1, <1>4 DEF SameVote, Remembered
  <2>2. QED
    BY <1>4, <2>1, NothingSent
<1>7. Proper(m) /\ Remembered(p, m.msg)'
  <2>1. \A j \in m.justification : j[1].type = "PREPARE"
    BY <1>3, InvFacts DEF PeerInv
  <2>2. Known(m.justification)
    BY <1>3 DEF VotesInv
  <2>3. Remembered(p, m.msg)'
    BY <1>1, <1>2, <1>4 DEF Remembered
  <2>4. QED
    BY <1>1, <1>4, <2>1, <2>2, <2>3 DEF Proper, Sane
<1>8. VoteStep(p)
  <2>1. round'[p] <= MaxRound /\ prepared'[p] = prepared[p] /\ q_commit'[p] = q_commit[p]
    BY <1>1, <1>2
  <2>2. \A c \in sent : ~SameVote(m.msg, c[1].msg)
    BY <1>6
  <2>3. QED
    BY <1>3, <1>4, <1>2, <1>7, <2>1, <2>2 DEF VoteStep
<1>9. Abstract!Next
  <2>1. round' = [round EXCEPT ![p] = r]
    BY DEF ChangeRound
  <2>2. QED
    BY <1>3, <2>1, GivesUp
<1>10. QED
  BY <1>8, <1>9

(* The timer of an undecided instance runs out *)
LEMMA TimeoutStep ==
  ASSUME Inv, Inv', VotesInv, NEW p \in Up, Timeout(p)
  PROVE  VoteStep(p) /\ Abstract!Next
<1> DEFINE r == round[p] + 1
<1>1. /\ p \in Peer /\ ~Decided(p) /\ round[p] \in Nat \ {0} /\ round[p] < MaxRound
      /\ ChangeRound(p, r, "ROUND_TIMEOUT") /\ Broadcast(RoundChange(p, r, values[p]))
      /\ UNCHANGED <<prepared, q_commit, buffer>>
  BY EnvironmentAssumption, InvFacts DEF Timeout
<1>2. r \in 1 .. MaxRound /\ r > round[p]
  BY <1>1, EnvironmentAssumption
<1>3. buffer' = [buffer EXCEPT ![p] = @ \cup {}]
  BY <1>1, InvFacts
<1> HIDE DEF r
<1>4. QED
  BY <1>1, <1>2, <1>3, GiveUpStep

-----------------------------------------------------------------------------
(* What every rule finds when it is triggered *)
LEMMA HandleFacts ==
  ASSUME Inv, VotesInv, NEW p \in Up, NEW c \in sent, Handle(p, c)
  PROVE  /\ p \in Peer /\ ~Decided(p) /\ SentInv
         /\ c \notin buffer[p] /\ (buffer[p] \cup {c}) \in SUBSET sent
         /\ buffer' = [buffer EXCEPT ![p] = @ \cup {c}]
         /\ buffer'[p] = buffer[p] \cup {c}
         /\ Justified(c[1])
         /\ c[1] \in MessageType /\ c[1].msg \in BodyType /\ Proper(c[1])
         /\ c[1].msg.round \in 1 .. MaxRound
         /\ round[p] \in 1 .. MaxRound
<1>1. p \in Peer
  BY EnvironmentAssumption
<1>2. /\ ~Decided(p) /\ c \notin buffer[p] /\ Justified(c[1])
      /\ buffer' = [buffer EXCEPT ![p] = @ \cup {c}]
  BY DEF Handle
<1>3. /\ SentInv /\ (buffer[p] \cup {c}) \in SUBSET sent /\ round[p] \in Nat \ {0}
      /\ buffer'[p] = buffer[p] \cup {c}
  BY <1>1, <1>2, InvFacts
<1>4. c[1] \in MessageType /\ c[1].msg \in BodyType
  BY <1>3 DEF SentInv, MessageType
<1>5. Proper(c[1])
  BY DEF VotesInv
<1>6. c[1].msg.round \in 1 .. MaxRound
  BY <1>4, <1>5, EnvironmentAssumption DEF Proper, Sane, BodyType
<1>7. round[p] \in 1 .. MaxRound
  BY <1>1, <1>3, EnvironmentAssumption DEF VotesInv
<1>8. QED
  BY <1>1, <1>2, <1>3, <1>4, <1>5, <1>6, <1>7

(* JUSTIFIED_PRE_PREPARE: a second PREPARE of the round would follow the same proposal, which
   is not stored twice *)
LEMMA PrePrepareStep ==
  ASSUME Inv, Inv', VotesInv, NEW p \in Up, NEW c \in sent, Handle(p, c),
         c[1].msg.type = "PRE_PREPARE", round[p] <= c[1].msg.round,
         UponJustifiedPrePrepare(p, c[1].msg)
  PROVE  VoteStep(p) /\ Abstract!Next
<1> DEFINE r == c[1].msg.round
           v == c[1].msg.value
<1>1. /\ ChangeRound(p, r, "JUSTIFIED_PRE_PREPARE")
      /\ Broadcast(Message("PREPARE", p, r, v, {}, values'[p]))
      /\ UNCHANGED <<prepared, q_commit>> /\ SentInv'
  BY DEF UponJustifiedPrePrepare, Inv
<1>2. /\ p \in Peer /\ ~Decided(p) /\ r \in 1 .. MaxRound /\ r >= round[p] /\ SentInv
      /\ buffer' = [buffer EXCEPT ![p] = @ \cup {c}] /\ buffer'[p] = buffer[p] \cup {c}
      /\ c \notin buffer[p] /\ buffer[p] \subseteq sent
      /\ IsLeader(r, c[1].msg.peer) /\ v \in Value
  BY HandleFacts DEF Proper, Sane
<1>3. OthersSame(p) /\ Onward(p) /\ round'[p] = r
  <2>1. /\ \E x : prepared' = [prepared EXCEPT ![p] = x]
        /\ \E y : q_commit' = [q_commit EXCEPT ![p] = y]
        /\ \E D : buffer' = [buffer EXCEPT ![p] = @ \cup D]
    <3>1. /\ prepared' = [prepared EXCEPT ![p] = prepared[p]]
          /\ q_commit' = [q_commit EXCEPT ![p] = q_commit[p]]
      BY <1>1, <1>2, InvFacts
    <3>2. QED
      BY <3>1, <1>2
  <2>2. r \in Nat
    BY <1>2
  <2> HIDE DEF r, v
  <2>3. QED
    BY <1>1, <1>2, <2>1, <2>2, RuleFrame
<1>4. PICK m \in MessageType, k \in Nat :
        /\ sent' = sent \cup {<<m, k>>}
        /\ m.msg = Body("PREPARE", p, r, v, 0, NoValue) /\ m.justification = {}
  BY <1>1, BroadcastAdds DEF Message
<1>5. /\ m.msg.type = "PREPARE" /\ m.msg.peer = p /\ m.msg.round = r
      /\ m.msg.value = v /\ m.msg.prepared_round = 0 /\ m.msg.prepared_value = NoValue
  BY <1>4 DEF Body
<1>6. \A d \in sent : ~SameVote(m.msg, d[1].msg)
  <2>1. ASSUME NEW d \in sent, SameVote(m.msg, d[1].msg), Remembered(p, d[1].msg) PROVE FALSE
    <3>1. d[1].msg.type = "PREPARE" /\ d[1].msg.round = r
      BY <1>5, <2>1 DEF SameVote
    <3>2. PICK e \in buffer[p] : e[1].msg.type = "PRE_PREPARE" /\ e[1].msg.round = r
      BY <2>1, <3>1 DEF Remembered
    <3>3. e \in sent /\ IsLeader(r, e[1].msg.peer)
      BY <1>2, <3>2 DEF VotesInv, Proper, Sane
    <3>4. e[1].msg.peer = c[1].msg.peer
      BY <1>2, <3>3 DEF IsLeader
    <3>5. e = c
      BY <3>2, <3>3, <3>4 DEF VotesInv, Unique, SameVote
    <3>6. QED
      BY <1>2, <3>2, <3>5
  <2>2. QED
    BY <1>2, <1>5, <2>1, NothingSent
<1>7. Proper(m) /\ Remembered(p, m.msg)'
  <2>1. Proper(m)
    BY <1>2, <1>4, <1>5 DEF Proper, Sane, Known
  <2>2. c \in buffer'[p] /\ c[1].msg.type = "PRE_PREPARE" /\ c[1].msg.round = m.msg.round
    BY <1>2, <1>5
  <2>3. m.msg.round <= round'[p]
    BY <1>2, <1>3, <1>5
  <2>4. Remembered(p, m.msg)'
    BY <1>5, <2>2, <2>3 DEF Remembered
  <2>5. QED
    BY <2>1, <2>4
<1>8. VoteStep(p)
  <2>1. round'[p] <= MaxRound /\ prepared'[p] = prepared[p] /\ q_commit'[p] = q_commit[p]
    BY <1>1, <1>2, <1>3
  <2> HIDE DEF r, v
  <2>2. QED
    BY <1>3, <1>4, <1>5, <1>6, <1>7, <2>1 DEF VoteStep
<1>9. Abstract!Next
  <2>1. round' = [round EXCEPT ![p] = c[1].msg.round]
    BY <1>1 DEF ChangeRound
  <2>2. round[p] <= c[1].msg.round
    OBVIOUS
  <2>3. QED
    BY <1>1, <1>2, <1>4, <2>1, <2>2, Prepares
<1>10. QED
  BY <1>8, <1>9

(* A list of a quorum of votes is known *)
LEMMA ListKnown ==
  ASSUME SentInv, VotesInv, NEW buf \in SUBSET sent, NEW t \in {"PREPARE", "COMMIT"},
         NEW r, NEW v, Cardinality(Votes(Flatten(buf), t, r, v)) >= Quorum
  PROVE  /\ Known(Listed(Votes(Flatten(buf), t, r, v)))
         /\ \A j \in Listed(Votes(Flatten(buf), t, r, v)) : j[1].value = v
<1> DEFINE flat == Flatten(buf)
           votes == Votes(flat, t, r, v)
<1>1. \A e \in flat : e[1] \in SentBodies /\ e[1] \in BodyType
  <2>1. \A e \in flat : e[1] \in SentBodies
    BY FlattenSent
  <2>2. SentBodies \subseteq BodyType
    BY DEF SentBodies, SentInv, MessageType
  <2>3. QED
    BY <2>1, <2>2
<1>2. VoteQuorum(t, r, v)
  BY VotesOfQuorum
<1> HIDE DEF flat
<1>3. \A e \in votes : e \in flat /\ e[1].type = t /\ e[1].round = r /\ e[1].value = v
  BY DEF Votes, OfRound
<1> HIDE DEF votes
<1>4. \A j \in Listed(votes) : \E e \in votes : j[1] = e[1]
  BY <1>1, <1>3, ListedTyped
<1>5. Known(Listed(votes)) /\ \A j \in Listed(votes) : j[1].value = v
  BY <1>1, <1>2, <1>3, <1>4 DEF Known
<1>6. QED
  BY <1>5 DEF votes, flat

(* QUORUM_PREPARES: the rule is triggered once in a round *)
LEMMA QuorumPreparesStep ==
  ASSUME Inv, Inv', VotesInv, NEW p \in Up, NEW c \in sent, Handle(p, c),
         NEW flat, flat = Flatten(buffer[p] \cup {c}), c[1].msg.round = round[p],
         Cardinality(Votes(flat, "PREPARE", c[1].msg.round, c[1].msg.value)) >= Quorum,
         "QUORUM_PREPARES" \notin dedup_rules[p],
         UponQuorumPrepares(p, c[1].msg, flat)
  PROVE  VoteStep(p) /\ Abstract!Next
<1> DEFINE r == round[p]
           v == c[1].msg.value
           just == Listed(Votes(flat, "PREPARE", c[1].msg.round, v))
           x == [round |-> r, value |-> v, justification |-> just]
<1>1. /\ ChangeRound(p, r, "QUORUM_PREPARES")
      /\ Broadcast(Message("COMMIT", p, r, v, {}, values'[p]))
      /\ prepared' = [prepared EXCEPT ![p] = x]
      /\ UNCHANGED q_commit /\ SentInv'
  BY DEF UponQuorumPrepares, Inv
<1>2. /\ p \in Peer /\ ~Decided(p) /\ r \in 1 .. MaxRound /\ r \in Nat /\ r >= round[p]
      /\ SentInv /\ (buffer[p] \cup {c}) \in SUBSET sent
      /\ buffer' = [buffer EXCEPT ![p] = @ \cup {c}]
  BY HandleFacts
<1>3. VoteQuorum("PREPARE", r, v)
  BY <1>2, VotesOfQuorum
<1>4. v \in Value
  BY <1>2, <1>3, SameQuorums
<1>5. Known(just)
  BY <1>2, ListKnown
<1> HIDE DEF just
<1>6. OthersSame(p) /\ Onward(p) /\ round'[p] = r /\ "QUORUM_PREPARES" \in dedup_rules'[p]
  <2>1. /\ \E y : prepared' = [prepared EXCEPT ![p] = y]
        /\ \E y : q_commit' = [q_commit EXCEPT ![p] = y]
        /\ \E D : buffer' = [buffer EXCEPT ![p] = @ \cup D]
    <3>1. q_commit' = [q_commit EXCEPT ![p] = q_commit[p]]
      BY <1>1, <1>2, InvFacts
    <3>2. QED
      BY <3>1, <1>1, <1>2
  <2> HIDE DEF x, v
  <2>2. QED
    BY <1>1, <1>2, <2>1, RuleFrame
<1>7. PICK m \in MessageType, k \in Nat :
        /\ sent' = sent \cup {<<m, k>>}
        /\ m.msg = Body("COMMIT", p, r, v, 0, NoValue) /\ m.justification = {}
  BY <1>1, BroadcastAdds DEF Message
<1>8. /\ m.msg.type = "COMMIT" /\ m.msg.peer = p /\ m.msg.round = r
      /\ m.msg.value = v /\ m.msg.prepared_round = 0 /\ m.msg.prepared_value = NoValue
  BY <1>7 DEF Body
<1>9. \A d \in sent : ~SameVote(m.msg, d[1].msg)
  <2>1. \A d \in sent : SameVote(m.msg, d[1].msg) => ~Remembered(p, d[1].msg)
    BY <1>2, <1>8 DEF SameVote, Remembered
  <2>2. QED
    BY <1>2, <1>8, <2>1, NothingSent
<1>10. Proper(m) /\ Remembered(p, m.msg)'
  <2>1. Proper(m)
    BY <1>2, <1>4, <1>7, <1>8 DEF Proper, Sane, Known
  <2>2. Remembered(p, m.msg)'
    BY <1>6, <1>8 DEF Remembered
  <2>3. QED
    BY <2>1, <2>2
<1>11. VoteStep(p)
  <2>1. prepared'[p].justification = just
    BY <1>1, <1>2, InvFacts
  <2>2. round'[p] <= MaxRound /\ Known(prepared'[p].justification) /\ q_commit'[p] = q_commit[p]
    BY <1>1, <1>2, <1>5, <1>6, <2>1
  <2> HIDE DEF r, v, x
  <2>3. QED
    BY <1>6, <1>7, <1>8, <1>9, <1>10, <2>2 DEF VoteStep
<1>12. Abstract!Next
  <2>1. UNCHANGED <<round, q_commit>> /\ prepared = [q \in Peer |-> prepared[q]]
    BY <1>1, <1>2, InvFacts DEF ChangeRound
  <2> HIDE DEF v
  <2>2. QED
    BY <1>1, <1>2, <1>3, <1>7, <2>1, Commits
<1>13. QED
  BY <1>11, <1>12

(* A decision, on a quorum of COMMITs of the round or of a DECIDED *)
LEMMA DecideStep ==
  ASSUME Inv, Inv', VotesInv, NEW p \in Peer, ~Decided(p), NEW r \in 1 .. MaxRound, NEW rule,
         ChangeRound(p, r, rule), NEW v, VoteQuorum("COMMIT", r, v),
         NEW quorum, quorum # {}, Known(quorum), \A j \in quorum : j[1].value = v,
         q_commit' = [q_commit EXCEPT ![p] = quorum], UNCHANGED <<prepared, sent>>,
         NEW C, buffer' = [buffer EXCEPT ![p] = @ \cup C]
  PROVE  VoteStep(p) /\ Abstract!Next
<1>1. q_commit'[p] = quorum /\ prepared'[p] = prepared[p] /\ r \in Nat /\ r <= MaxRound
      /\ SentInv /\ q_commit = [q \in Peer |-> q_commit[q]]
  BY InvFacts, EnvironmentAssumption
<1>2. Decided(p)'
  BY <1>1 DEF Decided
<1>3. OthersSame(p) /\ Onward(p) /\ round'[p] = r
  <2>1. /\ \E x : prepared' = [prepared EXCEPT ![p] = x]
        /\ \E y : q_commit' = [q_commit EXCEPT ![p] = y]
        /\ \E D : buffer' = [buffer EXCEPT ![p] = @ \cup D]
    <3>1. prepared' = [prepared EXCEPT ![p] = prepared[p]]
      BY InvFacts
    <3>2. QED
      BY <3>1
  <2>2. QED
    BY <1>1, <1>2, <2>1, RuleFrame
<1>4. VoteStep(p)
  BY <1>1, <1>3 DEF VoteStep
<1>5. round' = [round EXCEPT ![p] = r]
  BY DEF ChangeRound
<1>6. Abstract!Next
  BY <1>1, <1>5, Decides
<1>7. QED
  BY <1>4, <1>6

(* QUORUM_COMMITS *)
LEMMA QuorumCommitsStep ==
  ASSUME Inv, Inv', VotesInv, NEW p \in Up, NEW c \in sent, Handle(p, c),
         NEW flat, flat = Flatten(buffer[p] \cup {c}), c[1].msg.round = round[p],
         Cardinality(Votes(flat, "COMMIT", c[1].msg.round, c[1].msg.value)) >= Quorum,
         UponQuorumCommits(p, c[1].msg, flat)
  PROVE  VoteStep(p) /\ [Abstract!Next]_Abstract!vars
<1> DEFINE r == c[1].msg.round
           v == c[1].msg.value
           quorum == Listed(Votes(flat, "COMMIT", r, v))
<1>1. /\ ChangeRound(p, r, "QUORUM_COMMITS")
      /\ q_commit' = [q_commit EXCEPT ![p] = quorum]
      /\ UNCHANGED <<prepared, sent>>
  BY DEF UponQuorumCommits
<1>2. /\ p \in Peer /\ ~Decided(p) /\ r \in 1 .. MaxRound /\ r \in Nat /\ r = round[p]
      /\ SentInv /\ (buffer[p] \cup {c}) \in SUBSET sent
      /\ buffer' = [buffer EXCEPT ![p] = @ \cup {c}]
  BY HandleFacts
<1>3. VoteQuorum("COMMIT", r, v)
  BY <1>2, VotesOfQuorum
<1>4. Known(quorum) /\ \A j \in quorum : j[1].value = v
  BY <1>2, ListKnown
<1> HIDE DEF r, v, quorum
<1>5. CASE quorum # {}
  BY <1>1, <1>2, <1>3, <1>4, <1>5, DecideStep
<1>6. CASE quorum = {}
  <2>1. q_commit' = q_commit /\ prepared' = prepared /\ round' = round
    <3>1. q_commit[p] = {}
      BY <1>2 DEF Decided
    <3>2. q_commit' = q_commit
      BY <1>1, <1>2, <1>6, <3>1, InvFacts
    <3>3. round' = round
      BY <1>1, <1>2, InvFacts DEF ChangeRound
    <3>4. QED
      BY <1>1, <3>2, <3>3
  <2>2. OthersSame(p) /\ Onward(p) /\ round'[p] = r
    <3>1. /\ \E x : prepared' = [prepared EXCEPT ![p] = x]
          /\ \E y : q_commit' = [q_commit EXCEPT ![p] = y]
          /\ \E D : buffer' = [buffer EXCEPT ![p] = @ \cup D]
      <4>1. prepared' = [prepared EXCEPT ![p] = prepared[p]]
        BY <1>1, <1>2, InvFacts
      <4>2. QED
        BY <4>1, <1>1, <1>2
    <3>2. r >= round[p]
      BY <1>2
    <3>3. QED
      BY <1>1, <1>2, <3>1, <3>2, RuleFrame
  <2>3. VoteStep(p)
    BY <1>1, <1>2, <2>1, <2>2 DEF VoteStep
  <2>4. AbstractMsgs' = AbstractMsgs
    BY <1>1 DEF AbstractMsgs, SentBodies
  <2>5. QED
    BY <2>1, <2>3, <2>4, Stutters
<1>7. QED
  BY <1>5, <1>6

(* JUSTIFIED_DECIDED: its justification repeats the COMMITs of a quorum *)
LEMMA DecidedStep ==
  ASSUME Inv, Inv', VotesInv, NEW p \in Up, NEW c \in sent, Handle(p, c),
         c[1].msg.type = "DECIDED", UponJustifiedDecided(p, c[1])
  PROVE  VoteStep(p) /\ Abstract!Next
<1> DEFINE r == c[1].msg.round
           v == c[1].msg.value
           quorum == c[1].justification
<1>1. /\ ChangeRound(p, r, "JUSTIFIED_DECIDED")
      /\ q_commit' = [q_commit EXCEPT ![p] = quorum]
      /\ UNCHANGED <<prepared, sent>>
  BY DEF UponJustifiedDecided
<1>2. /\ p \in Peer /\ ~Decided(p) /\ r \in 1 .. MaxRound
      /\ SentInv /\ buffer' = [buffer EXCEPT ![p] = @ \cup {c}]
      /\ Justified(c[1]) /\ Known(quorum)
  BY HandleFacts DEF Proper
<1>3. \A j \in quorum : j[1].type = "COMMIT" /\ j[1].value = v
  BY <1>2 DEF SentInv, Carries
<1>4. Cardinality(Votes(quorum, "COMMIT", r, v)) >= Quorum
  BY <1>2 DEF Justified, JustifiedDecided
<1>5. PICK j \in quorum : j[1].type = "COMMIT" /\ j[1].round = r /\ j[1].value = v
  <2>1. Votes(quorum, "COMMIT", r, v) # {}
    BY <1>4, QuorumNotEmpty
  <2>2. QED
    BY <2>1 DEF Votes, OfRound
<1>6. VoteQuorum("COMMIT", r, v)
  BY <1>2, <1>5 DEF Known
<1> HIDE DEF r, v, quorum
<1>7. QED
  BY <1>1, <1>2, <1>3, <1>5, <1>6, DecideStep

(* F_PLUS_1_ROUND_CHANGES: the round is one that others have reached *)
LEMMA FPlus1Step ==
  ASSUME Inv, Inv', VotesInv, NEW p \in Up, NEW c \in sent, Handle(p, c),
         NEW flat, flat = Flatten(buffer[p] \cup {c}), UponFPlus1RoundChanges(p, flat)
  PROVE  VoteStep(p) /\ Abstract!Next
<1>1. /\ p \in Peer /\ ~Decided(p) /\ SentInv /\ (buffer[p] \cup {c}) \in SUBSET sent
      /\ buffer' = [buffer EXCEPT ![p] = @ \cup {c}]
  BY HandleFacts
<1>2. PICK r \in JumpRounds(p, flat) :
        /\ ChangeRound(p, r, "F_PLUS_1_ROUND_CHANGES")
        /\ Broadcast(RoundChange(p, r, values'[p]))
        /\ UNCHANGED <<prepared, q_commit>>
  BY DEF UponFPlus1RoundChanges
<1>3. PICK e \in flat : e[1].round = r /\ r > round[p]
  BY DEF JumpRounds, Bodies
<1>4. e[1] \in SentBodies /\ Sane(e[1])
  BY <1>1, FlattenSent
<1>5. r \in 1 .. MaxRound
  <2>1. e[1] \in BodyType
    BY <1>1, <1>4 DEF SentBodies, SentInv, MessageType
  <2>2. QED
    BY <1>3, <1>4, <2>1, EnvironmentAssumption DEF BodyType, Sane
<1>6. QED
  BY <1>1, <1>2, <1>3, <1>5, GiveUpStep

-----------------------------------------------------------------------------
(* A set as large as a quorum that maps one to one to peers makes a quorum of peers *)
LEMMA QuorumOfPeers ==
  ASSUME NEW S, NEW P \in SUBSET Peer, NEW f \in Injection(S, P), Cardinality(S) >= Quorum
  PROVE  Cardinality(P) >= Quorum
<1>1. IsFiniteSet(P)
  <2>1. IsFiniteSet(Peer)
    BY FS_Interval, ClusterAssumption DEF Peer
  <2>2. QED
    BY <2>1, FS_Subset
<1>2. IsFiniteSet(S) /\ Cardinality(S) <= Cardinality(P)
  BY <1>1, FS_Injection
<1>3. Cardinality(S) \in Nat /\ Cardinality(P) \in Nat
  BY <1>1, <1>2, FS_CardinalityType
<1>4. QED
  BY <1>2, <1>3, QuorumPositive

(* Messages of one type and round come from different peers *)
LEMMA DistinctPeers ==
  ASSUME SentInv, VotesInv, NEW S \in SUBSET SentBodies, NEW t, t # "DECIDED", NEW r,
         \A b \in S : b.type = t /\ b.round = r, Cardinality(S) >= Quorum
  PROVE  Cardinality({b.peer : b \in S}) >= Quorum
<1> DEFINE P == {b.peer : b \in S}
           f == [b \in S |-> b.peer]
<1>1. P \in SUBSET Peer
  BY DEF SentInv, SentBodies, MessageType, BodyType
<1>2. \A b, d \in S : b.peer = d.peer => b = d
  <2> SUFFICES ASSUME NEW b \in S, NEW d \in S, b.peer = d.peer PROVE b = d
    OBVIOUS
  <2>1. PICK c \in sent : b = c[1].msg
    BY DEF SentBodies
  <2>2. PICK e \in sent : d = e[1].msg
    BY DEF SentBodies
  <2>3. c = e
    BY <2>1, <2>2 DEF VotesInv, Unique, SameVote
  <2>4. QED
    BY <2>1, <2>2, <2>3
<1>3. f \in Injection(S, P)
  <2>1. f \in [S -> P]
    OBVIOUS
  <2>2. IsInjective(f)
    BY <1>2 DEF IsInjective
  <2>3. QED
    BY <2>1, <2>2 DEF Injection
<1> HIDE DEF P, f
<1>4. Cardinality(P) >= Quorum
  BY <1>1, <1>3, QuorumOfPeers
<1>5. QED
  BY <1>4 DEF P

(* What the justification of a proposal of p for round r proves: its ROUND_CHANGEs are of that
   round, and those of a quorum allow the value that is proposed (J1, J2) *)
Proves(just, r, p) ==
  /\ Known(just)
  /\ \A j \in just : j[1].type = "ROUND_CHANGE" => j[1].round = r
  /\ ProposedValue(p, just) \in Value
  /\ \E S \in SUBSET {b \in SentBodies : b.type = "ROUND_CHANGE" /\ b.round = r} :
       /\ Cardinality({b.peer : b \in S}) >= Quorum
       /\ \/ ProposedValue(p, just) = Proposal[p] /\ \A b \in S : b.prepared_round = 0
          \/ \E h \in S : /\ h.prepared_round > 0
                          /\ ProposedValue(p, just) = h.prepared_value
                          /\ \A b \in S : b.prepared_round <= h.prepared_round

(* A buffer without a proposal for round r: copies of ROUND_CHANGEs are nested in those only *)
Unproposed(buf, r) == \A c \in buf : ~(c[1].msg.type = "PRE_PREPARE" /\ c[1].msg.round = r)

(* A leader that has not triggered QUORUM_ROUND_CHANGES in its round has not proposed in it *)
LEMMA NotProposed ==
  ASSUME Inv, VotesInv, NEW p \in Peer, ~Decided(p), round[p] > 1, IsLeader(round[p], p),
         "QUORUM_ROUND_CHANGES" \notin dedup_rules[p]
  PROVE  Unproposed(sent, round[p])
<1> SUFFICES ASSUME NEW d \in sent, d[1].msg.type = "PRE_PREPARE", d[1].msg.round = round[p]
             PROVE  FALSE
  BY DEF Unproposed
<1>1. IsLeader(round[p], d[1].msg.peer)
  BY DEF VotesInv, Proper, Sane
<1>2. d[1].msg.peer = p
  BY <1>1 DEF IsLeader
<1>3. Remembered(p, d[1].msg)
  BY <1>2 DEF VotesInv
<1>4. QED
  BY <1>3, InvFacts DEF Remembered

(* What the leader that holds none collects is a justification *)
LEMMA QRCFacts ==
  ASSUME SentInv, VotesInv, NEW buf \in SUBSET sent, NEW r, Unproposed(buf, r),
         NEW just \in JustifiedQRC(Flatten(buf), r), NEW p \in Peer
  PROVE  Proves(just, r, p)
<1> DEFINE flat == Flatten(buf)
           qrc == OfRound(flat, "ROUND_CHANGE", r)
           null == {e \in qrc : NullPrepared(e[1])}
           prepares == {b \in Bodies(flat) : b.type = "PREPARE"}
           PrepareSet(a) == {b \in prepares : b.round = a.round /\ b.value = a.value}
           Candidates(a) == {rc \in Bodies(qrc) : rc.prepared_round <= a.round}
           proven == {b.value : b \in {a \in Bodies(just) : a.type = "PREPARE"}}
           changes == {b \in SentBodies : b.type = "ROUND_CHANGE" /\ b.round = r}
<1>1. \A e \in flat : e[1] \in SentBodies /\ e[1] \in BodyType
  <2>1. \A e \in flat : e[1] \in SentBodies
    BY FlattenSent
  <2>2. SentBodies \subseteq BodyType
    BY DEF SentBodies, SentInv, MessageType
  <2>3. QED
    BY <2>1, <2>2
<1>2. \A e \in qrc : e \in flat /\ e[1].type = "ROUND_CHANGE" /\ e[1].round = r
  BY DEF OfRound
<1>3. proven = {} => ProposedValue(p, just) = Proposal[p]
  BY DEF ProposedValue
<1>4. proven # {} => ProposedValue(p, just) \in proven
  BY DEF ProposedValue
<1>5. \/ just = Listed(null) /\ Cardinality(null) >= Quorum
      \/ \E a \in prepares : /\ just = (Candidates(a) \cup PrepareSet(a)) \X {1}
                             /\ Cardinality(PrepareSet(a)) >= Quorum
                             /\ Cardinality(Candidates(a)) >= Quorum
                             /\ \E rc \in Candidates(a) : /\ rc.prepared_round = a.round
                                                          /\ rc.prepared_value = a.value
  BY DEF JustifiedQRC
<1>6. CASE just = Listed(null) /\ Cardinality(null) >= Quorum
  <2> DEFINE S == Bodies(null)
             P == {b.peer : b \in S}
             f == [e \in null |-> e[1].peer]
  <2>1. \A e \in null : /\ e[1] \in SentBodies /\ e[1] \in BodyType
                        /\ e[1].type = "ROUND_CHANGE" /\ e[1].round = r
                        /\ e[1].prepared_round = 0
    BY <1>1, <1>2 DEF NullPrepared
  <2>2. \A j \in just : \E e \in null : j[1] = e[1]
    BY <1>6, <2>1, ListedTyped
  <2>3. \A e \in null : \E c \in buf : e = <<c[1].msg, <<c>>>>
    <3> SUFFICES ASSUME NEW e \in null PROVE \E c \in buf : e = <<c[1].msg, <<c>>>>
      OBVIOUS
    <3>1. e \in flat
      BY <1>2
    <3>2. \/ e \in {<<c[1].msg, <<c>>>> : c \in buf}
          \/ \E c \in buf : e \in {<<j[1], <<c, j>>>> : j \in c[1].justification}
      BY <3>1 DEF Flatten
    <3>3. ASSUME NEW c \in buf, NEW j \in c[1].justification, e = <<j[1], <<c, j>>>> PROVE FALSE
      <4>1. j[1].type = "ROUND_CHANGE" /\ j[1].round = r
        BY <2>1, <3>3
      <4>2. c[1].msg.type = "PRE_PREPARE" /\ c[1].msg.round = r
        BY <4>1 DEF VotesInv, Proper
      <4>3. QED
        BY <4>2 DEF Unproposed
    <3>4. QED
      BY <3>2, <3>3
  <2>4. \A e, d \in null : e[1].peer = d[1].peer => e = d
    BY <2>1, <2>3 DEF VotesInv, Unique, SameVote
  <2>5. P \in SUBSET Peer /\ \A e \in null : e[1].peer \in P
    BY <2>1 DEF Bodies, BodyType
  <2> HIDE DEF P
  <2>6. f \in Injection(null, P)
    <3>1. f \in [null -> P]
      BY <2>5
    <3>2. IsInjective(f)
      BY <2>4 DEF IsInjective
    <3>3. QED
      BY <3>1, <3>2 DEF Injection
  <2> HIDE DEF null, f
  <2>7. Cardinality(P) >= Quorum
    BY <1>6, <2>5, <2>6, QuorumOfPeers
  <2>8. S \in SUBSET changes /\ \A b \in S : b.prepared_round = 0
    BY <2>1 DEF Bodies
  <2>9. proven = {}
    BY <2>1, <2>2 DEF Bodies
  <2>10. Known(just) /\ \A j \in just : j[1].type = "ROUND_CHANGE" => j[1].round = r
    BY <2>1, <2>2 DEF Known
  <2>11. Proposal[p] \in Value
    BY ClusterAssumption
  <2>12. QED
    BY <1>3, <2>7, <2>8, <2>9, <2>10, <2>11 DEF P, Proves
<1>7. ASSUME NEW a \in prepares,
             just = (Candidates(a) \cup PrepareSet(a)) \X {1},
             Cardinality(PrepareSet(a)) >= Quorum,
             Cardinality(Candidates(a)) >= Quorum,
             \E rc \in Candidates(a) : /\ rc.prepared_round = a.round
                                       /\ rc.prepared_value = a.value
      PROVE  Proves(just, r, p)
  <2> DEFINE C == Candidates(a)
             Q == PrepareSet(a)
  <2>1. \A b \in C : /\ b \in SentBodies /\ b.type = "ROUND_CHANGE" /\ b.round = r
                     /\ b.prepared_round <= a.round
    BY <1>1, <1>2 DEF Bodies
  <2>2. /\ \A b \in Q : /\ b \in SentBodies /\ b.type = "PREPARE"
                        /\ b.round = a.round /\ b.value = a.value
        /\ a \in Q /\ a \in BodyType
    BY <1>1 DEF Bodies
  <2>3. just = (C \cup Q) \X {1} /\ Cardinality(Q) >= Quorum /\ Cardinality(C) >= Quorum
    BY <1>7
  <2>4. PICK h \in C : h.prepared_round = a.round /\ h.prepared_value = a.value
    BY <1>7
  <2> HIDE DEF C, Q
  <2>5. Cardinality({b.peer : b \in C}) >= Quorum
    <3>1. C \in SUBSET SentBodies /\ \A b \in C : b.type = "ROUND_CHANGE" /\ b.round = r
      BY <2>1
    <3>2. QED
      BY <2>3, <3>1, DistinctPeers
  <2>6. VoteQuorum("PREPARE", a.round, a.value)
    <3>1. Q \in SUBSET SentBodies /\ \A b \in Q : b.type = "PREPARE" /\ b.round = a.round
      BY <2>2
    <3>2. Cardinality({b.peer : b \in Q}) >= Quorum
      BY <2>3, <3>1, DistinctPeers
    <3>3. {b.peer : b \in Q} \subseteq VotersFor("PREPARE", a.round, a.value)
      BY <2>2 DEF VotersFor
    <3>4. IsFiniteSet(VotersFor("PREPARE", a.round, a.value))
          /\ Cardinality(VotersFor("PREPARE", a.round, a.value)) \in Nat
      BY VotersFinite
    <3>5. /\ Cardinality({b.peer : b \in Q}) <= Cardinality(VotersFor("PREPARE", a.round, a.value))
          /\ Cardinality({b.peer : b \in Q}) \in Nat
      BY <3>3, <3>4, FS_Subset, FS_CardinalityType
    <3>6. QED
      BY <3>2, <3>4, <3>5, QuorumPositive DEF VoteQuorum
  <2>7. \A j \in just : j[1] \in C \/ j[1] \in Q
    BY <2>3
  <2>8. Known(just) /\ \A j \in just : j[1].type = "ROUND_CHANGE" => j[1].round = r
    BY <2>1, <2>2, <2>6, <2>7 DEF Known
  <2>9. ProposedValue(p, just) = a.value
    <3>1. <<a, 1>> \in just
      BY <2>2, <2>3
    <3>2. a.value \in proven
      BY <3>1, <2>2 DEF Bodies
    <3>3. \A v \in proven : v = a.value
      BY <2>1, <2>2, <2>7 DEF Bodies
    <3>4. QED
      BY <3>2, <3>3, <1>4
  <2>10. h.prepared_round > 0 /\ \A b \in C : b.prepared_round <= h.prepared_round
    BY <2>1, <2>2, <2>4 DEF BodyType
  <2>11. C \in SUBSET changes
    BY <2>1
  <2>12. a.value \in Value
    <3>1. Sane(a)
      BY <2>2 DEF SentBodies, VotesInv, Proper
    <3>2. QED
      BY <2>2, <3>1 DEF Sane
  <2>13. QED
    BY <2>4, <2>5, <2>8, <2>9, <2>10, <2>11, <2>12 DEF Proves
<1>8. QED
  BY <1>5, <1>6, <1>7

(* QUORUM_ROUND_CHANGES: the leader has not proposed in the round, and so what it has stored
   nests none of its ROUND_CHANGEs *)
LEMMA QuorumRoundChangesStep ==
  ASSUME Inv, Inv', VotesInv, NEW p \in Up, NEW c \in sent, Handle(p, c),
         NEW flat, flat = Flatten(buffer[p] \cup {c}),
         c[1].msg.type = "ROUND_CHANGE", c[1].msg.round = round[p], IsLeader(round[p], p),
         "QUORUM_ROUND_CHANGES" \notin dedup_rules[p],
         UponQuorumRoundChanges(p, flat)
  PROVE  VoteStep(p) /\ Abstract!Next
<1> DEFINE r == round[p]
           buf == buffer[p] \cup {c}
<1>1. /\ p \in Peer /\ ~Decided(p) /\ r \in 1 .. MaxRound /\ r \in Nat /\ r >= round[p]
      /\ r > 1 /\ r <= MaxRound
      /\ SentInv /\ buf \in SUBSET sent
      /\ buffer' = [buffer EXCEPT ![p] = @ \cup {c}]
  BY HandleFacts DEF Proper, Sane
<1>2. PICK just \in JustifiedQRC(flat, r) :
        Broadcast(Message("PRE_PREPARE", p, r, ProposedValue(p, just), just, values'[p]))
  BY DEF UponQuorumRoundChanges
<1> DEFINE v == ProposedValue(p, just)
<1>3. ChangeRound(p, r, "QUORUM_ROUND_CHANGES") /\ UNCHANGED <<prepared, q_commit>> /\ SentInv'
  BY DEF UponQuorumRoundChanges, Inv
<1>4. \A d \in sent : ~(d[1].msg.type = "PRE_PREPARE" /\ d[1].msg.round = r)
  BY <1>1, NotProposed DEF Unproposed
<1>5. Proves(just, r, p)
  <2>1. Unproposed(buf, r)
    BY <1>1, <1>4 DEF Unproposed
  <2>2. just \in JustifiedQRC(Flatten(buf), r)
    BY <1>2
  <2> HIDE DEF buf, r
  <2>3. QED
    BY <1>1, <2>1, <2>2, QRCFacts
<1>6. /\ Known(just)
      /\ \A j \in just : j[1].type = "ROUND_CHANGE" => j[1].round = r
      /\ v \in Value
      /\ \E S \in SUBSET {b \in SentBodies : b.type = "ROUND_CHANGE" /\ b.round = r} :
           /\ Cardinality({b.peer : b \in S}) >= Quorum
           /\ \/ v = Proposal[p] /\ \A b \in S : b.prepared_round = 0
              \/ \E h \in S : /\ h.prepared_round > 0
                              /\ v = h.prepared_value
                              /\ \A b \in S : b.prepared_round <= h.prepared_round
  BY <1>5 DEF Proves
<1>7. OthersSame(p) /\ Onward(p) /\ round'[p] = r /\ "QUORUM_ROUND_CHANGES" \in dedup_rules'[p]
  <2>1. /\ \E x : prepared' = [prepared EXCEPT ![p] = x]
        /\ \E y : q_commit' = [q_commit EXCEPT ![p] = y]
        /\ \E D : buffer' = [buffer EXCEPT ![p] = @ \cup D]
    <3>1. /\ prepared' = [prepared EXCEPT ![p] = prepared[p]]
          /\ q_commit' = [q_commit EXCEPT ![p] = q_commit[p]]
      BY <1>1, <1>3, InvFacts
    <3>2. QED
      BY <3>1, <1>1
  <2>2. QED
    BY <1>1, <1>3, <2>1, RuleFrame
<1> HIDE DEF v
<1>8. PICK m \in MessageType, k \in Nat :
        /\ sent' = sent \cup {<<m, k>>}
        /\ m.msg = Body("PRE_PREPARE", p, r, v, 0, NoValue) /\ m.justification = just
  BY <1>2, <1>3, BroadcastAdds DEF Message, v
<1>9. /\ m.msg.type = "PRE_PREPARE" /\ m.msg.peer = p /\ m.msg.round = r
      /\ m.msg.value = v /\ m.msg.prepared_round = 0 /\ m.msg.prepared_value = NoValue
  BY <1>8 DEF Body
<1>10. \A d \in sent : ~SameVote(m.msg, d[1].msg)
  BY <1>4, <1>9 DEF SameVote
<1>11. Proper(m) /\ Remembered(p, m.msg)'
  <2>1. Proper(m)
    BY <1>1, <1>6, <1>8, <1>9 DEF Proper, Sane
  <2>2. Remembered(p, m.msg)'
    BY <1>7, <1>9 DEF Remembered
  <2>3. QED
    BY <2>1, <2>2
<1>12. VoteStep(p)
  <2>1. round'[p] <= MaxRound /\ prepared'[p] = prepared[p] /\ q_commit'[p] = q_commit[p]
    BY <1>1, <1>3, <1>7
  <2> HIDE DEF r
  <2>2. QED
    BY <1>7, <1>8, <1>9, <1>10, <1>11, <2>1 DEF VoteStep
<1>13. Abstract!Next
  <2>1. UNCHANGED <<round, prepared, q_commit>>
    BY <1>1, <1>3, InvFacts DEF ChangeRound
  <2>2. QED
    BY <1>1, <1>6, <1>8, <1>10, <2>1, Proposes
<1>14. QED
  BY <1>12, <1>13

(* handle_message of an undecided instance *)
LEMMA HandleStep ==
  ASSUME Inv, Inv', VotesInv, NEW p \in Up, NEW c \in sent, Handle(p, c)
  PROVE  VoteStep(p) /\ [Abstract!Next]_Abstract!vars
<1> DEFINE b == c[1].msg
           flat == Flatten(buffer[p] \cup {c})
           rule == Classify(p, b, flat)
<1>1. /\ p \in Peer /\ ~Decided(p) /\ b.round \in Nat /\ round[p] \in 1 .. MaxRound
      /\ buffer'[p] = buffer[p] \cup {c} /\ buffer' = [buffer EXCEPT ![p] = @ \cup {c}]
  BY HandleFacts DEF BodyType
<1>2. /\ rule = "JUSTIFIED_PRE_PREPARE" => b.type = "PRE_PREPARE" /\ round[p] <= b.round
      /\ rule = "QUORUM_PREPARES" =>
           /\ b.type = "PREPARE" /\ b.round = round[p]
           /\ Cardinality(Votes(flat, "PREPARE", b.round, b.value)) >= Quorum
      /\ rule = "QUORUM_COMMITS" =>
           /\ b.type = "COMMIT" /\ b.round = round[p]
           /\ Cardinality(Votes(flat, "COMMIT", b.round, b.value)) >= Quorum
      /\ rule = "JUSTIFIED_DECIDED" => b.type = "DECIDED"
      /\ rule = "QUORUM_ROUND_CHANGES" =>
           b.type = "ROUND_CHANGE" /\ b.round = round[p] /\ IsLeader(b.round, p)
  BY <1>1, ClassifyFacts
<1> HIDE DEF rule, flat
<1>3. CASE UNCHANGED <<round, prepared, q_commit, dedup_rules, sent>>
  <2>1. OthersSame(p)
    BY <1>1, <1>3, InvFacts DEF OthersSame
  <2>2. Onward(p)
    BY <1>1, <1>3 DEF Onward
  <2>3. VoteStep(p)
    BY <1>1, <1>3, <2>1, <2>2 DEF VoteStep
  <2>4. AbstractMsgs' = AbstractMsgs
    BY <1>3 DEF AbstractMsgs, SentBodies
  <2>5. UNCHANGED Abstract!vars
    BY <1>3, <2>4, Stutters
  <2>6. QED
    BY <2>3, <2>5
<1>4. CASE rule = "JUSTIFIED_PRE_PREPARE" /\ UponJustifiedPrePrepare(p, b)
  BY <1>2, <1>4, PrePrepareStep
<1>5. CASE rule = "QUORUM_PREPARES" /\ UponQuorumPrepares(p, b, flat) /\ rule \notin dedup_rules[p]
  BY <1>2, <1>5, QuorumPreparesStep DEF flat
<1>6. CASE rule = "QUORUM_COMMITS" /\ UponQuorumCommits(p, b, flat)
  BY <1>2, <1>6, QuorumCommitsStep DEF flat
<1>7. CASE rule = "JUSTIFIED_DECIDED" /\ UponJustifiedDecided(p, c[1])
  BY <1>2, <1>7, DecidedStep
<1>8. CASE rule = "F_PLUS_1_ROUND_CHANGES" /\ UponFPlus1RoundChanges(p, flat)
  BY <1>8, FPlus1Step DEF flat
<1>9. CASE /\ rule = "QUORUM_ROUND_CHANGES" /\ UponQuorumRoundChanges(p, flat)
           /\ rule \notin dedup_rules[p]
  BY <1>2, <1>9, QuorumRoundChangesStep DEF flat
<1>10. QED
  BY <1>3, <1>4, <1>5, <1>6, <1>7, <1>8, <1>9 DEF Handle, flat, rule

(* handle_message of a decided instance: DECIDED is no vote *)
LEMMA ResendDecidedStep ==
  ASSUME Inv, Inv', VotesInv, NEW p \in Up, NEW c \in sent, ResendDecided(p, c)
  PROVE  VoteStep(p) /\ [Abstract!Next]_Abstract!vars
<1>1. /\ p \in Peer /\ Decided(p) /\ SentInv'
      /\ UNCHANGED <<round, prepared, q_commit, buffer, dedup_rules>>
  BY EnvironmentAssumption DEF ResendDecided, Inv
<1>2. PICK v \in Decision(p) :
        Broadcast(Message("DECIDED", p, round[p], v, q_commit[p], values'[p]))
  BY DEF ResendDecided
<1>3. PICK m \in MessageType, k \in Nat :
        /\ sent' = sent \cup {<<m, k>>}
        /\ m.msg = Body("DECIDED", p, round[p], v, 0, NoValue)
        /\ m.justification = q_commit[p]
  BY <1>1, <1>2, BroadcastAdds DEF Message
<1>4. /\ m.msg.type = "DECIDED" /\ m.msg.peer = p /\ m.msg.round = round[p]
      /\ m.msg.value = v /\ m.msg.prepared_round = 0 /\ m.msg.prepared_value = NoValue
  BY <1>3 DEF Body
<1>5. Proper(m)
  <2>1. PeerInv(p) /\ values[p] \in SUBSET Value
    BY <1>1, InvFacts
  <2>2. v \in Value
    BY <1>2, <2>1 DEF Decision, PeerInv
  <2>3. \A j \in m.justification : j[1].type = "COMMIT"
    BY <1>3, <2>1 DEF PeerInv
  <2>4. Known(m.justification) /\ m.msg.round <= MaxRound
    BY <1>1, <1>3, <1>4 DEF VotesInv
  <2>5. QED
    BY <1>4, <2>2, <2>3, <2>4 DEF Proper, Sane
<1>6. VoteStep(p)
  <2>1. OthersSame(p)
    BY <1>1, InvFacts DEF OthersSame
  <2>2. Decided(p)'
    BY <1>1 DEF Decided
  <2>3. Onward(p)
    BY <2>2 DEF Onward
  <2>4. \A d \in sent : ~SameVote(m.msg, d[1].msg)
    BY <1>4 DEF SameVote
  <2>5. round'[p] <= MaxRound
    BY <1>1 DEF VotesInv
  <2>6. QED
    BY <1>1, <1>3, <1>4, <1>5, <2>1, <2>2, <2>3, <2>4, <2>5 DEF VoteStep
<1>7. AbstractMsgs' = AbstractMsgs
  BY <1>3, <1>4, MsgsAfter
<1>8. UNCHANGED Abstract!vars
  BY <1>1, <1>7, Stutters
<1>9. QED
  BY <1>6, <1>8

(* handle_message that only takes the values of a message *)
LEMMA IgnoreStep ==
  ASSUME Inv, VotesInv, NEW p \in Up, NEW c \in sent, Ignore(p, c)
  PROVE  VoteStep(p) /\ [Abstract!Next]_Abstract!vars
<1>1. /\ p \in Peer /\ UNCHANGED <<round, prepared, q_commit, buffer, dedup_rules, sent>>
  BY EnvironmentAssumption DEF Ignore
<1>2. OthersSame(p)
  BY <1>1, InvFacts DEF OthersSame
<1>3. Onward(p)
  BY <1>1 DEF Onward, Decided
<1>4. VoteStep(p)
  BY <1>1, <1>2, <1>3 DEF VoteStep, VotesInv
<1>5. AbstractMsgs' = AbstractMsgs
  BY <1>1 DEF AbstractMsgs, SentBodies
<1>6. UNCHANGED Abstract!vars
  BY <1>1, <1>5, Stutters
<1>7. QED
  BY <1>4, <1>6

-----------------------------------------------------------------------------
(* Nothing has been sent or prepared at first *)
LEMMA InitVotes == Init => VotesInv
BY ClusterAssumption, EnvironmentAssumption DEF Init, VotesInv, Unique, Known

(* Without duplicates every step keeps the invariant and maps to a step of the abstract
   protocol or to a stutter *)
LEMMA NextVotes ==
  ASSUME MaxDuplicates = 0, Inv, VotesInv, [Next]_vars
  PROVE  VotesInv' /\ [Abstract!Next]_Abstract!vars
<1>1. Inv'
  BY NextInv
<1>2. CASE UNCHANGED vars
  <2>1. UNCHANGED <<round, prepared, q_commit, buffer, dedup_rules, sent>>
    BY <1>2 DEF vars
  <2>2. SentBodies' = SentBodies
    BY <2>1 DEF SentBodies
  <2>3. AbstractMsgs' = AbstractMsgs
    BY <2>2 DEF AbstractMsgs
  <2>4. UNCHANGED Abstract!vars
    BY <2>1, <2>3, Stutters
  <2>5. VotesInv'
    BY <2>1, <2>2 DEF VotesInv, Unique, Proper, Known, Sane, Remembered, Decided, VoteQuorum,
                      VotersFor
  <2>6. QED
    BY <2>4, <2>5
<1>3. CASE Next
  <2>1. ASSUME NEW p \in Up, VoteStep(p) PROVE VotesInv'
    <3>1. p \in Peer
      BY EnvironmentAssumption
    <3>2. QED
      BY <1>1, <2>1, <3>1, VoteStepKeeps
  <2>2. ASSUME NEW p \in Up, Start(p) PROVE VotesInv' /\ Abstract!Next
    BY <1>1, <2>1, <2>2, StartStep
  <2>3. ASSUME NEW p \in Up, Timeout(p) PROVE VotesInv' /\ Abstract!Next
    BY <1>1, <2>1, <2>3, TimeoutStep
  <2>4. ASSUME NEW p \in Up, NEW c \in sent, Handle(p, c)
        PROVE  VotesInv' /\ [Abstract!Next]_Abstract!vars
    BY <1>1, <2>1, <2>4, HandleStep
  <2>5. ASSUME NEW p \in Up, NEW c \in sent, ResendDecided(p, c)
        PROVE  VotesInv' /\ [Abstract!Next]_Abstract!vars
    BY <1>1, <2>1, <2>5, ResendDecidedStep
  <2>6. ASSUME NEW p \in Up, NEW c \in sent, Ignore(p, c)
        PROVE  VotesInv' /\ [Abstract!Next]_Abstract!vars
    BY <1>1, <2>1, <2>6, IgnoreStep
  <2>7. ASSUME NEW c \in sent, Duplicate(c) PROVE FALSE
    BY <2>7 DEF Duplicate, Inv, TypeOK
  <2>8. QED
    BY <1>3, <2>2, <2>3, <2>4, <2>5, <2>6, <2>7 DEF Next
<1>4. QED
  BY <1>2, <1>3

(* The invariant holds throughout *)
LEMMA VotesInvariance ==
  ASSUME MaxDuplicates = 0
  PROVE  Spec => [](Inv /\ VotesInv)
<1>1. Init => Inv /\ VotesInv
  BY InitInv, InitVotes
<1>2. Inv /\ VotesInv /\ [Next]_vars => (Inv /\ VotesInv)'
  BY NextInv, NextVotes
<1>3. QED
  BY <1>1, <1>2, PTL DEF Spec

(* Every decision rests on the COMMITs of a quorum of different peers, for one round and value:
   the list that _classify counts, nested COMMITs included, and the one that a DECIDED message
   repeats *)
THEOREM DecidedByQuorumHolds ==
  ASSUME MaxDuplicates = 0
  PROVE  Spec => []DecidedByQuorum
<1>1. Inv /\ VotesInv => DecidedByQuorum
  <2> SUFFICES ASSUME Inv, VotesInv, NEW p \in Peer, Decided(p)
               PROVE  \E r \in {b.round : b \in SentBodies}, v \in Decision(p) :
                        Cardinality({b.peer : b \in {a \in SentBodies : /\ a.type = "COMMIT"
                                                                       /\ a.round = r
                                                                       /\ a.value = v}}) >= Quorum
    BY DEF DecidedByQuorum
  <2>1. PICK j \in q_commit[p] : TRUE
    BY DEF Decided
  <2>2. j[1].type = "COMMIT" /\ j[1] \in SentBodies /\ VoteQuorum("COMMIT", j[1].round, j[1].value)
    BY DEF Inv, PeerInv, VotesInv, Known
  <2>3. j[1].value \in Decision(p) /\ j[1].round \in {b.round : b \in SentBodies}
    BY <2>2 DEF Decision
  <2>4. QED
    BY <2>2, <2>3 DEF VoteQuorum, VotersFor
<1>2. QED
  BY <1>1, VotesInvariance, PTL

(* No peer sends a second PRE_PREPARE, PREPARE, COMMIT or ROUND_CHANGE of the same round, though
   dedup_rules forgets the rules at every round change *)
THEOREM OneVotePerRoundHolds ==
  ASSUME MaxDuplicates = 0
  PROVE  Spec => []OneVotePerRound
<1>1. Inv /\ VotesInv => OneVotePerRound
  <2> SUFFICES ASSUME Inv, VotesInv PROVE OneVotePerRound
    OBVIOUS
  <2> DEFINE votes == {c \in sent : c[1].msg.type # "DECIDED"}
             turn(c) == <<c[1].msg.type, c[1].msg.peer, c[1].msg.round>>
             turns == {turn(c) : c \in votes}
             f == [c \in votes |-> turn(c)]
  <2>1. \A c, d \in votes : turn(c) = turn(d) => c = d
    BY DEF VotesInv, Unique, SameVote
  <2>2. IsFiniteSet(votes)
    BY FS_Subset DEF Inv, SentInv
  <2>3. f \in Bijection(votes, turns)
    <3>1. f \in [votes -> turns] /\ \A t \in turns : \E c \in votes : f[c] = t
      OBVIOUS
    <3>2. IsInjective(f)
      BY <2>1 DEF IsInjective
    <3> HIDE DEF votes, turns, f
    <3>3. QED
      BY <3>1, <3>2 DEF Bijection, Injection, Surjection
  <2> HIDE DEF f
  <2>4. Cardinality(turns) = Cardinality(votes)
    BY <2>2, <2>3, FS_Bijection DEF ExistsBijection
  <2>5. QED
    BY <2>4 DEF OneVotePerRound
<1>2. QED
  BY <1>1, VotesInvariance, PTL

(* The instances implement the abstract protocol *)
LEMMA InitMaps == Init => Abstract!Init
BY EnvironmentAssumption, ClusterAssumption
DEF Init, Abstract!Init, Peer, Abstract!Peer, SentBodies, Decided, Decision

(* Without duplicates, what the instances do with buffers, upon-rules and nested justifications
   is what the peers of QBFTVotes do with the votes of quorums of peers *)
THEOREM ImplementsVotesHolds ==
  ASSUME MaxDuplicates = 0
  PROVE  Spec => ImplementsVotes
<1>1. Inv /\ VotesInv /\ [Next]_vars => [Abstract!Next]_Abstract!vars
  BY NextVotes
<1>2. QED
  BY <1>1, InitMaps, VotesInvariance, PTL DEF Spec, ImplementsVotes, Abstract!Spec

(* QBFTVotes with the theorems about it *)
Proved == INSTANCE QBFTVotes_proofs WITH
  Round <- 1 .. MaxRound,
  prepared <- [p \in Peer |-> [round |-> prepared[p].round, value |-> prepared[p].value]],
  decided <- [p \in Peer |-> IF Decided(p) THEN CHOOSE v \in Decision(p) : TRUE ELSE NoValue],
  msgs <- {b \in SentBodies : b.type # "DECIDED"}

(* What the instances implement is what those theorems are about *)
LEMMA SameProtocol ==
  /\ Proved!ClusterAssumption /\ Proved!RoundAssumption
  /\ Abstract!Init => Proved!Init
  /\ [Abstract!Next]_Abstract!vars => [Proved!Next]_Proved!vars
  /\ Proved!Agreement => Abstract!Agreement
<1>1. Proved!ClusterAssumption /\ Proved!RoundAssumption
  BY ClusterAssumption, EnvironmentAssumption
  DEF Proved!ClusterAssumption, Proved!RoundAssumption, Peer, Proved!Peer
<1>2. Abstract!Init => Proved!Init
  BY DEF Proved!Init, Abstract!Init, Proved!Peer, Abstract!Peer
<1>3. Abstract!Next => Proved!Next
  BY DEF Proved!Next, Abstract!Next, Proved!Peer, Abstract!Peer, Proved!PrePrepare,
         Proved!Prepare, Proved!Commit, Proved!GiveUp, Proved!Decide, Abstract!PrePrepare,
         Abstract!Prepare, Abstract!Commit, Abstract!GiveUp, Abstract!Decide, Proved!Active,
         Abstract!Active, Proved!IsLeader, Abstract!IsLeader, Proved!QuorumRC,
         Abstract!QuorumRC, Proved!VoteFor, Abstract!VoteFor, Proved!Voters, Abstract!Voters,
         Proved!Quorum, Abstract!Quorum, Proved!ChangeTo, Abstract!ChangeTo,
         Proved!Cardinality, Abstract!Cardinality
<1>4. UNCHANGED Abstract!vars => UNCHANGED Proved!vars
  BY DEF Proved!vars, Abstract!vars
<1>5. Proved!Agreement => Abstract!Agreement
  BY DEF Proved!Agreement, Abstract!Agreement, Proved!Active, Abstract!Active, Proved!Peer,
         Abstract!Peer
<1>6. QED
  BY <1>1, <1>2, <1>3, <1>4, <1>5

(* No two peers decide differently, in a cluster of any size, whoever crashes and whatever is
   lost, delayed or reordered: agreement of the abstract protocol carries over *)
THEOREM AgreementHolds ==
  ASSUME MaxDuplicates = 0
  PROVE  Spec => []Agreement
<1>1. Inv /\ VotesInv /\ [Next]_vars => [Proved!Next]_Proved!vars
  BY NextVotes, SameProtocol
<1>2. Init => Proved!Init
  BY InitMaps, SameProtocol
<1>3. Spec => Proved!Spec
  BY <1>1, <1>2, VotesInvariance, PTL DEF Spec, Proved!Spec
<1>4. Proved!Spec => []Proved!Agreement
  BY Proved!AgreementHolds, SameProtocol
<1>5. Inv /\ Proved!Agreement => Agreement
  <2> SUFFICES ASSUME Inv, Proved!Agreement, NEW p \in Peer, NEW q \in Peer,
                      NEW v \in Decision(p), NEW w \in Decision(q)
               PROVE  v = w
    BY DEF Agreement
  <2> DEFINE dec(o) == IF Decided(o) THEN CHOOSE x \in Decision(o) : TRUE ELSE NoValue
  <2>1. Decided(p) /\ Decided(q)
    BY DEF Decided, Decision
  <2>2. ASSUME NEW o \in Peer, NEW x \in Decision(o) PROVE Decision(o) = {x} /\ x \in Value
    BY InvFacts DEF Decision, PeerInv
  <2>3. dec(p) = v /\ dec(q) = w /\ v # NoValue /\ w # NoValue
    BY <2>1, <2>2, ClusterAssumption
  <2> HIDE DEF dec
  <2>4. QED
    BY <2>3 DEF Proved!Agreement, Proved!Active, Proved!Peer, Peer, dec
<1>6. QED
  BY <1>3, <1>4, <1>5, VotesInvariance, PTL

(* The instances decide as Consensus allows: once, alike, and what some peer proposed *)
THEOREM ImplementsConsensusHolds ==
  ASSUME MaxDuplicates = 0
  PROVE  Spec => ImplementsConsensus
<1> DEFINE dec == [p \in Peer |->
                     IF Decided(p) THEN CHOOSE v \in Decision(p) : TRUE ELSE NoValue]
<1>1. Inv /\ VotesInv /\ [Next]_vars => [Proved!Next]_Proved!vars
  BY NextVotes, SameProtocol
<1>2. Init => Proved!Init
  BY InitMaps, SameProtocol
<1>3. Spec => Proved!Spec
  BY <1>1, <1>2, VotesInvariance, PTL DEF Spec, Proved!Spec
<1>4. Proved!Spec => Proved!ImplementsConsensus
  BY Proved!ImplementsConsensusHolds, SameProtocol
<1>5. Proved!Agreed!Init => Abstract!Agreed!Init
  BY DEF Proved!Agreed!Init, Abstract!Agreed!Init, Proved!Agreed!Peer, Abstract!Agreed!Peer
<1>6. Proved!Agreed!Next => Abstract!Agreed!Next
  BY DEF Proved!Agreed!Next, Abstract!Agreed!Next, Proved!Agreed!Decide,
         Abstract!Agreed!Decide, Proved!Agreed!Proposed, Abstract!Agreed!Proposed,
         Proved!Agreed!Peer, Abstract!Agreed!Peer
<1>7. [Proved!Agreed!Next]_dec => [Abstract!Agreed!Next]_dec
  BY <1>6
<1>8. Proved!ImplementsConsensus => ImplementsConsensus
  BY <1>5, <1>7, PTL DEF ImplementsConsensus, Abstract!ImplementsConsensus,
                         Abstract!Agreed!Spec, Proved!ImplementsConsensus,
                         Proved!Agreed!Spec
<1>9. QED
  BY <1>3, <1>4, <1>8, PTL

-----------------------------------------------------------------------------
(* The PREPAREs of a list for value v in round r *)
PreparesFor(list, r, v) ==
  {b \in Bodies(list) : b.type = "PREPARE" /\ b.round = r /\ b.value = v}

(* A list is finite, and if it holds a PREPARE, it holds those of a quorum *)
Sound(list) ==
  /\ IsFiniteSet(list)
  /\ \A j \in list : j[1].type = "PREPARE" =>
       Cardinality(PreparesFor(list, j[1].round, j[1].value)) >= Quorum

(* The ROUND_CHANGEs that justify a proposal have prepared nothing, or are all different *)
NullOrDistinct(m) ==
  \/ \A j \in m.justification : j[1].type = "ROUND_CHANGE" => NullPrepared(j[1])
  \/ \A j \in m.justification : j[2] = 1

(* Lists in messages and instances are sound, and what is stored is justified *)
ListsInv ==
  /\ \A c \in sent : /\ Sound(c[1].justification)
                     /\ c[1].msg.type = "PRE_PREPARE" => NullOrDistinct(c[1])
  /\ \A p \in Peer : /\ Sound(prepared[p].justification) /\ IsFiniteSet(q_commit[p])
                     /\ \A c \in buffer[p] : Justified(c[1])

(* Messages, and so their bodies, are finitely many *)
LEMMA BodiesFinite ==
  ASSUME SentInv, NEW S \in SUBSET SentBodies
  PROVE  IsFiniteSet(S) /\ Cardinality(S) \in Nat
<1> DEFINE h == [c \in sent |-> c[1].msg]
<1>1. h \in Surjection(sent, SentBodies)
  BY DEF Surjection, SentBodies
<1>2. IsFiniteSet(SentBodies)
  BY <1>1, FS_Surjection DEF SentInv
<1>3. QED
  BY <1>2, FS_Subset, FS_CardinalityType

(* Of two sets of bodies, the larger one is a quorum if the other is *)
LEMMA LargerQuorum ==
  ASSUME SentInv, NEW S \in SUBSET SentBodies, NEW T \in SUBSET S, Cardinality(T) >= Quorum
  PROVE  Cardinality(S) >= Quorum
<1>1. IsFiniteSet(S) /\ Cardinality(S) \in Nat /\ Cardinality(T) \in Nat
  BY BodiesFinite
<1>2. Cardinality(T) <= Cardinality(S)
  BY <1>1, FS_Subset
<1>3. QED
  BY <1>1, <1>2, QuorumPositive

(* A flattened buffer is finite *)
LEMMA FlattenFinite ==
  ASSUME SentInv, NEW buf \in SUBSET sent, \A c \in buf : IsFiniteSet(c[1].justification)
  PROVE  IsFiniteSet(Flatten(buf))
<1> DEFINE direct == {<<c[1].msg, <<c>>>> : c \in buf}
           nested(c) == {<<j[1], <<c, j>>>> : j \in c[1].justification}
           all == {nested(c) : c \in buf}
<1>1. IsFiniteSet(buf)
  BY FS_Subset DEF SentInv
<1>2. IsFiniteSet(direct)
  <2> DEFINE f == [c \in buf |-> <<c[1].msg, <<c>>>>]
  <2>1. f \in Surjection(buf, direct)
    BY DEF Surjection
  <2>2. QED
    BY <1>1, <2>1, FS_Surjection
<1>3. \A c \in buf : IsFiniteSet(nested(c))
  <2> SUFFICES ASSUME NEW c \in buf PROVE IsFiniteSet(nested(c))
    OBVIOUS
  <2> DEFINE f == [j \in c[1].justification |-> <<j[1], <<c, j>>>>]
  <2>1. f \in Surjection(c[1].justification, nested(c))
    BY DEF Surjection
  <2>2. QED
    BY <2>1, FS_Surjection
<1>4. IsFiniteSet(all)
  <2> DEFINE f == [c \in buf |-> nested(c)]
  <2>1. f \in Surjection(buf, all)
    BY DEF Surjection
  <2>2. QED
    BY <1>1, <2>1, FS_Surjection
<1>5. IsFiniteSet(UNION all)
  BY <1>3, <1>4, FS_UNION
<1>6. Flatten(buf) = direct \cup UNION all
  BY DEF Flatten
<1> HIDE DEF direct, all
<1>7. QED
  BY <1>2, <1>5, <1>6, FS_Union

(* The list of finitely many entries is finite and leaves none of their bodies out *)
LEMMA ListedComplete ==
  ASSUME NEW entries, IsFiniteSet(entries)
  PROVE  /\ IsFiniteSet(Listed(entries))
         /\ \A e \in entries : <<e[1], 1>> \in Listed(entries)
<1> DEFINE n == Cardinality(entries)
           bodies == Bodies(entries)
<1>1. n \in Nat /\ IsFiniteSet(1 .. n)
  BY FS_CardinalityType, FS_Interval
<1>2. IsFiniteSet(bodies)
  <2> DEFINE f == [e \in entries |-> e[1]]
  <2>1. f \in Surjection(entries, bodies)
    BY DEF Surjection, Bodies
  <2>2. QED
    BY <2>1, FS_Surjection
<1>3. IsFiniteSet(bodies \X (1 .. n))
  BY <1>1, <1>2, FS_Product
<1>4. IsFiniteSet(Listed(entries))
  <2>1. Listed(entries) \subseteq bodies \X (1 .. n)
    BY DEF Listed
  <2>2. QED
    BY <1>3, <2>1, FS_Subset
<1>5. ASSUME NEW e \in entries PROVE <<e[1], 1>> \in Listed(entries)
  <2> DEFINE same == {d \in entries : d[1] = e[1]}
  <2>1. IsFiniteSet(same) /\ Cardinality(same) \in Nat /\ Cardinality(same) <= n /\ e \in same
    BY FS_Subset, FS_CardinalityType
  <2>2. Cardinality(same) # 0
    BY <2>1, FS_EmptySet
  <2>3. 1 <= Cardinality(same) /\ 1 \in 1 .. n
    BY <1>1, <2>1, <2>2
  <2>4. e[1] \in bodies
    BY DEF Bodies
  <2>5. QED
    BY <2>3, <2>4 DEF Listed
<1>6. QED
  BY <1>4, <1>5

(* Where the entries of a buffer, nested or not, come from *)
LEMMA FlattenFrom ==
  ASSUME NEW buf, NEW e \in Flatten(buf)
  PROVE  \/ \E c \in buf : e = <<c[1].msg, <<c>>>>
         \/ \E c \in buf : \E j \in c[1].justification : e = <<j[1], <<c, j>>>>
BY DEF Flatten

(* The entries that a copy in a buffer brings: its message, and those of its justification *)
LEMMA FlattenHas ==
  ASSUME NEW buf, NEW c \in buf
  PROVE  /\ <<c[1].msg, <<c>>>> \in Flatten(buf)
         /\ \A j \in c[1].justification : <<j[1], <<c, j>>>> \in Flatten(buf)
BY DEF Flatten

(* A quorum of PREPAREs in a buffer is one of different PREPAREs *)
LEMMA PreparesOfQuorum ==
  ASSUME SentInv, VotesInv, NEW buf \in SUBSET sent, \A c \in buf : Sound(c[1].justification),
         NEW r, NEW v, Cardinality(Votes(Flatten(buf), "PREPARE", r, v)) >= Quorum
  PROVE  Cardinality(PreparesFor(Flatten(buf), r, v)) >= Quorum
<1> DEFINE flat == Flatten(buf)
           votes == Votes(flat, "PREPARE", r, v)
           bodies == PreparesFor(flat, r, v)
<1>1. \A e \in votes : /\ e \in flat /\ e[1].type = "PREPARE" /\ e[1].round = r
                       /\ e[1].value = v /\ e[1] \in bodies
  BY DEF Votes, OfRound, PreparesFor, Bodies
<1>2. bodies \in SUBSET SentBodies
  <2>1. \A e \in flat : e[1] \in SentBodies
    BY FlattenSent
  <2>2. QED
    BY <2>1 DEF PreparesFor, Bodies
<1>3. CASE \E e \in votes, c \in buf : \E j \in c[1].justification : e[1] = j[1]
  <2>1. PICK c \in buf : \E j \in c[1].justification :
               j[1].type = "PREPARE" /\ j[1].round = r /\ j[1].value = v
    BY <1>1, <1>3
  <2>2. Cardinality(PreparesFor(c[1].justification, r, v)) >= Quorum
    BY <2>1 DEF Sound
  <2>3. PreparesFor(c[1].justification, r, v) \subseteq bodies
    <3>1. \A j \in c[1].justification : \E e \in flat : e[1] = j[1]
      <4>1. \A j \in c[1].justification : <<j[1], <<c, j>>>> \in flat
        BY FlattenHas
      <4>2. QED
        BY <4>1
    <3> HIDE DEF flat
    <3>2. QED
      BY <3>1 DEF PreparesFor, Bodies
  <2> HIDE DEF bodies
  <2>4. Cardinality(bodies) >= Quorum
    BY <1>2, <2>2, <2>3, LargerQuorum
  <2>5. QED
    BY <2>4 DEF bodies
<1>4. CASE ~\E e \in votes, c \in buf : \E j \in c[1].justification : e[1] = j[1]
  <2>1. \A e \in votes : \E c \in buf : e = <<c[1].msg, <<c>>>>
    BY <1>1, <1>4, FlattenFrom
  <2>2. \A e, d \in votes : e[1] = d[1] => e = d
    BY <1>1, <2>1 DEF VotesInv, Unique, SameVote
  <2> DEFINE f == [e \in votes |-> e[1]]
  <2> HIDE DEF votes, bodies
  <2>3. f \in Injection(votes, bodies)
    <3>1. f \in [votes -> bodies]
      BY <1>1
    <3>2. IsInjective(f)
      BY <2>2 DEF IsInjective
    <3>3. QED
      BY <3>1, <3>2 DEF Injection
  <2>4. IsFiniteSet(bodies) /\ Cardinality(bodies) \in Nat
    BY <1>2, BodiesFinite
  <2>5. Cardinality(votes) <= Cardinality(bodies) /\ Cardinality(votes) \in Nat
    BY <2>3, <2>4, FS_Injection, FS_CardinalityType
  <2>6. Cardinality(bodies) >= Quorum
    BY <2>4, <2>5, QuorumPositive DEF votes
  <2>7. QED
    BY <2>6 DEF bodies
<1>5. QED
  BY <1>3, <1>4

(* The lists that a rule makes of a buffer are sound *)
LEMMA PreparedSound ==
  ASSUME SentInv, VotesInv, NEW buf \in SUBSET sent, \A c \in buf : Sound(c[1].justification),
         NEW r, NEW v, Cardinality(Votes(Flatten(buf), "PREPARE", r, v)) >= Quorum
  PROVE  Sound(Listed(Votes(Flatten(buf), "PREPARE", r, v)))
<1> DEFINE flat == Flatten(buf)
           votes == Votes(flat, "PREPARE", r, v)
           list == Listed(votes)
<1>1. Cardinality(PreparesFor(flat, r, v)) >= Quorum
  BY PreparesOfQuorum
<1>2. IsFiniteSet(flat)
  BY FlattenFinite DEF Sound
<1>3. \A e \in flat : e[1] \in SentBodies /\ e[1] \in BodyType
  <2>1. \A e \in flat : e[1] \in SentBodies
    BY FlattenSent
  <2>2. SentBodies \subseteq BodyType
    BY DEF SentBodies, SentInv, MessageType
  <2>3. QED
    BY <2>1, <2>2
<1> HIDE DEF flat
<1>4. IsFiniteSet(votes) /\ votes \subseteq flat
  BY <1>2, FS_Subset DEF Votes, OfRound
<1>5. \A j \in list : j[1].type = "PREPARE" /\ j[1].round = r /\ j[1].value = v
  BY <1>3, VotesListed
<1>6. PreparesFor(flat, r, v) \subseteq PreparesFor(list, r, v)
  <2> SUFFICES ASSUME NEW b \in PreparesFor(flat, r, v) PROVE b \in PreparesFor(list, r, v)
    OBVIOUS
  <2>1. PICK e \in flat : b = e[1]
    BY DEF PreparesFor, Bodies
  <2>2. b.type = "PREPARE" /\ b.round = r /\ b.value = v
    BY DEF PreparesFor
  <2>3. e \in votes
    BY <2>1, <2>2 DEF Votes, OfRound
  <2> HIDE DEF votes
  <2>4. <<b, 1>> \in list
    BY <1>4, <2>1, <2>3, ListedComplete
  <2> HIDE DEF list
  <2>5. b \in Bodies(list)
    BY <2>4 DEF Bodies
  <2>6. QED
    BY <2>2, <2>5 DEF PreparesFor
<1>7. PreparesFor(list, r, v) \in SUBSET SentBodies
  <2>1. \A e \in votes : e[1] \in BodyType /\ e[1] \in SentBodies
    BY <1>3, <1>4
  <2> HIDE DEF votes
  <2>2. \A j \in list : j[1] \in SentBodies
    BY <2>1, ListedTyped
  <2> HIDE DEF list
  <2>3. QED
    BY <2>2 DEF PreparesFor, Bodies
<1>8. Cardinality(PreparesFor(list, r, v)) >= Quorum
  BY <1>1, <1>6, <1>7, LargerQuorum
<1>9. IsFiniteSet(list)
  BY <1>4, ListedComplete
<1> HIDE DEF list
<1>10. Sound(list)
  BY <1>5, <1>8, <1>9 DEF Sound
<1>11. QED
  BY <1>10 DEF list, votes, flat

(* So is the justification of a proposal *)
LEMMA QRCSound ==
  ASSUME SentInv, VotesInv, NEW buf \in SUBSET sent, \A c \in buf : Sound(c[1].justification),
         NEW r, NEW just \in JustifiedQRC(Flatten(buf), r)
  PROVE  /\ Sound(just)
         /\ \/ \A j \in just : j[1].type = "ROUND_CHANGE" => NullPrepared(j[1])
            \/ \A j \in just : j[2] = 1
<1> DEFINE flat == Flatten(buf)
           qrc == OfRound(flat, "ROUND_CHANGE", r)
           null == {e \in qrc : NullPrepared(e[1])}
           prepares == {b \in Bodies(flat) : b.type = "PREPARE"}
           PrepareSet(a) == {b \in prepares : b.round = a.round /\ b.value = a.value}
           Candidates(a) == {rc \in Bodies(qrc) : rc.prepared_round <= a.round}
<1>1. \A e \in flat : e[1] \in SentBodies /\ e[1] \in BodyType
  <2>1. \A e \in flat : e[1] \in SentBodies
    BY FlattenSent
  <2>2. SentBodies \subseteq BodyType
    BY DEF SentBodies, SentInv, MessageType
  <2>3. QED
    BY <2>1, <2>2
<1>2. IsFiniteSet(flat)
  BY FlattenFinite DEF Sound
<1>3. \A e \in qrc : e \in flat /\ e[1].type = "ROUND_CHANGE"
  BY DEF OfRound
<1>4. \/ just = Listed(null)
      \/ \E a \in prepares : /\ just = (Candidates(a) \cup PrepareSet(a)) \X {1}
                             /\ Cardinality(PrepareSet(a)) >= Quorum
  BY DEF JustifiedQRC
<1> HIDE DEF flat
<1>5. CASE just = Listed(null)
  <2>1. \A e \in null : /\ e \in flat /\ e[1].type = "ROUND_CHANGE" /\ NullPrepared(e[1])
                        /\ e[1] \in BodyType
    BY <1>1, <1>3
  <2>2. null \subseteq flat
    BY <2>1
  <2> HIDE DEF null
  <2>3. IsFiniteSet(just)
    BY <1>2, <1>5, <2>2, FS_Subset, ListedComplete
  <2>4. \A j \in just : j[1].type = "ROUND_CHANGE" /\ NullPrepared(j[1])
    <3>1. \A j \in just : \E e \in null : j[1] = e[1]
      BY <1>5, <2>1, ListedTyped
    <3>2. QED
      BY <2>1, <3>1
  <2>5. QED
    BY <2>3, <2>4 DEF Sound
<1>6. ASSUME NEW a \in prepares, just = (Candidates(a) \cup PrepareSet(a)) \X {1},
             Cardinality(PrepareSet(a)) >= Quorum
      PROVE  Sound(just) /\ \A j \in just : j[2] = 1
  <2> DEFINE C == Candidates(a)
             Q == PrepareSet(a)
  <2>1. \A b \in C : b \in SentBodies /\ b.type = "ROUND_CHANGE"
    BY <1>1, <1>3 DEF Bodies
  <2>2. \A b \in Q : /\ b \in SentBodies /\ b.type = "PREPARE"
                     /\ b.round = a.round /\ b.value = a.value
    BY <1>1 DEF Bodies
  <2>3. just = (C \cup Q) \X {1} /\ Cardinality(Q) >= Quorum
    BY <1>6
  <2> HIDE DEF C, Q
  <2>4. IsFiniteSet(just)
    <3>1. (C \cup Q) \in SUBSET SentBodies
      BY <2>1, <2>2
    <3>2. IsFiniteSet(C \cup Q)
      BY <3>1, BodiesFinite
    <3>3. IsFiniteSet({1})
      BY FS_Singleton
    <3>4. QED
      BY <2>3, <3>2, <3>3, FS_Product
  <2>5. \A j \in just : j[2] = 1 /\ (j[1] \in C \/ j[1] \in Q)
    BY <2>3
  <2>6. PreparesFor(just, a.round, a.value) = Q
    <3>1. ASSUME NEW b \in Q PROVE b \in PreparesFor(just, a.round, a.value)
      <4>1. <<b, 1>> \in just
        BY <2>3, <3>1
      <4>2. b \in Bodies(just)
        BY <4>1 DEF Bodies
      <4>3. QED
        BY <2>2, <4>2, <3>1 DEF PreparesFor
    <3>2. ASSUME NEW b \in PreparesFor(just, a.round, a.value) PROVE b \in Q
      BY <2>1, <2>5 DEF PreparesFor, Bodies
    <3>3. QED
      BY <3>1, <3>2
  <2>7. \A j \in just : j[1].type = "PREPARE" => j[1].round = a.round /\ j[1].value = a.value
    BY <2>1, <2>2, <2>5
  <2>8. QED
    BY <2>3, <2>4, <2>5, <2>6, <2>7 DEF Sound
<1>7. QED
  BY <1>4, <1>5, <1>6

(* A set of natural numbers has a least element *)
LEMMA LeastNatural ==
  ASSUME NEW T \in SUBSET Nat, T # {}
  PROVE  \E m \in T : \A k \in T : m <= k
<1>1. PICK m \in T : \A k \in T : <<k, m>> \notin OpToRel(<, Nat)
  BY NatLessThanWellFounded, WFMin, Zenon
<1>2. ASSUME NEW k \in T, k < m
      PROVE  FALSE
  <2>1. <<k, m>> \in Nat \X Nat
    OBVIOUS
  <2> QED
    BY <1>1, <1>2, <2>1 DEF OpToRel
<1> QED
  BY <1>2

(* What makes _classify find a justification: PREPAREs of a quorum, ROUND_CHANGEs of a quorum
   prepared no later, and one of them prepared by these PREPAREs *)
JustifiedBy(flat, r, a) ==
  LET changes == Bodies(OfRound(flat, "ROUND_CHANGE", r))
  IN  /\ a \in Bodies(flat) /\ a.type = "PREPARE"
      /\ Cardinality(PreparesFor(flat, a.round, a.value)) >= Quorum
      /\ Cardinality({rc \in changes : rc.prepared_round <= a.round}) >= Quorum
      /\ \E rc \in changes : /\ rc.prepared_round <= a.round
                             /\ rc.prepared_round = a.round
                             /\ rc.prepared_value = a.value

(* It finds one then, or if a quorum has prepared nothing *)
LEMMA FindsJustification ==
  ASSUME NEW flat, NEW r,
         \/ Cardinality({e \in OfRound(flat, "ROUND_CHANGE", r) : NullPrepared(e[1])}) >= Quorum
         \/ \E a : JustifiedBy(flat, r, a)
  PROVE  JustifiedQRC(flat, r) # {}
<1> DEFINE qrc == OfRound(flat, "ROUND_CHANGE", r)
           null == {e \in qrc : NullPrepared(e[1])}
           prepares == {b \in Bodies(flat) : b.type = "PREPARE"}
           PrepareSet(a) == {b \in prepares : b.round = a.round /\ b.value = a.value}
           Candidates(a) == {rc \in Bodies(qrc) : rc.prepared_round <= a.round}
           fit == {b \in prepares : /\ Cardinality(PrepareSet(b)) >= Quorum
                                    /\ Cardinality(Candidates(b)) >= Quorum
                                    /\ \E rc \in Candidates(b) : /\ rc.prepared_round = b.round
                                                                 /\ rc.prepared_value = b.value}
<1>1. JustifiedQRC(flat, r) = IF Cardinality(null) >= Quorum THEN {Listed(null)}
                              ELSE {(Candidates(a) \cup PrepareSet(a)) \X {1} : a \in fit}
  BY DEF JustifiedQRC
<1>2. ASSUME NEW a, JustifiedBy(flat, r, a) PROVE a \in fit
  <2>1. PrepareSet(a) = PreparesFor(flat, a.round, a.value)
    BY DEF PreparesFor
  <2>2. a \in prepares /\ Cardinality(PrepareSet(a)) >= Quorum
    BY <1>2, <2>1 DEF JustifiedBy
  <2>3. Cardinality(Candidates(a)) >= Quorum
    BY <1>2 DEF JustifiedBy
  <2>4. \E rc \in Candidates(a) : rc.prepared_round = a.round /\ rc.prepared_value = a.value
    BY <1>2 DEF JustifiedBy
  <2> HIDE DEF prepares, PrepareSet, Candidates
  <2>5. QED
    BY <2>2, <2>3, <2>4
<1> HIDE DEF null, fit, PrepareSet, Candidates
<1>3. CASE Cardinality(null) >= Quorum
  BY <1>1, <1>3
<1>4. CASE ~(Cardinality(null) >= Quorum)
  <2>1. PICK a : JustifiedBy(flat, r, a)
    BY <1>4 DEF null
  <2>2. a \in fit
    BY <1>2, <2>1
  <2>3. (Candidates(a) \cup PrepareSet(a)) \X {1} \in JustifiedQRC(flat, r)
    BY <1>1, <1>4, <2>2
  <2>4. QED
    BY <2>3
<1>5. QED
  BY <1>3, <1>4

(* A buffer that holds a proposal for the round holds its justification *)
LEMMA ProposedJustified ==
  ASSUME SentInv, VotesInv, NEW buf \in SUBSET sent, \A c \in buf : Sound(c[1].justification),
         NEW c \in buf, c[1].msg.type = "PRE_PREPARE", Justified(c[1]), c[1].msg.round # 1,
         NullOrDistinct(c[1])
  PROVE  JustifiedQRC(Flatten(buf), c[1].msg.round) # {}
<1> DEFINE r == c[1].msg.round
           list == c[1].justification
           flat == Flatten(buf)
           null == {e \in OfRound(flat, "ROUND_CHANGE", r) : NullPrepared(e[1])}
           qrc == OfRound(list, "ROUND_CHANGE", r)
           prepares == {j \in list : j[1].type = "PREPARE"}
<1>1. \A e \in flat : e[1] \in SentBodies
  BY FlattenSent
<1>2. \A j \in list : <<j[1], <<c, j>>>> \in flat
  BY FlattenHas
<1>3. IsFiniteSet(flat)
  BY FlattenFinite DEF Sound
<1> HIDE DEF flat
<1>4. /\ Cardinality(qrc) >= Quorum
      /\ \/ \A rc \in qrc : NullPrepared(rc[1])
         \/ \E j \in prepares : /\ \A rc \in qrc : rc[1].prepared_round <= j[1].round
                                /\ \E rc \in qrc : /\ rc[1].prepared_round = j[1].round
                                                   /\ rc[1].prepared_value = j[1].value
  <2>1. JustifiedPrePrepare(c[1])
    BY DEF Justified
  <2>2. QED
    BY <2>1 DEF JustifiedPrePrepare
<1>5. \A j \in qrc : j \in list /\ j[1].type = "ROUND_CHANGE" /\ j[1].round = r
  BY DEF OfRound
<1> HIDE DEF qrc
<1>6. CASE \A rc \in qrc : NullPrepared(rc[1])
  <2> DEFINE f == [j \in qrc |-> <<j[1], <<c, j>>>>]
  <2>1. \A j \in qrc : <<j[1], <<c, j>>>> \in null
    BY <1>2, <1>5, <1>6 DEF OfRound
  <2>2. IsFiniteSet(null) /\ Cardinality(null) \in Nat
    <3>1. null \subseteq flat
      BY DEF OfRound
    <3>2. QED
      BY <1>3, <3>1, FS_Subset, FS_CardinalityType
  <2> HIDE DEF null
  <2>3. f \in Injection(qrc, null)
    <3>1. f \in [qrc -> null]
      BY <2>1
    <3>2. IsInjective(f)
      BY DEF IsInjective
    <3>3. QED
      BY <3>1, <3>2 DEF Injection
  <2>4. Cardinality(qrc) <= Cardinality(null) /\ Cardinality(qrc) \in Nat
    BY <2>2, <2>3, FS_Injection, FS_CardinalityType
  <2>5. Cardinality(null) >= Quorum
    BY <1>4, <2>2, <2>4, QuorumPositive
  <2>6. QED
    BY <2>5, FindsJustification DEF null, flat
<1>7. CASE ~\A rc \in qrc : NullPrepared(rc[1])
  <2>1. PICK j \in prepares : /\ \A rc \in qrc : rc[1].prepared_round <= j[1].round
                              /\ \E rc \in qrc : /\ rc[1].prepared_round = j[1].round
                                                 /\ rc[1].prepared_value = j[1].value
    BY <1>4, <1>7
  <2> DEFINE a == j[1]
             changes == Bodies(OfRound(flat, "ROUND_CHANGE", r))
             candidates == {rc \in changes : rc.prepared_round <= a.round}
             f == [rc \in qrc |-> rc[1]]
  <2>2. j \in list /\ a.type = "PREPARE"
    OBVIOUS
  <2>3. a \in Bodies(flat)
    <3>1. \E e \in flat : e[1] = a
      BY <1>2, <2>2
    <3>2. QED
      BY <3>1 DEF Bodies
  <2>4. Cardinality(PreparesFor(flat, a.round, a.value)) >= Quorum
    <3>1. Cardinality(PreparesFor(list, a.round, a.value)) >= Quorum
      BY <2>2 DEF Sound
    <3>2. \A i \in list : \E e \in flat : e[1] = i[1]
      BY <1>2
    <3>3. PreparesFor(list, a.round, a.value) \subseteq PreparesFor(flat, a.round, a.value)
      BY <3>2 DEF PreparesFor, Bodies
    <3>4. PreparesFor(flat, a.round, a.value) \in SUBSET SentBodies
      BY <1>1 DEF PreparesFor, Bodies
    <3>5. QED
      BY <3>1, <3>3, <3>4, LargerQuorum
  <2>5. \A rc \in qrc : rc[1] \in changes /\ rc[1] \in candidates
    <3> SUFFICES ASSUME NEW rc \in qrc PROVE rc[1] \in changes
      BY <2>1
    <3>1. <<rc[1], <<c, rc>>>> \in OfRound(flat, "ROUND_CHANGE", r)
      BY <1>2, <1>5 DEF OfRound
    <3>2. QED
      BY <3>1 DEF Bodies
  <2>6. \A i, k \in qrc : i[1] = k[1] => i = k
    <3>1. \A i \in list : i[2] = 1
      BY <1>5, <1>7 DEF NullOrDistinct
    <3>2. list \subseteq BodyType \X Nat
      BY DEF SentInv, MessageType, ListType
    <3>3. QED
      BY <1>5, <3>1, <3>2
  <2>7. candidates \in SUBSET SentBodies
    BY <1>1 DEF Bodies, OfRound
  <2>8. IsFiniteSet(candidates) /\ Cardinality(candidates) \in Nat
    BY <2>7, BodiesFinite
  <2>9. \E rc \in changes : /\ rc.prepared_round <= a.round
                            /\ rc.prepared_round = a.round
                            /\ rc.prepared_value = a.value
    BY <2>1, <2>5
  <2> HIDE DEF candidates
  <2>10. f \in Injection(qrc, candidates)
    <3>1. f \in [qrc -> candidates]
      BY <2>5
    <3>2. IsInjective(f)
      BY <2>6 DEF IsInjective
    <3>3. QED
      BY <3>1, <3>2 DEF Injection
  <2>11. Cardinality(qrc) <= Cardinality(candidates) /\ Cardinality(qrc) \in Nat
    BY <2>8, <2>10, FS_Injection, FS_CardinalityType
  <2>12. Cardinality(candidates) >= Quorum
    BY <1>4, <2>8, <2>11, QuorumPositive
  <2>13. JustifiedBy(flat, r, a)
    BY <2>2, <2>3, <2>4, <2>9, <2>12 DEF JustifiedBy, candidates
  <2>14. QED
    BY <2>13, FindsJustification DEF flat
<1>8. QED
  BY <1>6, <1>7

(* One that holds none has the ROUND_CHANGEs of as many peers, and with the highest prepared
   one among them the PREPAREs that prove it *)
LEMMA UnproposedJustified ==
  ASSUME SentInv, VotesInv, NEW buf \in SUBSET sent, \A c \in buf : Sound(c[1].justification),
         \A c \in buf : Justified(c[1]), NEW r, Unproposed(buf, r),
         Cardinality(OfRound(Flatten(buf), "ROUND_CHANGE", r)) >= Quorum
  PROVE  JustifiedQRC(Flatten(buf), r) # {}
<1> DEFINE flat == Flatten(buf)
           qrc == OfRound(flat, "ROUND_CHANGE", r)
           null == {e \in qrc : NullPrepared(e[1])}
<1>1. \A e \in flat : e[1] \in SentBodies /\ e[1] \in BodyType /\ Sane(e[1])
  <2>1. \A e \in flat : e[1] \in SentBodies /\ Sane(e[1])
    BY FlattenSent
  <2>2. SentBodies \subseteq BodyType
    BY DEF SentBodies, SentInv, MessageType
  <2>3. QED
    BY <2>1, <2>2
<1>2. \A e \in qrc : e \in flat /\ e[1].type = "ROUND_CHANGE" /\ e[1].round = r
  BY DEF OfRound
<1>3. \A e \in qrc : \E c \in buf : e = <<c[1].msg, <<c>>>>
  <2> SUFFICES ASSUME NEW e \in qrc PROVE \E c \in buf : e = <<c[1].msg, <<c>>>>
    OBVIOUS
  <2>1. e \in flat /\ e[1].type = "ROUND_CHANGE" /\ e[1].round = r
    BY <1>2
  <2>2. ASSUME NEW c \in buf, NEW j \in c[1].justification, e = <<j[1], <<c, j>>>> PROVE FALSE
    <3>1. j[1].type = "ROUND_CHANGE" /\ j[1].round = r
      BY <2>1, <2>2
    <3>2. c[1].msg.type = "PRE_PREPARE" /\ c[1].msg.round = r
      BY <3>1 DEF VotesInv, Proper
    <3>3. QED
      BY <3>2 DEF Unproposed
  <2>3. QED
    BY <2>1, <2>2, FlattenFrom
<1>4. \A e, d \in qrc : e[1] = d[1] => e = d
  BY <1>2, <1>3 DEF VotesInv, Unique, SameVote
<1>5. \A c \in buf : /\ <<c[1].msg, <<c>>>> \in flat
                     /\ \A j \in c[1].justification : <<j[1], <<c, j>>>> \in flat
  BY FlattenHas
<1>6. Cardinality(qrc) >= Quorum
  OBVIOUS
<1> HIDE DEF flat, qrc
<1>7. ASSUME NEW e \in qrc, ~NullPrepared(e[1])
      PROVE  \E a \in BodyType :
               /\ a \in Bodies(flat) /\ a.type = "PREPARE"
               /\ a.round = e[1].prepared_round /\ a.value = e[1].prepared_value
               /\ a.round <= MaxRound
               /\ Cardinality(PreparesFor(flat, a.round, a.value)) >= Quorum
  <2>1. PICK c \in buf : e = <<c[1].msg, <<c>>>>
    BY <1>3
  <2> DEFINE list == c[1].justification
             votes == Votes(list, "PREPARE", e[1].prepared_round, e[1].prepared_value)
  <2>2. c[1].msg = e[1] /\ c[1].msg.type = "ROUND_CHANGE"
    BY <1>2, <2>1
  <2>3. Cardinality(votes) >= Quorum
    <3>1. JustifiedRoundChange(c[1])
      BY <2>2 DEF Justified
    <3>2. QED
      BY <1>7, <2>2, <3>1 DEF JustifiedRoundChange
  <2>4. votes # {}
    BY <2>3, QuorumNotEmpty
  <2>5. PICK j \in list : /\ j[1].type = "PREPARE" /\ j[1].round = e[1].prepared_round
                          /\ j[1].value = e[1].prepared_value
    BY <2>4 DEF Votes, OfRound
  <2> DEFINE a == j[1]
  <2>6. \A i \in list : \E d \in flat : d[1] = i[1]
    BY <1>5
  <2>7. PICK d \in flat : d[1] = a
    BY <2>6
  <2>8. a \in Bodies(flat) /\ a \in BodyType /\ a.round <= MaxRound
    BY <1>1, <2>7 DEF Bodies, Sane
  <2>9. Cardinality(PreparesFor(flat, a.round, a.value)) >= Quorum
    <3>1. Cardinality(PreparesFor(list, a.round, a.value)) >= Quorum
      BY <2>5 DEF Sound
    <3>2. PreparesFor(list, a.round, a.value) \subseteq PreparesFor(flat, a.round, a.value)
      BY <2>6 DEF PreparesFor, Bodies
    <3>3. PreparesFor(flat, a.round, a.value) \in SUBSET SentBodies
      BY <1>1 DEF PreparesFor, Bodies
    <3>4. QED
      BY <3>1, <3>2, <3>3, LargerQuorum
  <2>10. QED
    BY <2>5, <2>8, <2>9
<1>8. \A e \in qrc : e[1].prepared_round \in Nat /\ e[1].prepared_round <= MaxRound
  <2> SUFFICES ASSUME NEW e \in qrc
               PROVE  e[1].prepared_round \in Nat /\ e[1].prepared_round <= MaxRound
    OBVIOUS
  <2>1. e[1].prepared_round \in Nat
    BY <1>1, <1>2 DEF BodyType
  <2>2. CASE NullPrepared(e[1])
    BY <2>1, <2>2, EnvironmentAssumption DEF NullPrepared
  <2>3. CASE ~NullPrepared(e[1])
    BY <2>1, <2>3, <1>7
  <2>4. QED
    BY <2>1, <2>2, <2>3
<1>9. PICK h \in qrc : \A e \in qrc : e[1].prepared_round <= h[1].prepared_round
  <2> DEFINE T == {MaxRound - e[1].prepared_round : e \in qrc}
  <2>1. T \in SUBSET Nat
    BY <1>8, EnvironmentAssumption
  <2>2. T # {}
    BY <1>6, QuorumNotEmpty
  <2> HIDE DEF T
  <2>3. PICK m \in T : \A k \in T : m <= k
    BY <2>1, <2>2, LeastNatural
  <2>4. PICK h \in qrc : m = MaxRound - h[1].prepared_round
    BY <2>3 DEF T
  <2>5. ASSUME NEW e \in qrc PROVE e[1].prepared_round <= h[1].prepared_round
    <3>1. MaxRound - e[1].prepared_round \in T
      BY DEF T
    <3>2. MaxRound - h[1].prepared_round <= MaxRound - e[1].prepared_round
      BY <2>3, <2>4, <3>1
    <3>3. QED
      BY <1>8, <3>2, EnvironmentAssumption
  <2>6. QED
    BY <2>5
<1>10. CASE NullPrepared(h[1])
  <2>1. \A e \in qrc : NullPrepared(e[1])
    <3> SUFFICES ASSUME NEW e \in qrc, ~NullPrepared(e[1]) PROVE FALSE
      OBVIOUS
    <3>1. PICK a \in BodyType : a.round = e[1].prepared_round
      BY <1>7
    <3>2. e[1].prepared_round > 0
      BY <3>1 DEF BodyType
    <3>3. QED
      BY <1>8, <1>9, <1>10, <3>2 DEF NullPrepared
  <2>2. null = qrc
    BY <2>1
  <2> HIDE DEF null
  <2>3. Cardinality(null) >= Quorum
    BY <1>6, <2>2
  <2>4. QED
    BY <2>3, FindsJustification DEF null, qrc, flat
<1>11. CASE ~NullPrepared(h[1])
  <2>1. PICK a \in BodyType :
          /\ a \in Bodies(flat) /\ a.type = "PREPARE"
          /\ a.round = h[1].prepared_round /\ a.value = h[1].prepared_value
          /\ Cardinality(PreparesFor(flat, a.round, a.value)) >= Quorum
    BY <1>7, <1>11
  <2> DEFINE changes == Bodies(qrc)
             candidates == {rc \in changes : rc.prepared_round <= a.round}
             f == [e \in qrc |-> e[1]]
  <2>2. \A e \in qrc : e[1] \in changes /\ e[1] \in candidates
    BY <1>9, <2>1 DEF Bodies
  <2>3. candidates \in SUBSET SentBodies
    BY <1>1, <1>2 DEF Bodies
  <2>4. IsFiniteSet(candidates) /\ Cardinality(candidates) \in Nat
    BY <2>3, BodiesFinite
  <2>5. \E rc \in changes : /\ rc.prepared_round <= a.round
                            /\ rc.prepared_round = a.round
                            /\ rc.prepared_value = a.value
    BY <2>1, <2>2
  <2> HIDE DEF candidates
  <2>6. f \in Injection(qrc, candidates)
    <3>1. f \in [qrc -> candidates]
      BY <2>2
    <3>2. IsInjective(f)
      BY <1>4 DEF IsInjective
    <3>3. QED
      BY <3>1, <3>2 DEF Injection
  <2>7. Cardinality(qrc) <= Cardinality(candidates) /\ Cardinality(qrc) \in Nat
    BY <2>4, <2>6, FS_Injection, FS_CardinalityType
  <2>8. Cardinality(candidates) >= Quorum
    BY <1>6, <2>4, <2>7, QuorumPositive
  <2>9. JustifiedBy(flat, r, a)
    BY <2>1, <2>5, <2>8 DEF JustifiedBy, candidates, qrc
  <2>10. QED
    BY <2>9, FindsJustification DEF flat
<1>12. QED
  BY <1>10, <1>11

(* A message with a sound justification *)
SoundMessage(m) ==
  Sound(m.justification) /\ (m.msg.type = "PRE_PREPARE" => NullOrDistinct(m))

(* A step of p makes sound lists, and stores what is justified *)
ListStep(p) ==
  /\ prepared'[p] = prepared[p] \/ Sound(prepared'[p].justification)
  /\ q_commit'[p] = q_commit[p] \/ IsFiniteSet(q_commit'[p])
  /\ \A c \in buffer'[p] \ buffer[p] : Justified(c[1])
  /\ \A c \in sent' \ sent : SoundMessage(c[1])

(* Such a step keeps lists sound *)
LEMMA ListStepKeeps ==
  ASSUME ListsInv, NEW p \in Peer, OthersSame(p), ListStep(p)
  PROVE  ListsInv'
<1>1. \A c \in sent' : SoundMessage(c[1])
  BY DEF ListsInv, ListStep, SoundMessage
<1>2. ASSUME NEW q \in Peer
      PROVE  /\ Sound(prepared'[q].justification) /\ IsFiniteSet(q_commit'[q])
             /\ \A c \in buffer'[q] : Justified(c[1])
  <2>1. CASE q = p
    BY <2>1 DEF ListsInv, ListStep
  <2>2. CASE q # p
    <3>1. prepared'[q] = prepared[q] /\ q_commit'[q] = q_commit[q] /\ buffer'[q] = buffer[q]
      BY <2>2 DEF OthersSame
    <3>2. QED
      BY <3>1 DEF ListsInv
  <2>3. QED
    BY <2>1, <2>2
<1>3. QED
  BY <1>1, <1>2 DEF ListsInv, SoundMessage

(* A message without a justification is sound *)
LEMMA EmptySound ==
  ASSUME NEW m, m.justification = {}
  PROVE  SoundMessage(m)
BY FS_EmptySet DEF SoundMessage, Sound, NullOrDistinct

(* A broadcast adds one message *)
LEMMA SoundBroadcast ==
  ASSUME NEW m, Broadcast(m), SoundMessage(m)
  PROVE  \A c \in sent' \ sent : SoundMessage(c[1])
BY DEF Broadcast

(* A ROUND_CHANGE repeats what its sender has prepared *)
LEMMA RoundChangeSound ==
  ASSUME ListsInv, NEW p \in Peer, NEW r, NEW known
  PROVE  SoundMessage(RoundChange(p, r, known))
<1> DEFINE m == RoundChange(p, r, known)
<1>1. m.justification = prepared[p].justification /\ m.msg.type = "ROUND_CHANGE"
  BY DEF RoundChange, Body
<1>2. QED
  BY <1>1 DEF ListsInv, SoundMessage

(* handle_message of an undecided instance, with any of its rules *)
LEMMA HandleLists ==
  ASSUME Inv, VotesInv, ListsInv, NEW p \in Up, NEW c \in sent, Handle(p, c)
  PROVE  ListStep(p)
<1> DEFINE b == c[1].msg
           buf == buffer[p] \cup {c}
           flat == Flatten(buf)
           rule == Classify(p, b, flat)
<1>1. /\ p \in Peer /\ SentInv /\ buf \in SUBSET sent /\ buffer'[p] = buf /\ Justified(c[1])
      /\ prepared = [q \in Peer |-> prepared[q]] /\ q_commit = [q \in Peer |-> q_commit[q]]
  BY HandleFacts, InvFacts
<1>2. \A d \in buffer'[p] \ buffer[p] : Justified(d[1])
  BY <1>1
<1>3. \A d \in buf : Sound(d[1].justification)
  BY <1>1 DEF ListsInv
<1>4. /\ rule = "QUORUM_PREPARES" => Cardinality(Votes(flat, "PREPARE", b.round, b.value)) >= Quorum
      /\ rule = "QUORUM_COMMITS" => Cardinality(Votes(flat, "COMMIT", b.round, b.value)) >= Quorum
  BY ClassifyFacts
<1>5. \A t, q, r, v, just, known :
        /\ Message(t, q, r, v, just, known).justification = just
        /\ Message(t, q, r, v, just, known).msg.type = t
  BY DEF Message, Body
<1> HIDE DEF rule, flat, buf
<1>6. CASE UNCHANGED <<prepared, q_commit, sent>>
  BY <1>2, <1>6 DEF ListStep
<1>7. CASE UponJustifiedPrePrepare(p, b)
  BY <1>2, <1>5, <1>7, EmptySound, SoundBroadcast DEF UponJustifiedPrePrepare, ListStep
<1>8. CASE rule = "QUORUM_PREPARES" /\ UponQuorumPrepares(p, b, flat)
  <2> DEFINE list == Listed(Votes(flat, "PREPARE", b.round, b.value))
  <2>1. Sound(list)
    BY <1>1, <1>3, <1>4, <1>8, PreparedSound DEF flat
  <2>2. prepared' = [prepared EXCEPT ![p] = [round |-> b.round, value |-> b.value,
                                             justification |-> list]]
    BY <1>8 DEF UponQuorumPrepares
  <2> HIDE DEF list
  <2>3. prepared'[p].justification = list
    BY <1>1, <2>2
  <2>4. /\ Broadcast(Message("COMMIT", p, round[p], b.value, {}, values'[p]))
        /\ UNCHANGED q_commit
    BY <1>8 DEF UponQuorumPrepares
  <2>5. \A d \in sent' \ sent : SoundMessage(d[1])
    BY <1>5, <2>4, EmptySound, SoundBroadcast
  <2>6. QED
    BY <1>2, <2>1, <2>3, <2>4, <2>5 DEF ListStep
<1>9. CASE rule = "QUORUM_COMMITS" /\ UponQuorumCommits(p, b, flat)
  <2> DEFINE votes == Votes(flat, "COMMIT", b.round, b.value)
  <2>1. IsFiniteSet(flat)
    BY <1>1, <1>3, FlattenFinite DEF Sound, flat
  <2>2. IsFiniteSet(votes)
    BY <2>1, FS_Subset DEF Votes, OfRound
  <2>3. q_commit' = [q_commit EXCEPT ![p] = Listed(votes)] /\ UNCHANGED <<prepared, sent>>
    BY <1>9 DEF UponQuorumCommits
  <2> HIDE DEF votes
  <2>4. IsFiniteSet(Listed(votes))
    BY <2>2, ListedComplete
  <2>5. q_commit'[p] = Listed(votes)
    BY <1>1, <2>3
  <2>6. QED
    BY <1>2, <2>3, <2>4, <2>5 DEF ListStep
<1>10. CASE UponJustifiedDecided(p, c[1])
  <2>1. q_commit' = [q_commit EXCEPT ![p] = c[1].justification] /\ UNCHANGED <<prepared, sent>>
    BY <1>10 DEF UponJustifiedDecided
  <2>2. q_commit'[p] = c[1].justification /\ IsFiniteSet(c[1].justification)
    BY <1>1, <2>1 DEF ListsInv, Sound
  <2>3. QED
    BY <1>2, <2>1, <2>2 DEF ListStep
<1>11. CASE UponFPlus1RoundChanges(p, flat)
  <2>1. PICK r : Broadcast(RoundChange(p, r, values'[p]))
    BY <1>11 DEF UponFPlus1RoundChanges
  <2>2. UNCHANGED <<prepared, q_commit>>
    BY <1>11 DEF UponFPlus1RoundChanges
  <2>3. \A d \in sent' \ sent : SoundMessage(d[1])
    BY <1>1, <2>1, RoundChangeSound, SoundBroadcast
  <2>4. QED
    BY <1>2, <2>2, <2>3 DEF ListStep
<1>12. CASE UponQuorumRoundChanges(p, flat)
  <2>1. PICK just \in JustifiedQRC(flat, round[p]) :
          Broadcast(Message("PRE_PREPARE", p, round[p], ProposedValue(p, just), just, values'[p]))
    BY <1>12 DEF UponQuorumRoundChanges
  <2> DEFINE m == Message("PRE_PREPARE", p, round[p], ProposedValue(p, just), just, values'[p])
  <2>2. m.justification = just
    BY <1>5
  <2>3. /\ Sound(just)
        /\ \/ \A j \in just : j[1].type = "ROUND_CHANGE" => NullPrepared(j[1])
           \/ \A j \in just : j[2] = 1
    BY <1>1, <1>3, QRCSound DEF flat
  <2> HIDE DEF m
  <2>4. SoundMessage(m)
    BY <2>2, <2>3 DEF SoundMessage, NullOrDistinct
  <2>5. \A d \in sent' \ sent : SoundMessage(d[1])
    BY <2>1, <2>4, SoundBroadcast DEF m
  <2>6. UNCHANGED <<prepared, q_commit>>
    BY <1>12 DEF UponQuorumRoundChanges
  <2>7. QED
    BY <1>2, <2>5, <2>6 DEF ListStep
<1>13. QED
  BY <1>6, <1>7, <1>8, <1>9, <1>10, <1>11, <1>12 DEF Handle, flat, rule, buf

(* Without duplicates every step keeps the lists sound *)
LEMMA NextLists ==
  ASSUME MaxDuplicates = 0, Inv, VotesInv, ListsInv, [Next]_vars
  PROVE  ListsInv'
<1>1. Inv' /\ Up \subseteq Peer
  BY NextInv, EnvironmentAssumption
<1>2. \A t, q, r, v, just, known :
        /\ Message(t, q, r, v, just, known).justification = just
        /\ Message(t, q, r, v, just, known).msg.type = t
  BY DEF Message, Body
<1>3. CASE UNCHANGED vars
  BY <1>3 DEF vars, ListsInv
<1>4. ASSUME NEW p \in Up, Start(p) PROVE ListsInv'
  <2>1. OthersSame(p)
    BY <1>1, <1>4, StartStep DEF VoteStep
  <2>2. ListStep(p)
    BY <1>2, <1>4, EmptySound, SoundBroadcast DEF Start, ListStep
  <2>3. QED
    BY <1>1, <2>1, <2>2, ListStepKeeps
<1>5. ASSUME NEW p \in Up, Timeout(p) PROVE ListsInv'
  <2>1. OthersSame(p)
    BY <1>1, <1>5, TimeoutStep DEF VoteStep
  <2>2. ListStep(p)
    BY <1>1, <1>5, RoundChangeSound, SoundBroadcast DEF Timeout, ListStep
  <2>3. QED
    BY <1>1, <2>1, <2>2, ListStepKeeps
<1>6. ASSUME NEW p \in Up, NEW c \in sent, Handle(p, c) PROVE ListsInv'
  <2>1. OthersSame(p)
    BY <1>1, <1>6, HandleStep DEF VoteStep
  <2>2. QED
    BY <1>1, <1>6, <2>1, HandleLists, ListStepKeeps
<1>7. ASSUME NEW p \in Up, NEW c \in sent, ResendDecided(p, c) PROVE ListsInv'
  <2>1. OthersSame(p) /\ p \in Peer
    BY <1>1, <1>7, ResendDecidedStep DEF VoteStep
  <2>2. PICK v : Broadcast(Message("DECIDED", p, round[p], v, q_commit[p], values'[p]))
    BY <1>7 DEF ResendDecided
  <2> DEFINE m == Message("DECIDED", p, round[p], v, q_commit[p], values'[p])
  <2>3. m.justification = q_commit[p] /\ m.msg.type = "DECIDED"
    BY <1>2
  <2> HIDE DEF m
  <2>4. Sound(q_commit[p])
    <3>1. \A j \in q_commit[p] : j[1].type = "COMMIT"
      BY <2>1 DEF Inv, PeerInv
    <3>2. QED
      BY <2>1, <3>1 DEF ListsInv, Sound
  <2>5. SoundMessage(m)
    BY <2>3, <2>4 DEF SoundMessage
  <2>6. \A d \in sent' \ sent : SoundMessage(d[1])
    BY <2>2, <2>5, SoundBroadcast DEF m
  <2>7. ListStep(p)
    BY <1>7, <2>6 DEF ResendDecided, ListStep
  <2>8. QED
    BY <2>1, <2>7, ListStepKeeps
<1>8. ASSUME NEW p \in Up, NEW c \in sent, Ignore(p, c) PROVE ListsInv'
  BY <1>8 DEF Ignore, ListsInv
<1>9. ASSUME NEW c \in sent, Duplicate(c) PROVE FALSE
  BY <1>9 DEF Duplicate, Inv, TypeOK
<1>10. QED
  BY <1>3, <1>4, <1>5, <1>6, <1>7, <1>8, <1>9 DEF Next

(* A leader that holds a quorum of ROUND_CHANGEs of its round can justify a proposal, whatever
   copies are nested in what it has stored: UNJUST_QUORUM_ROUND_CHANGES does not happen *)
THEOREM QuorumRoundChangesJustifiedHolds ==
  ASSUME MaxDuplicates = 0
  PROVE  Spec => []QuorumRoundChangesJustified
<1>1. Init => Inv /\ VotesInv /\ ListsInv
  <2>1. Init => ListsInv
    <3> SUFFICES ASSUME Init PROVE ListsInv
      OBVIOUS
    <3>1. sent = {} /\ Sound({}) /\ IsFiniteSet({})
      BY FS_EmptySet DEF Init, Sound
    <3>2. \A p \in Peer : prepared[p].justification = {} /\ q_commit[p] = {} /\ buffer[p] = {}
      BY DEF Init
    <3>3. QED
      BY <3>1, <3>2 DEF ListsInv
  <2>2. QED
    BY <2>1, InitInv, InitVotes
<1>2. Inv /\ VotesInv /\ ListsInv /\ [Next]_vars => (Inv /\ VotesInv /\ ListsInv)'
  BY NextInv, NextVotes, NextLists
<1>3. Inv /\ VotesInv /\ ListsInv => QuorumRoundChangesJustified
  <2> SUFFICES ASSUME Inv, VotesInv, ListsInv, NEW p \in Peer,
                      Cardinality(OfRound(Flatten(buffer[p]), "ROUND_CHANGE", round[p])) >= Quorum
               PROVE  JustifiedQRC(Flatten(buffer[p]), round[p]) # {}
    BY DEF QuorumRoundChangesJustified
  <2> DEFINE r == round[p]
             buf == buffer[p]
  <2>1. SentInv /\ buf \in SUBSET sent
    BY InvFacts
  <2>2. \A c \in buf : Sound(c[1].justification) /\ Justified(c[1])
    BY <2>1 DEF ListsInv
  <2>3. r # 1
    <3>1. OfRound(Flatten(buf), "ROUND_CHANGE", r) # {}
      BY QuorumNotEmpty
    <3>2. PICK e \in Flatten(buf) : e[1].type = "ROUND_CHANGE" /\ e[1].round = r
      BY <3>1 DEF OfRound
    <3>3. Sane(e[1])
      BY <2>1, FlattenSent
    <3>4. QED
      BY <3>2, <3>3 DEF Sane
  <2>4. CASE Unproposed(buf, r)
    BY <2>1, <2>2, <2>4, UnproposedJustified
  <2>5. CASE ~Unproposed(buf, r)
    <3>1. PICK c \in buf : c[1].msg.type = "PRE_PREPARE" /\ c[1].msg.round = r
      BY <2>5 DEF Unproposed
    <3>2. NullOrDistinct(c[1])
      BY <2>1, <3>1 DEF ListsInv
    <3>3. JustifiedQRC(Flatten(buf), c[1].msg.round) # {}
      BY <2>1, <2>2, <2>3, <3>1, <3>2, ProposedJustified
    <3>4. QED
      BY <3>1, <3>3
  <2>6. QED
    BY <2>4, <2>5
<1>4. QED
  BY <1>1, <1>2, <1>3, PTL DEF Spec

-----------------------------------------------------------------------------
(* The copies of DECIDED from p *)
Resends(p) == {c \in sent : c[1].msg.type = "DECIDED" /\ c[1].msg.peer = p}

(* The ROUND_CHANGEs of the others, which p may have answered *)
Asked(p) == {b \in SentBodies : b.type = "ROUND_CHANGE" /\ b.peer # p}

(* A accounts for the DECIDED messages of p: each copy that the network did not add answers one
   ROUND_CHANGE, and is the k-th one that its sender has been answered; decided_resends knows
   the highest round and how many there are *)
Accounts(p, A) ==
  /\ A \subseteq Asked(p) \X Nat
  /\ IsFiniteSet(A)
  /\ Cardinality(Resends(p)) <= duplicates + Cardinality(A)
  /\ \A a \in A : /\ a[1].round <= decided_resends[p][a[1].peer].round
                  /\ a[2] \in 1 .. decided_resends[p][a[1].peer].count
  /\ \A a, d \in A : a[1] = d[1] \/ (a[1].peer = d[1].peer /\ a[2] = d[2]) => a = d

(* Every peer's DECIDED messages are accounted for *)
AnswersInv == \A p \in Peer : \E A : Accounts(p, A)

(* The messages of a step that are no DECIDED *)
NoDecided == \A c \in sent' \ sent : c[1].msg.type # "DECIDED"

(* A broadcast of another message adds no DECIDED *)
LEMMA OtherBroadcast ==
  ASSUME NEW m, Broadcast(m), m.msg.type # "DECIDED"
  PROVE  NoDecided
BY DEF Broadcast, NoDecided

(* Only an instance that has decided sends DECIDED *)
LEMMA UndecidedQuiet ==
  ASSUME NEW p \in Peer, NEW c, Start(p) \/ Timeout(p) \/ Handle(p, c)
  PROVE  NoDecided /\ UNCHANGED <<decided_resends, duplicates>>
<1>1. \A t, q, r, v, just, known :
        t # "DECIDED" => Message(t, q, r, v, just, known).msg.type # "DECIDED"
  BY DEF Message, Body
<1>2. \A r, known : RoundChange(p, r, known).msg.type # "DECIDED"
  BY DEF RoundChange, Body
<1>3. CASE Start(p)
  BY <1>1, <1>3, OtherBroadcast DEF Start
<1>4. CASE Timeout(p)
  BY <1>2, <1>4, OtherBroadcast DEF Timeout
<1>5. CASE Handle(p, c)
  <2> DEFINE flat == Flatten(buffer[p] \cup {c})
             b == c[1].msg
  <2>1. UNCHANGED <<decided_resends, duplicates>>
    BY <1>5 DEF Handle
  <2>2. \/ UNCHANGED sent
        \/ UponJustifiedPrePrepare(p, b)
        \/ UponQuorumPrepares(p, b, flat)
        \/ UponQuorumCommits(p, b, flat)
        \/ UponJustifiedDecided(p, c[1])
        \/ UponFPlus1RoundChanges(p, flat)
        \/ UponQuorumRoundChanges(p, flat)
    BY <1>5 DEF Handle
  <2> HIDE DEF flat, b
  <2>3. CASE UNCHANGED sent
    BY <2>1, <2>3 DEF NoDecided
  <2>4. CASE UponJustifiedPrePrepare(p, b)
    BY <1>1, <2>1, <2>4, OtherBroadcast DEF UponJustifiedPrePrepare
  <2>5. CASE UponQuorumPrepares(p, b, flat)
    BY <1>1, <2>1, <2>5, OtherBroadcast DEF UponQuorumPrepares
  <2>6. CASE UponQuorumCommits(p, b, flat) \/ UponJustifiedDecided(p, c[1])
    BY <2>1, <2>6 DEF UponQuorumCommits, UponJustifiedDecided, NoDecided
  <2>7. CASE UponFPlus1RoundChanges(p, flat)
    BY <1>2, <2>1, <2>7, OtherBroadcast DEF UponFPlus1RoundChanges
  <2>8. CASE UponQuorumRoundChanges(p, flat)
    BY <1>1, <2>1, <2>8, OtherBroadcast DEF UponQuorumRoundChanges
  <2>9. QED
    BY <2>2, <2>3, <2>4, <2>5, <2>6, <2>7, <2>8
<1>6. QED
  BY <1>3, <1>4, <1>5

(* DECIDED messages are finitely many *)
LEMMA ResendsFinite ==
  ASSUME SentInv, NEW p
  PROVE  IsFiniteSet(Resends(p)) /\ Cardinality(Resends(p)) \in Nat
<1>1. Resends(p) \subseteq sent
  BY DEF Resends
<1>2. QED
  BY <1>1, FS_Subset, FS_CardinalityType DEF SentInv

(* An account stays good while decided_resends does, for as many more copies of DECIDED as the
   network has added *)
LEMMA AccountStays ==
  ASSUME Inv, Inv', sent \subseteq sent', NEW p \in Peer, NEW A, Accounts(p, A),
         decided_resends'[p] = decided_resends[p],
         Cardinality(Resends(p)') - duplicates' <= Cardinality(Resends(p)) - duplicates
  PROVE  Accounts(p, A)'
<1>1. Asked(p) \subseteq Asked(p)'
  BY DEF Asked, SentBodies
<1>2. A \subseteq Asked(p)' \X Nat
  BY <1>1 DEF Accounts
<1>3. /\ Cardinality(Resends(p)) \in Nat /\ duplicates \in Nat /\ duplicates' \in Nat
      /\ Cardinality(A) \in Nat
  BY ResendsFinite, FS_CardinalityType, EnvironmentAssumption DEF Inv, TypeOK, Accounts
<1>4. Cardinality(Resends(p)') \in Nat
  <2>1. (IsFiniteSet(Resends(p)) /\ Cardinality(Resends(p)) \in Nat)'
    BY ResendsFinite, PTL DEF Inv
  <2>2. QED
    BY <2>1
<1>5. Cardinality(Resends(p)') <= duplicates' + Cardinality(A)
  BY <1>3, <1>4 DEF Accounts
<1>6. QED
  BY <1>2, <1>5 DEF Accounts

(* A step that sends no DECIDED keeps the accounts *)
LEMMA NoDecidedKeeps ==
  ASSUME Inv, Inv', AnswersInv, sent \subseteq sent', NoDecided,
         UNCHANGED <<decided_resends, duplicates>>
  PROVE  AnswersInv'
<1> SUFFICES ASSUME NEW p \in Peer PROVE \E A : Accounts(p, A)'
  BY DEF AnswersInv
<1>1. PICK A : Accounts(p, A)
  BY DEF AnswersInv
<1>2. Resends(p)' = Resends(p)
  BY DEF NoDecided, Resends
<1>3. Cardinality(Resends(p)) \in Nat /\ duplicates \in Nat
  BY ResendsFinite, EnvironmentAssumption DEF Inv, TypeOK
<1>4. Accounts(p, A)'
  BY <1>1, <1>2, <1>3, AccountStays
<1>5. QED
  BY <1>4

(* Copies of DECIDED that one broadcast adds: at most one, of the peer it names *)
LEMMA OneMore ==
  ASSUME SentInv, NEW m, Broadcast(m), NEW p
  PROVE  /\ Cardinality(Resends(p)') <= Cardinality(Resends(p)) + 1
         /\ m.msg.peer # p => Resends(p)' = Resends(p)
<1> DEFINE c == <<m, 1 + Cardinality({d \in sent : d[1] = m})>>
<1>1. sent' = sent \cup {c} /\ c[1] = m
  BY DEF Broadcast
<1> HIDE DEF c
<1>2. IsFiniteSet(Resends(p)) /\ Cardinality(Resends(p)) \in Nat
  BY ResendsFinite
<1>3. Resends(p)' = Resends(p) \/ (Resends(p)' = Resends(p) \cup {c} /\ m.msg.peer = p)
  BY <1>1 DEF Resends
<1>4. QED
  BY <1>2, <1>3, FS_AddElement

(* What the network delivers once more it has counted *)
LEMMA DuplicateAnswers ==
  ASSUME Inv, Inv', AnswersInv, NEW c \in sent, Duplicate(c)
  PROVE  AnswersInv'
<1>1. /\ Broadcast(c[1]) /\ duplicates' = duplicates + 1 /\ decided_resends' = decided_resends
      /\ sent \subseteq sent' /\ SentInv
  BY DEF Duplicate, Broadcast, Inv
<1> SUFFICES ASSUME NEW p \in Peer PROVE \E A : Accounts(p, A)'
  BY DEF AnswersInv
<1>2. PICK A : Accounts(p, A)
  BY DEF AnswersInv
<1>3. Cardinality(Resends(p)) \in Nat /\ duplicates \in Nat
  BY ResendsFinite, EnvironmentAssumption DEF Inv, TypeOK
<1>4. Cardinality(Resends(p)') \in Nat
  <2>1. (IsFiniteSet(Resends(p)) /\ Cardinality(Resends(p)) \in Nat)'
    BY ResendsFinite, PTL DEF Inv
  <2>2. QED
    BY <2>1
<1>5. Cardinality(Resends(p)') <= Cardinality(Resends(p)) + 1
  BY <1>1, OneMore
<1>6. Accounts(p, A)'
  BY <1>1, <1>2, <1>3, <1>4, <1>5, AccountStays
<1>7. QED
  BY <1>6

(* Another answer goes on the account: its round is higher than those answered before, and so
   it is a ROUND_CHANGE that has not been answered *)
LEMMA ResendAnswers ==
  ASSUME Inv, Inv', AnswersInv, NEW q \in Up, NEW c \in sent, ResendDecided(q, c)
  PROVE  AnswersInv'
<1> DEFINE b == c[1].msg
           old == decided_resends[q][b.peer]
           new == [round |-> b.round, count |-> old.count + 1]
<1>1. /\ q \in Peer /\ b \in BodyType /\ b \in SentBodies /\ b.type = "ROUND_CHANGE"
      /\ b.peer # q /\ b.round > old.round /\ duplicates' = duplicates /\ SentInv
  BY EnvironmentAssumption
  DEF ResendDecided, AllowDecidedResend, Inv, SentInv, MessageType, SentBodies
<1>2. /\ decided_resends \in [Peer -> [Peer -> [round : Nat, count : 0 .. MaxDecidedResends]]]
      /\ b.peer \in Peer /\ b.round \in Nat
  BY <1>1 DEF Inv, TypeOK, BodyType
<1>3. old.round \in Nat /\ old.count \in Nat
  BY <1>1, <1>2, EnvironmentAssumption
<1>4. decided_resends' = [decided_resends EXCEPT ![q][b.peer] = new]
  BY DEF ResendDecided
<1>5. PICK v : Broadcast(Message("DECIDED", q, round[q], v, q_commit[q], values'[q]))
  BY DEF ResendDecided
<1> DEFINE m == Message("DECIDED", q, round[q], v, q_commit[q], values'[q])
<1>6. Broadcast(m) /\ m.msg.peer = q /\ sent \subseteq sent'
  BY <1>5 DEF Message, Body, Broadcast
<1> HIDE DEF m
<1> SUFFICES ASSUME NEW p \in Peer PROVE \E A : Accounts(p, A)'
  BY DEF AnswersInv
<1>7. PICK A : Accounts(p, A)
  BY DEF AnswersInv
<1>8. /\ Cardinality(Resends(p)) \in Nat /\ duplicates \in Nat /\ IsFiniteSet(A)
      /\ Cardinality(A) \in Nat
  BY <1>7, ResendsFinite, EnvironmentAssumption, FS_CardinalityType DEF Inv, TypeOK, Accounts
<1>9. Cardinality(Resends(p)') \in Nat
  <2>1. (IsFiniteSet(Resends(p)) /\ Cardinality(Resends(p)) \in Nat)'
    BY ResendsFinite, PTL DEF Inv
  <2>2. QED
    BY <2>1
<1>10. CASE p # q
  <2>1. Resends(p)' = Resends(p)
    BY <1>1, <1>6, <1>10, OneMore
  <2>2. decided_resends'[p] = decided_resends[p]
    BY <1>1, <1>2, <1>4, <1>10
  <2>3. Accounts(p, A)'
    BY <1>1, <1>6, <1>7, <1>8, <2>1, <2>2, AccountStays
  <2>4. QED
    BY <2>3
<1>11. CASE p = q
  <2> DEFINE a == <<b, old.count + 1>>
             B == A \cup {a}
  <2>1. /\ decided_resends'[p][b.peer].round = b.round
        /\ decided_resends'[p][b.peer].count = old.count + 1
    BY <1>1, <1>2, <1>4, <1>11
  <2>2. \A o \in Peer \ {b.peer} : decided_resends'[p][o] = decided_resends[p][o]
    BY <1>1, <1>2, <1>4, <1>11
  <2>3. a[1] = b /\ a[2] = old.count + 1 /\ a[2] \in Nat
    BY <1>3
  <2>4. \A d \in A : /\ d[1] \in Asked(p) /\ d[2] \in Nat /\ d[1].peer \in Peer
                     /\ d[1].round \in Nat
                     /\ d[1].round <= decided_resends[p][d[1].peer].round
                     /\ d[2] \in 1 .. decided_resends[p][d[1].peer].count
    <3>1. Asked(p) \subseteq BodyType
      BY <1>1 DEF Asked, SentBodies, SentInv, MessageType
    <3>2. QED
      BY <1>7, <3>1 DEF Accounts, BodyType
  <2>5. \A d \in A : d[1] # b /\ ~(d[1].peer = b.peer /\ d[2] = a[2])
    BY <1>1, <1>2, <1>3, <1>11, <2>3, <2>4
  <2>6. a \notin A
    BY <2>3, <2>5
  <2>7. Cardinality(B) = Cardinality(A) + 1 /\ IsFiniteSet(B)
    BY <1>8, <2>6, FS_AddElement
  <2>8. Cardinality(Resends(p)') <= Cardinality(Resends(p)) + 1
    BY <1>1, <1>6, OneMore
  <2>9. Cardinality(Resends(p)') <= duplicates' + Cardinality(B)
    BY <1>1, <1>7, <1>8, <1>9, <2>7, <2>8 DEF Accounts
  <2>10. B \subseteq Asked(p)' \X Nat
    <3>1. Asked(p) \subseteq Asked(p)'
      BY <1>6 DEF Asked, SentBodies
    <3>2. b \in Asked(p)
      BY <1>1, <1>11 DEF Asked
    <3>3. a \in Asked(p)' \X Nat
      BY <2>3, <3>1, <3>2
    <3>4. A \subseteq Asked(p)' \X Nat
      BY <1>7, <3>1 DEF Accounts
    <3>5. QED
      BY <3>3, <3>4
  <2>11. \A d \in B : /\ d[1].round <= decided_resends'[p][d[1].peer].round
                      /\ d[2] \in 1 .. decided_resends'[p][d[1].peer].count
    <3>1. /\ a[1].round <= decided_resends'[p][a[1].peer].round
          /\ a[2] \in 1 .. decided_resends'[p][a[1].peer].count
      BY <1>2, <1>3, <2>1, <2>3
    <3>2. ASSUME NEW d \in A
          PROVE  /\ d[1].round <= decided_resends'[p][d[1].peer].round
                 /\ d[2] \in 1 .. decided_resends'[p][d[1].peer].count
      <4>1. CASE d[1].peer = b.peer
        <5>1. d[1].round <= old.round /\ d[2] \in 1 .. old.count
          BY <1>11, <2>4, <4>1
        <5>2. d[1].round \in Nat
          BY <2>4
        <5>3. d[1].round <= b.round /\ d[2] \in 1 .. old.count + 1
          BY <1>1, <1>2, <1>3, <5>1, <5>2
        <5>4. QED
          BY <2>1, <4>1, <5>3
      <4>2. CASE d[1].peer # b.peer
        BY <2>2, <2>4, <4>2
      <4>3. QED
        BY <4>1, <4>2
    <3> HIDE DEF a
    <3>3. QED
      BY <3>1, <3>2
  <2>12. \A d, e \in B : d[1] = e[1] \/ (d[1].peer = e[1].peer /\ d[2] = e[2]) => d = e
    <3>1. \A d, e \in A : d[1] = e[1] \/ (d[1].peer = e[1].peer /\ d[2] = e[2]) => d = e
      BY <1>7 DEF Accounts
    <3>2. a[1] = b
      BY <2>3
    <3> HIDE DEF a, b
    <3>3. QED
      BY <2>5, <3>1, <3>2
  <2> HIDE DEF B
  <2>13. PICK D : D = B
    OBVIOUS
  <2>14. Accounts(p, D)'
    BY <2>7, <2>9, <2>10, <2>11, <2>12, <2>13 DEF Accounts
  <2>15. QED
    BY <2>14
<1>12. QED
  BY <1>10, <1>11

(* Every step keeps the accounts *)
LEMMA NextAnswers ==
  ASSUME Inv, AnswersInv, [Next]_vars
  PROVE  AnswersInv'
<1>1. Inv' /\ Up \subseteq Peer
  BY NextInv, EnvironmentAssumption
<1>2. CASE UNCHANGED vars
  <2>1. UNCHANGED <<sent, duplicates, decided_resends>>
    BY <1>2 DEF vars
  <2>2. QED
    BY <1>1, <2>1, NoDecidedKeeps DEF NoDecided
<1>3. ASSUME NEW p \in Up, NEW c, Start(p) \/ Timeout(p) \/ Handle(p, c)
      PROVE  AnswersInv'
  <2>1. p \in Peer /\ (Handle(p, c) => c \in sent)
    BY <1>1 DEF Handle
  <2>2. Result(p)
    BY <1>3, <2>1, StartInv, TimeoutInv, HandleInv
  <2>3. sent \subseteq sent'
    BY <2>2 DEF Result
  <2>4. NoDecided /\ UNCHANGED <<decided_resends, duplicates>>
    BY <1>3, <2>1, UndecidedQuiet
  <2>5. QED
    BY <1>1, <2>3, <2>4, NoDecidedKeeps
<1>4. ASSUME NEW p \in Up, NEW c \in sent, Ignore(p, c) PROVE AnswersInv'
  <2>1. UNCHANGED <<sent, decided_resends, duplicates>>
    BY <1>4 DEF Ignore
  <2>2. QED
    BY <1>1, <2>1, NoDecidedKeeps DEF NoDecided
<1>5. QED
  BY <1>1, <1>2, <1>3, <1>4, ResendAnswers, DuplicateAnswers DEF Next

(* An account is as long as there are ROUND_CHANGEs to answer, and as there are askers, each
   answered MaxDecidedResends times *)
LEMMA AccountBounded ==
  ASSUME Inv, NEW p \in Peer, NEW A, Accounts(p, A)
  PROVE  /\ Cardinality(A) <= Cardinality(Asked(p))
         /\ Cardinality(A) <= MaxDecidedResends * Cardinality({b.peer : b \in Asked(p)})
         /\ Cardinality(Asked(p)) \in Nat
         /\ MaxDecidedResends * Cardinality({b.peer : b \in Asked(p)}) \in Nat
<1> DEFINE S == Asked(p)
           P == {b.peer : b \in S}
           N == 1 .. MaxDecidedResends
           f == [a \in A |-> a[1]]
           g == [a \in A |-> <<a[1].peer, a[2]>>]
<1>1. /\ \A a \in A : a[1] \in S /\ a[1].peer \in Peer /\ a[2] \in N
      /\ P \subseteq Peer
  <2>1. S \subseteq BodyType
    BY DEF Asked, SentBodies, Inv, SentInv, MessageType
  <2>2. \A b \in S : b.peer \in Peer
    BY <2>1 DEF BodyType
  <2>3. ASSUME NEW a \in A PROVE a[1] \in S /\ a[1].peer \in Peer /\ a[2] \in N
    <3>1. /\ a[1] \in S /\ a[1].peer \in Peer
          /\ a[2] \in 1 .. decided_resends[p][a[1].peer].count
      BY <2>2 DEF Accounts
    <3>2. decided_resends[p][a[1].peer].count \in 0 .. MaxDecidedResends
      BY <3>1 DEF Inv, TypeOK
    <3>3. QED
      BY <3>1, <3>2, EnvironmentAssumption
  <2>4. QED
    BY <2>2, <2>3
<1>2. \A a, d \in A : a[1] = d[1] \/ (a[1].peer = d[1].peer /\ a[2] = d[2]) => a = d
  BY DEF Accounts
<1>3. IsFiniteSet(S)
  <2>1. S \in SUBSET SentBodies
    BY DEF Asked
  <2>2. QED
    BY <2>1, BodiesFinite DEF Inv
<1>4. IsFiniteSet(P) /\ Cardinality(P) \in Nat
  <2>1. IsFiniteSet(Peer)
    BY FS_Interval, ClusterAssumption DEF Peer
  <2>2. QED
    BY <1>1, <2>1, FS_Subset, FS_CardinalityType
<1>5. IsFiniteSet(N) /\ Cardinality(N) = MaxDecidedResends
  BY FS_Interval, EnvironmentAssumption
<1>6. \A a \in A : a[1].peer \in P
  BY <1>1
<1> HIDE DEF S, P, N
<1>7. f \in Injection(A, S)
  <2>1. f \in [A -> S]
    BY <1>1
  <2>2. IsInjective(f)
    BY <1>2 DEF IsInjective
  <2>3. QED
    BY <2>1, <2>2 DEF Injection
<1>8. g \in Injection(A, P \X N)
  <2>1. g \in [A -> P \X N]
    BY <1>1, <1>6
  <2>2. IsInjective(g)
    BY <1>2 DEF IsInjective
  <2>3. QED
    BY <2>1, <2>2 DEF Injection
<1> HIDE DEF f, g
<1>9. Cardinality(A) <= Cardinality(S) /\ Cardinality(S) \in Nat
  BY <1>3, <1>7, FS_Injection, FS_CardinalityType
<1>10. /\ IsFiniteSet(P \X N)
       /\ Cardinality(P \X N) = Cardinality(P) * MaxDecidedResends
  BY <1>4, <1>5, FS_Product
<1>11. Cardinality(A) <= Cardinality(P) * MaxDecidedResends
  BY <1>8, <1>10, FS_Injection
<1>12. /\ Cardinality(P) * MaxDecidedResends = MaxDecidedResends * Cardinality(P)
       /\ MaxDecidedResends * Cardinality(P) \in Nat
  BY <1>4, EnvironmentAssumption
<1>13. QED
  BY <1>9, <1>11, <1>12 DEF S, P

(* DECIDED is rebroadcast at most once per peer and round it asks from, and at most
   MaxDecidedResends times per peer, also when ROUND_CHANGEs are delivered again *)
THEOREM ResendsBoundedHolds == Spec => []ResendsBounded
<1>1. Init => Inv /\ AnswersInv
  <2> SUFFICES ASSUME Init, NEW p \in Peer PROVE \E A : Accounts(p, A)
    BY InitInv DEF AnswersInv
  <2> DEFINE E == {}
  <2>1. Resends(p) = {} /\ duplicates = 0
    BY DEF Init, Resends
  <2>2. Cardinality(Resends(p)) <= duplicates + Cardinality(E) /\ IsFiniteSet(E)
    BY <2>1, FS_EmptySet
  <2>3. Accounts(p, E)
    BY <2>2 DEF Accounts
  <2>4. QED
    BY <2>3
<1>2. Inv /\ AnswersInv /\ [Next]_vars => (Inv /\ AnswersInv)'
  BY NextInv, NextAnswers
<1>3. Inv /\ AnswersInv => ResendsBounded
  <2> SUFFICES ASSUME Inv, AnswersInv, NEW p \in Peer
               PROVE  /\ Cardinality(Resends(p)) <= duplicates + Cardinality(Asked(p))
                      /\ Cardinality(Resends(p)) <= duplicates +
                           MaxDecidedResends * Cardinality({b.peer : b \in Asked(p)})
    BY DEF ResendsBounded, Resends, Asked
  <2>1. PICK A : Accounts(p, A)
    BY DEF AnswersInv
  <2>2. /\ Cardinality(Resends(p)) <= duplicates + Cardinality(A)
        /\ Cardinality(A) \in Nat /\ duplicates \in Nat /\ Cardinality(Resends(p)) \in Nat
    BY <2>1, FS_CardinalityType, EnvironmentAssumption, ResendsFinite
    DEF Accounts, Inv, TypeOK
  <2> DEFINE bound == MaxDecidedResends * Cardinality({b.peer : b \in Asked(p)})
             asked == Cardinality(Asked(p))
  <2>3. Cardinality(A) <= asked /\ Cardinality(A) <= bound /\ asked \in Nat /\ bound \in Nat
    BY <2>1, AccountBounded
  <2> HIDE DEF bound, asked
  <2>4. Cardinality(Resends(p)) <= duplicates + asked
        /\ Cardinality(Resends(p)) <= duplicates + bound
    BY <2>2, <2>3
  <2>5. QED
    BY <2>4 DEF bound, asked
<1>4. QED
  BY <1>1, <1>2, <1>3, PTL DEF Spec

-----------------------------------------------------------------------------
(* The entries with a body *)
Same(entries, b) == {e \in entries : e[1] = b}

(* The list of entries is as long as they are many *)
LEMMA ListedLength ==
  ASSUME NEW entries, IsFiniteSet(entries)
  PROVE  IsFiniteSet(Listed(entries)) /\ Cardinality(Listed(entries)) = Cardinality(entries)
<1> DEFINE L == Listed(entries)
           n == Cardinality(entries)
           of == [b \in Bodies(entries) |->
                    CHOOSE f : f \in Bijection(1 .. Cardinality(Same(entries, b)),
                                               Same(entries, b))]
           h == [l \in L |-> of[l[1]][l[2]]]
<1>1. /\ IsFiniteSet(L) /\ n \in Nat
  BY ListedComplete, FS_CardinalityType
<1>2. \A b : /\ IsFiniteSet(Same(entries, b)) /\ Cardinality(Same(entries, b)) \in Nat
             /\ Cardinality(Same(entries, b)) <= n
  <2> SUFFICES ASSUME NEW b
               PROVE  /\ IsFiniteSet(Same(entries, b)) /\ Cardinality(Same(entries, b)) \in Nat
                      /\ Cardinality(Same(entries, b)) <= n
    OBVIOUS
  <2>1. Same(entries, b) \in SUBSET entries
    BY DEF Same
  <2>2. QED
    BY <2>1, FS_Subset, FS_CardinalityType
<1>3. ASSUME NEW b \in Bodies(entries)
      PROVE  of[b] \in Bijection(1 .. Cardinality(Same(entries, b)), Same(entries, b))
  <2>1. ExistsBijection(1 .. Cardinality(Same(entries, b)), Same(entries, b))
    BY <1>2, FS_CardinalityType
  <2>2. QED
    BY <2>1 DEF ExistsBijection
<1>4. \A l \in L : /\ l[1] \in Bodies(entries) /\ l = <<l[1], l[2]>>
                   /\ l[2] \in 1 .. Cardinality(Same(entries, l[1]))
  BY <1>2 DEF Listed, Same
<1> HIDE DEF of
<1>5. ASSUME NEW l \in L PROVE h[l] \in entries /\ h[l][1] = l[1]
  <2>1. of[l[1]][l[2]] \in Same(entries, l[1])
    BY <1>3, <1>4 DEF Bijection, Injection
  <2>2. QED
    BY <2>1 DEF Same
<1>6. ASSUME NEW e \in entries PROVE \E l \in L : h[l] = e
  <2> DEFINE S == Same(entries, e[1])
  <2>1. e[1] \in Bodies(entries) /\ e \in S
    BY DEF Bodies, Same
  <2>2. of[e[1]] \in Surjection(1 .. Cardinality(S), S)
    BY <1>3, <2>1 DEF Bijection
  <2>3. PICK i \in 1 .. Cardinality(S) : of[e[1]][i] = e
    BY <2>1, <2>2 DEF Surjection
  <2>4. i \in 1 .. n /\ i <= Cardinality(S)
    BY <1>1, <1>2
  <2>5. <<e[1], i>> \in L
    BY <2>1, <2>4 DEF Listed, Same
  <2>6. h[<<e[1], i>>] = e
    BY <2>3, <2>5
  <2>7. QED
    BY <2>5, <2>6
<1>7. ASSUME NEW k \in L, NEW l \in L, h[k] = h[l] PROVE k = l
  <2>1. k[1] = l[1]
    BY <1>5, <1>7
  <2> DEFINE S == Same(entries, l[1])
             f == of[l[1]]
  <2>2. f[k[2]] = f[l[2]] /\ k[2] \in 1 .. Cardinality(S) /\ l[2] \in 1 .. Cardinality(S)
    BY <1>4, <1>7, <2>1
  <2>3. f \in Injection(1 .. Cardinality(S), S)
    BY <1>3, <1>4 DEF Bijection
  <2> HIDE DEF S, f
  <2>4. k[2] = l[2]
    BY <2>2, <2>3 DEF Injection, IsInjective
  <2>5. QED
    BY <1>4, <2>1, <2>4
<1> HIDE DEF L
<1>8. h \in Surjection(L, entries) /\ h \in Injection(L, entries)
  <2>1. h \in [L -> entries]
    BY <1>5
  <2> HIDE DEF h
  <2>2. IsInjective(h)
    BY <1>7, <2>1 DEF IsInjective
  <2>3. QED
    BY <1>6, <2>1, <2>2 DEF Surjection, Injection
<1>9. n <= Cardinality(L) /\ Cardinality(L) <= n /\ Cardinality(L) \in Nat
  BY <1>1, <1>8, FS_Surjection, FS_Injection, FS_CardinalityType
<1>10. QED
  BY <1>1, <1>9 DEF L

(* A list of votes is one of as many votes *)
LEMMA ListedVotes ==
  ASSUME NEW flat, IsFiniteSet(flat), \A e \in flat : e[1] \in BodyType, NEW t, NEW r, NEW v,
         Cardinality(Votes(flat, t, r, v)) >= Quorum
  PROVE  LET list == Listed(Votes(flat, t, r, v))
         IN  /\ IsFiniteSet(list) /\ Cardinality(Votes(list, t, r, v)) >= Quorum
             /\ \A j \in list : j[1].value = v
<1> DEFINE votes == Votes(flat, t, r, v)
           list == Listed(votes)
<1>1. IsFiniteSet(votes)
  BY FS_Subset DEF Votes, OfRound
<1>2. \A j \in list : j[1].type = t /\ j[1].round = r /\ j[1].value = v
  BY VotesListed
<1> HIDE DEF votes
<1>3. IsFiniteSet(list) /\ Cardinality(list) >= Quorum
  BY <1>1, ListedComplete, ListedLength, QuorumPositive DEF votes
<1> HIDE DEF list
<1>4. Votes(list, t, r, v) = list
  BY <1>2 DEF Votes, OfRound
<1>5. QED
  BY <1>2, <1>3, <1>4 DEF list, votes

(* A set of bodies, each listed once, is a list as long *)
LEMMA OnceLength ==
  ASSUME NEW B, IsFiniteSet(B)
  PROVE  IsFiniteSet(B \X {1}) /\ Cardinality(B \X {1}) = Cardinality(B)
<1>1. IsFiniteSet({1}) /\ Cardinality({1}) = 1
  BY FS_Singleton
<1>2. IsFiniteSet(B \X {1}) /\ Cardinality(B \X {1}) = Cardinality(B) * Cardinality({1})
  BY <1>1, FS_Product
<1>3. Cardinality(B) \in Nat
  BY FS_CardinalityType
<1>4. QED
  BY <1>1, <1>2, <1>3

(* What _classify finds for a leader satisfies is_justified_pre_prepare, whatever it holds *)
LEMMA QRCJustifies ==
  ASSUME NEW flat, IsFiniteSet(flat), \A e \in flat : e[1] \in BodyType, NEW r, NEW p,
         IsLeader(r, p), NEW just \in JustifiedQRC(flat, r),
         NEW m, m.justification = just, m.msg.round = r, m.msg.peer = p,
         m.msg.value = ProposedValue(p, just)
  PROVE  IsFiniteSet(just) /\ JustifiedPrePrepare(m)
<1> DEFINE qrc == OfRound(flat, "ROUND_CHANGE", r)
           null == {e \in qrc : NullPrepared(e[1])}
           prepares == {b \in Bodies(flat) : b.type = "PREPARE"}
           PrepareSet(a) == {b \in prepares : b.round = a.round /\ b.value = a.value}
           Candidates(a) == {rc \in Bodies(qrc) : rc.prepared_round <= a.round}
<1>1. \/ just = Listed(null) /\ Cardinality(null) >= Quorum
      \/ \E a \in prepares :
           /\ just = (Candidates(a) \cup PrepareSet(a)) \X {1}
           /\ Cardinality(PrepareSet(a)) >= Quorum
           /\ Cardinality(Candidates(a)) >= Quorum
           /\ \E rc \in Candidates(a) : /\ rc.prepared_round = a.round
                                        /\ rc.prepared_value = a.value
  BY DEF JustifiedQRC
<1>2. \A e \in qrc : e \in flat /\ e[1].type = "ROUND_CHANGE" /\ e[1].round = r
  BY DEF OfRound
<1>3. IsFiniteSet(Bodies(flat))
  <2> DEFINE f == [e \in flat |-> e[1]]
  <2>1. f \in Surjection(flat, Bodies(flat))
    BY DEF Surjection, Bodies
  <2>2. QED
    BY <2>1, FS_Surjection
<1>4. CASE just = Listed(null) /\ Cardinality(null) >= Quorum
  <2>1. null \in SUBSET flat /\ \A e \in null : /\ e[1] \in BodyType /\ NullPrepared(e[1])
                                                /\ e[1].type = "ROUND_CHANGE" /\ e[1].round = r
    BY <1>2
  <2> HIDE DEF null
  <2>2. IsFiniteSet(null)
    BY <2>1, FS_Subset
  <2>3. IsFiniteSet(just) /\ Cardinality(just) >= Quorum
    BY <1>4, <2>2, ListedComplete, ListedLength, QuorumPositive
  <2>4. \A j \in just : j[1].type = "ROUND_CHANGE" /\ j[1].round = r /\ NullPrepared(j[1])
    <3>1. \A j \in just : \E e \in null : j[1] = e[1]
      BY <1>4, <2>1, ListedTyped
    <3>2. QED
      BY <2>1, <3>1
  <2>5. OfRound(just, "ROUND_CHANGE", r) = just
    BY <2>4 DEF OfRound
  <2>6. QED
    BY <2>3, <2>4, <2>5 DEF JustifiedPrePrepare
<1>5. ASSUME NEW a \in prepares,
             just = (Candidates(a) \cup PrepareSet(a)) \X {1},
             Cardinality(PrepareSet(a)) >= Quorum,
             Cardinality(Candidates(a)) >= Quorum,
             \E rc \in Candidates(a) : rc.prepared_round = a.round /\ rc.prepared_value = a.value
      PROVE  IsFiniteSet(just) /\ JustifiedPrePrepare(m)
  <2> DEFINE C == Candidates(a)
             Q == PrepareSet(a)
             mine == OfRound(just, "ROUND_CHANGE", r)
             theirs == {j \in just : j[1].type = "PREPARE"}
  <2>1. \A b \in C : /\ b \in Bodies(flat) /\ b.type = "ROUND_CHANGE" /\ b.round = r
                     /\ b.prepared_round <= a.round
    BY <1>2 DEF Bodies
  <2>2. \A b \in Q : /\ b \in Bodies(flat) /\ b.type = "PREPARE"
                     /\ b.round = a.round /\ b.value = a.value /\ b.round \in Nat
    BY DEF Bodies, BodyType
  <2>3. /\ just = (C \cup Q) \X {1} /\ Cardinality(Q) >= Quorum /\ Cardinality(C) >= Quorum
        /\ \E rc \in C : rc.prepared_round = a.round /\ rc.prepared_value = a.value
        /\ a \in Q
    BY <1>5
  <2>4. IsFiniteSet(C) /\ IsFiniteSet(Q) /\ IsFiniteSet(C \cup Q)
    <3>1. C \in SUBSET Bodies(flat) /\ Q \in SUBSET Bodies(flat)
      BY <2>1, <2>2
    <3> HIDE DEF C, Q
    <3>2. IsFiniteSet(C) /\ IsFiniteSet(Q)
      BY <1>3, <3>1, FS_Subset
    <3>3. QED
      BY <3>2, FS_Union
  <2> HIDE DEF C, Q
  <2>5. IsFiniteSet(just)
    BY <2>3, <2>4, OnceLength
  <2>6. mine = C \X {1}
    BY <2>1, <2>2, <2>3 DEF OfRound
  <2>7. theirs = Q \X {1}
    BY <2>1, <2>2, <2>3
  <2>8. Votes(theirs, "PREPARE", a.round, a.value) = theirs
    BY <2>2, <2>7 DEF Votes, OfRound
  <2>9. Cardinality(mine) >= Quorum /\ Cardinality(theirs) >= Quorum
    BY <2>3, <2>4, <2>6, <2>7, OnceLength
  <2>10. m.msg.value = a.value
    <3>1. <<a, 1>> \in just /\ a.type = "PREPARE" /\ <<a, 1>>[1] = a
      BY <2>2, <2>3
    <3>2. \A j \in just : j[1].type = "PREPARE" => j[1].value = ProposedValue(p, just)
      BY QRCTyped
    <3>3. QED
      BY <3>1, <3>2
  <2>11. <<a, 1>> \in theirs /\ \A j \in theirs : j[1].round <= a.round
    BY <2>2, <2>3, <2>7
  <2>12. /\ \A rc \in mine : rc[1].prepared_round <= a.round
         /\ \E rc \in mine : rc[1].prepared_round = a.round /\ rc[1].prepared_value = a.value
    <3>1. PICK b \in C : b.prepared_round = a.round /\ b.prepared_value = a.value
      BY <2>3
    <3>2. <<b, 1>> \in mine /\ <<b, 1>>[1] = b
      BY <2>6, <3>1
    <3>3. \A rc \in mine : rc[1] \in C
      BY <2>6
    <3>4. QED
      BY <2>1, <3>1, <3>2, <3>3
  <2> HIDE DEF mine, theirs
  <2>13. \E j \in theirs :
            /\ \A i \in theirs : i[1].round <= j[1].round
            /\ Cardinality(Votes(theirs, "PREPARE", j[1].round, j[1].value)) >= Quorum
            /\ \A rc \in mine : rc[1].prepared_round <= j[1].round
            /\ \E rc \in mine : /\ rc[1].prepared_round = j[1].round
                                /\ rc[1].prepared_value = j[1].value
            /\ m.msg.value = j[1].value
    <3> DEFINE j == <<a, 1>>
    <3>1. j[1] = a
      OBVIOUS
    <3> HIDE DEF j
    <3>2. QED
      BY <2>8, <2>9, <2>10, <2>11, <2>12, <3>1 DEF j
  <2>14. QED
    BY <2>5, <2>9, <2>13 DEF JustifiedPrePrepare, mine, theirs
<1>6. QED
  BY <1>1, <1>4, <1>5

-----------------------------------------------------------------------------
(* A message has the justification that is_justified asks for, a finite one *)
JustifiedMessage(m) == IsFiniteSet(m.justification) /\ Justified(m)

(* What is prepared is nothing, or as many PREPAREs for it as a quorum has peers *)
PreparedProof(x) ==
  /\ IsFiniteSet(x.justification)
  /\ \/ x.justification = {} /\ x.round = 0 /\ x.value = NoValue
     \/ Cardinality(Votes(x.justification, "PREPARE", x.round, x.value)) >= Quorum

(* COMMITs decided on are as many in the round r as a quorum has peers *)
DecisionProof(commits, r) ==
  /\ IsFiniteSet(commits)
  /\ \A j \in commits : Cardinality(Votes(commits, "COMMIT", r, j[1].value)) >= Quorum

(* What is sent is justified; what an instance has prepared or decided proves it *)
JustifiedInv ==
  /\ \A c \in sent : JustifiedMessage(c[1])
  /\ \A p \in Peer : PreparedProof(prepared[p]) /\ DecisionProof(q_commit[p], round[p])

(* A step of p keeps this *)
JustifiedStep(p) ==
  /\ \A c \in sent' \ sent : JustifiedMessage(c[1])
  /\ prepared'[p] = prepared[p] \/ PreparedProof(prepared'[p])
  /\ DecisionProof(q_commit'[p], round'[p])

(* Such a step, as no other instance changes, keeps the invariant *)
LEMMA JustifiedStepKeeps ==
  ASSUME Inv, JustifiedInv, NEW p \in Peer, JustifiedStep(p),
         \E r : round' = [round EXCEPT ![p] = r],
         \E x : prepared' = [prepared EXCEPT ![p] = x],
         \E x : q_commit' = [q_commit EXCEPT ![p] = x]
  PROVE  JustifiedInv'
<1>1. \A c \in sent' : JustifiedMessage(c[1])
  BY DEF JustifiedInv, JustifiedStep
<1>2. ASSUME NEW q \in Peer
      PROVE  PreparedProof(prepared'[q]) /\ DecisionProof(q_commit'[q], round'[q])
  <2>1. CASE q = p
    BY <2>1 DEF JustifiedInv, JustifiedStep
  <2>2. CASE q # p
    <3>1. round'[q] = round[q] /\ prepared'[q] = prepared[q] /\ q_commit'[q] = q_commit[q]
      BY <2>2, InvFacts
    <3>2. QED
      BY <3>1 DEF JustifiedInv
  <2>3. QED
    BY <2>1, <2>2
<1>3. QED
  BY <1>1, <1>2 DEF JustifiedInv

(* A broadcast adds one message *)
LEMMA JustifiedBroadcast ==
  ASSUME NEW m, Broadcast(m), JustifiedMessage(m)
  PROVE  \A c \in sent' \ sent : JustifiedMessage(c[1])
BY DEF Broadcast

(* PREPARE and COMMIT need no justification *)
LEMMA VoteJustified ==
  ASSUME NEW t \in {"PREPARE", "COMMIT"}, NEW p, NEW r, NEW v, NEW known
  PROVE  JustifiedMessage(Message(t, p, r, v, {}, known))
<1> DEFINE m == Message(t, p, r, v, {}, known)
<1>1. m.justification = {} /\ m.msg.type = t
  BY DEF Message, Body
<1> HIDE DEF m
<1>2. QED
  BY <1>1, FS_EmptySet DEF JustifiedMessage, Justified, m

(* A ROUND_CHANGE is justified by what its sender has prepared *)
LEMMA RoundChangeJustified ==
  ASSUME NEW p, PreparedProof(prepared[p]), NEW r, NEW known
  PROVE  JustifiedMessage(RoundChange(p, r, known))
<1> DEFINE m == RoundChange(p, r, known)
<1>1. /\ m.justification = prepared[p].justification /\ m.msg.type = "ROUND_CHANGE"
      /\ m.msg.prepared_round = prepared[p].round /\ m.msg.prepared_value = prepared[p].value
  BY DEF RoundChange, Body
<1> HIDE DEF m
<1>2. JustifiedRoundChange(m)
  BY <1>1 DEF JustifiedRoundChange, NullPrepared, PreparedProof
<1>3. QED
  BY <1>1, <1>2 DEF JustifiedMessage, Justified, PreparedProof, m

(* handle_message of an undecided instance, with any of its rules *)
LEMMA HandleJustified ==
  ASSUME Inv, JustifiedInv, NEW p \in Up, NEW c \in sent, Handle(p, c)
  PROVE  JustifiedStep(p)
<1> DEFINE b == c[1].msg
           buf == buffer[p] \cup {c}
           flat == Flatten(buf)
           rule == Classify(p, b, flat)
<1>1. /\ p \in Peer /\ SentInv /\ buf \in SUBSET sent /\ ~Decided(p)
      /\ prepared = [q \in Peer |-> prepared[q]] /\ q_commit = [q \in Peer |-> q_commit[q]]
      /\ round = [q \in Peer |-> round[q]] /\ PreparedProof(prepared[p])
  BY EnvironmentAssumption, InvFacts DEF Handle, JustifiedInv
<1>2. IsFiniteSet(flat)
  <2>1. \A d \in buf : IsFiniteSet(d[1].justification)
    BY <1>1 DEF JustifiedInv, JustifiedMessage
  <2>2. QED
    BY <1>1, <2>1, FlattenFinite
<1>3. \A e \in flat : e[1] \in BodyType
  <2> DEFINE all == UNION {d[1].values : d \in buf}
  <2>1. \A d \in buf : d[1].values \subseteq all
    OBVIOUS
  <2> HIDE DEF all
  <2>2. QED
    BY <1>1, <2>1, FlattenTyped
<1>4. /\ rule = "QUORUM_PREPARES" => Cardinality(Votes(flat, "PREPARE", b.round, b.value)) >= Quorum
      /\ rule = "QUORUM_COMMITS" => Cardinality(Votes(flat, "COMMIT", b.round, b.value)) >= Quorum
      /\ rule = "QUORUM_ROUND_CHANGES" => IsLeader(round[p], p)
      /\ rule = "JUSTIFIED_DECIDED" => b.type = "DECIDED"
  BY ClassifyFacts
<1>5. \A r : DecisionProof({}, r)
  BY FS_EmptySet DEF DecisionProof
<1>6. UNCHANGED q_commit => \A r : DecisionProof(q_commit'[p], r)
  BY <1>1, <1>5 DEF Decided
<1> HIDE DEF rule, flat, buf
<1>7. CASE UNCHANGED <<prepared, q_commit, sent>>
  BY <1>6, <1>7 DEF JustifiedStep
<1>8. CASE UponJustifiedPrePrepare(p, b)
  BY <1>6, <1>8, VoteJustified, JustifiedBroadcast DEF UponJustifiedPrePrepare, JustifiedStep
<1>9. CASE rule = "QUORUM_PREPARES" /\ UponQuorumPrepares(p, b, flat)
  <2> DEFINE list == Listed(Votes(flat, "PREPARE", b.round, b.value))
             x == [round |-> b.round, value |-> b.value, justification |-> list]
  <2>1. IsFiniteSet(list) /\ Cardinality(Votes(list, "PREPARE", b.round, b.value)) >= Quorum
    BY <1>2, <1>3, <1>4, <1>9, ListedVotes
  <2>2. prepared' = [prepared EXCEPT ![p] = x]
    BY <1>9 DEF UponQuorumPrepares
  <2> HIDE DEF list
  <2>3. PreparedProof(x)
    BY <2>1 DEF PreparedProof
  <2> HIDE DEF x
  <2>4. prepared'[p] = x
    BY <1>1, <2>2
  <2>5. /\ Broadcast(Message("COMMIT", p, round[p], b.value, {}, values'[p]))
        /\ UNCHANGED q_commit
    BY <1>9 DEF UponQuorumPrepares
  <2>6. \A d \in sent' \ sent : JustifiedMessage(d[1])
    BY <2>5, VoteJustified, JustifiedBroadcast
  <2>7. QED
    BY <1>6, <2>3, <2>4, <2>5, <2>6 DEF JustifiedStep
<1>10. CASE rule = "QUORUM_COMMITS" /\ UponQuorumCommits(p, b, flat)
  <2> DEFINE list == Listed(Votes(flat, "COMMIT", b.round, b.value))
  <2>1. /\ IsFiniteSet(list) /\ Cardinality(Votes(list, "COMMIT", b.round, b.value)) >= Quorum
        /\ \A j \in list : j[1].value = b.value
    BY <1>2, <1>3, <1>4, <1>10, ListedVotes
  <2>2. /\ q_commit' = [q_commit EXCEPT ![p] = list]
        /\ round' = [round EXCEPT ![p] = b.round] /\ UNCHANGED <<prepared, sent>>
    BY <1>10 DEF UponQuorumCommits, ChangeRound
  <2> HIDE DEF list
  <2>3. q_commit'[p] = list /\ round'[p] = b.round
    BY <1>1, <2>2
  <2>4. DecisionProof(list, b.round)
    BY <2>1 DEF DecisionProof
  <2>5. QED
    BY <2>2, <2>3, <2>4 DEF JustifiedStep
<1>11. CASE rule = "JUSTIFIED_DECIDED" /\ UponJustifiedDecided(p, c[1])
  <2> DEFINE list == c[1].justification
  <2>1. /\ q_commit' = [q_commit EXCEPT ![p] = list]
        /\ round' = [round EXCEPT ![p] = b.round] /\ UNCHANGED <<prepared, sent>>
    BY <1>11 DEF UponJustifiedDecided, ChangeRound
  <2>2. b.type = "DECIDED"
    BY <1>4, <1>11
  <2>3. IsFiniteSet(list) /\ Cardinality(Votes(list, "COMMIT", b.round, b.value)) >= Quorum
    BY <2>2 DEF JustifiedInv, JustifiedMessage, Justified, JustifiedDecided
  <2>4. \A j \in list : j[1].value = b.value
    BY <1>1, <2>2 DEF SentInv, Carries
  <2> HIDE DEF list
  <2>5. DecisionProof(list, b.round)
    BY <2>3, <2>4 DEF DecisionProof
  <2>6. q_commit'[p] = list /\ round'[p] = b.round
    BY <1>1, <2>1
  <2>7. QED
    BY <2>1, <2>5, <2>6 DEF JustifiedStep
<1>12. CASE UponFPlus1RoundChanges(p, flat)
  <2>1. PICK r : Broadcast(RoundChange(p, r, values'[p]))
    BY <1>12 DEF UponFPlus1RoundChanges
  <2>2. UNCHANGED <<prepared, q_commit>>
    BY <1>12 DEF UponFPlus1RoundChanges
  <2>3. \A d \in sent' \ sent : JustifiedMessage(d[1])
    BY <1>1, <2>1, RoundChangeJustified, JustifiedBroadcast
  <2>4. QED
    BY <1>6, <2>2, <2>3 DEF JustifiedStep
<1>13. CASE rule = "QUORUM_ROUND_CHANGES" /\ UponQuorumRoundChanges(p, flat)
  <2>1. PICK just \in JustifiedQRC(flat, round[p]) :
          Broadcast(Message("PRE_PREPARE", p, round[p], ProposedValue(p, just), just, values'[p]))
    BY <1>13 DEF UponQuorumRoundChanges
  <2> DEFINE m == Message("PRE_PREPARE", p, round[p], ProposedValue(p, just), just, values'[p])
  <2>2. /\ m.justification = just /\ m.msg.type = "PRE_PREPARE" /\ m.msg.peer = p
        /\ m.msg.round = round[p] /\ m.msg.value = ProposedValue(p, just)
    BY DEF Message, Body
  <2> HIDE DEF m
  <2>3. IsLeader(round[p], p)
    BY <1>4, <1>13
  <2>4. IsFiniteSet(just) /\ JustifiedPrePrepare(m)
    BY <1>2, <1>3, <2>1, <2>2, <2>3, QRCJustifies
  <2>5. JustifiedMessage(m)
    BY <2>2, <2>4 DEF JustifiedMessage, Justified
  <2>6. \A d \in sent' \ sent : JustifiedMessage(d[1])
    BY <2>1, <2>5, JustifiedBroadcast DEF m
  <2>7. UNCHANGED <<prepared, q_commit>>
    BY <1>13 DEF UponQuorumRoundChanges
  <2>8. QED
    BY <1>6, <2>6, <2>7 DEF JustifiedStep
<1>14. QED
  BY <1>7, <1>8, <1>9, <1>10, <1>11, <1>12, <1>13 DEF Handle, flat, rule, buf

(* Every step keeps the invariant, a duplicate delivery too *)
LEMMA NextJustified ==
  ASSUME Inv, JustifiedInv, [Next]_vars
  PROVE  JustifiedInv'
<1>1. Up \subseteq Peer
  BY EnvironmentAssumption
<1>2. ASSUME NEW p \in Peer
      PROVE  /\ (\E r : round' = [round EXCEPT ![p] = r]) \/ round' # round
             /\ (\E x : prepared' = [prepared EXCEPT ![p] = x]) \/ prepared' # prepared
             /\ (\E x : q_commit' = [q_commit EXCEPT ![p] = x]) \/ q_commit' # q_commit
             /\ PreparedProof(prepared[p]) /\ DecisionProof(q_commit[p], round[p])
  <2>1. /\ round = [round EXCEPT ![p] = round[p]] /\ prepared = [prepared EXCEPT ![p] = prepared[p]]
        /\ q_commit = [q_commit EXCEPT ![p] = q_commit[p]]
    BY InvFacts
  <2>2. QED
    BY <2>1 DEF JustifiedInv
<1>3. CASE UNCHANGED vars
  BY <1>3 DEF vars, JustifiedInv
<1>4. ASSUME NEW p \in Up, Start(p) PROVE JustifiedInv'
  <2> DEFINE m == Message("PRE_PREPARE", p, 1, Proposal[p], {}, values[p])
  <2>1. /\ m.justification = {} /\ m.msg.type = "PRE_PREPARE"
        /\ m.msg.peer = p /\ m.msg.round = 1
    BY DEF Message, Body
  <2>2. /\ Broadcast(m) /\ IsLeader(1, p) /\ p \in Peer
        /\ UNCHANGED <<round, prepared, q_commit>>
    BY <1>1, <1>4 DEF Start
  <2> HIDE DEF m
  <2>3. JustifiedPrePrepare(m)
    BY <2>1, <2>2 DEF JustifiedPrePrepare
  <2>4. JustifiedMessage(m)
    BY <2>1, <2>3, FS_EmptySet DEF JustifiedMessage, Justified
  <2>5. JustifiedStep(p)
    BY <1>2, <2>2, <2>4, JustifiedBroadcast DEF JustifiedStep
  <2>6. QED
    BY <1>2, <2>2, <2>5, JustifiedStepKeeps
<1>5. ASSUME NEW p \in Up, Timeout(p) PROVE JustifiedInv'
  <2>1. /\ Broadcast(RoundChange(p, round[p] + 1, values[p])) /\ p \in Peer /\ ~Decided(p)
        /\ \E r : round' = [round EXCEPT ![p] = r]
        /\ UNCHANGED <<prepared, q_commit>>
    BY <1>1, <1>5 DEF Timeout, ChangeRound
  <2>2. DecisionProof(q_commit'[p], round'[p])
    BY <2>1, FS_EmptySet DEF DecisionProof, Decided
  <2>3. JustifiedStep(p)
    BY <1>2, <2>1, <2>2, RoundChangeJustified, JustifiedBroadcast DEF JustifiedStep
  <2>4. QED
    BY <1>2, <2>1, <2>3, JustifiedStepKeeps
<1>6. ASSUME NEW p \in Up, NEW c \in sent, Handle(p, c) PROVE JustifiedInv'
  <2>1. JustifiedStep(p) /\ p \in Peer
    BY <1>1, <1>6, HandleJustified
  <2>2. Result(p)
    BY <1>6, HandleInv
  <2>3. QED
    BY <2>1, <2>2, JustifiedStepKeeps DEF Result
<1>7. ASSUME NEW p \in Up, NEW c \in sent, ResendDecided(p, c) PROVE JustifiedInv'
  <2>1. PICK v \in Decision(p) :
          Broadcast(Message("DECIDED", p, round[p], v, q_commit[p], values'[p]))
    BY <1>7 DEF ResendDecided
  <2> DEFINE m == Message("DECIDED", p, round[p], v, q_commit[p], values'[p])
  <2>2. /\ m.justification = q_commit[p] /\ m.msg.type = "DECIDED"
        /\ m.msg.round = round[p] /\ m.msg.value = v
    BY DEF Message, Body
  <2> HIDE DEF m
  <2>3. UNCHANGED <<round, prepared, q_commit>> /\ p \in Peer
    BY <1>1, <1>7 DEF ResendDecided
  <2>4. PICK j \in q_commit[p] : v = j[1].value
    BY <2>1 DEF Decision
  <2>5. JustifiedMessage(m)
    BY <1>2, <2>2, <2>3, <2>4 DEF JustifiedMessage, Justified, JustifiedDecided, DecisionProof
  <2>6. \A d \in sent' \ sent : JustifiedMessage(d[1])
    BY <2>1, <2>5, JustifiedBroadcast DEF m
  <2>7. QED
    BY <1>2, <2>3, <2>6, JustifiedStepKeeps DEF JustifiedStep
<1>8. ASSUME NEW p \in Up, NEW c \in sent, Ignore(p, c) PROVE JustifiedInv'
  BY <1>8 DEF Ignore, JustifiedInv
<1>9. ASSUME NEW c \in sent, Duplicate(c) PROVE JustifiedInv'
  <2>1. JustifiedMessage(c[1]) /\ Broadcast(c[1]) /\ UNCHANGED <<round, prepared, q_commit>>
    BY <1>9 DEF Duplicate, JustifiedInv
  <2>2. \A d \in sent' \ sent : JustifiedMessage(d[1])
    BY <2>1, JustifiedBroadcast
  <2>3. QED
    BY <2>1, <2>2 DEF JustifiedInv
<1>10. QED
  BY <1>3, <1>4, <1>5, <1>6, <1>7, <1>8, <1>9 DEF Next

(* At the start nothing is sent, prepared or decided *)
LEMMA InitJustified == Init => JustifiedInv
<1> SUFFICES ASSUME Init PROVE JustifiedInv
  OBVIOUS
<1>1. sent = {} /\ \A p \in Peer : /\ prepared[p].justification = {} /\ prepared[p].round = 0
                                   /\ prepared[p].value = NoValue /\ q_commit[p] = {}
  BY DEF Init
<1>2. QED
  BY <1>1, FS_EmptySet DEF JustifiedInv, PreparedProof, DecisionProof

(* What a peer broadcasts satisfies is_justified *)
SentJustified == \A c \in sent : Justified(c[1])

(* However often messages are delivered, what an instance broadcasts satisfies is_justified at
   every other one: the half of SentIsAcceptable that does not depend on verify_msg_limits *)
THEOREM SentIsJustified == Spec => []SentJustified
<1>1. Init => Inv /\ JustifiedInv
  BY InitInv, InitJustified
<1>2. Inv /\ JustifiedInv /\ [Next]_vars => (Inv /\ JustifiedInv)'
  BY NextInv, NextJustified
<1>3. JustifiedInv => SentJustified
  BY DEF JustifiedInv, JustifiedMessage, SentJustified
<1>4. QED
  BY <1>1, <1>2, <1>3, PTL DEF Spec

-----------------------------------------------------------------------------
(* A set that maps one to one to peers is no larger than the cluster *)
LEMMA FewOfPeers ==
  ASSUME NEW S, NEW f \in Injection(S, Peer)
  PROVE  IsFiniteSet(S) /\ Cardinality(S) \in Nat /\ Cardinality(S) <= Nodes
<1>1. IsFiniteSet(Peer) /\ Cardinality(Peer) = Nodes
  BY FS_Interval, ClusterAssumption DEF Peer
<1>2. IsFiniteSet(S) /\ Cardinality(S) <= Cardinality(Peer)
  BY <1>1, FS_Injection
<1>3. QED
  BY <1>1, <1>2, FS_CardinalityType

(* Messages of one type and round are no more than the peers *)
LEMMA FewBodies ==
  ASSUME SentInv, VotesInv, NEW S \in SUBSET SentBodies, NEW t, t # "DECIDED", NEW r,
         \A b \in S : b.type = t /\ b.round = r
  PROVE  IsFiniteSet(S) /\ Cardinality(S) \in Nat /\ Cardinality(S) <= Nodes
<1> DEFINE f == [b \in S |-> b.peer]
<1>1. \A b \in S : b.peer \in Peer
  BY DEF SentInv, SentBodies, MessageType, BodyType
<1>2. \A b, d \in S : b.peer = d.peer => b = d
  <2> SUFFICES ASSUME NEW b \in S, NEW d \in S, b.peer = d.peer PROVE b = d
    OBVIOUS
  <2>1. PICK c \in sent : b = c[1].msg
    BY DEF SentBodies
  <2>2. PICK e \in sent : d = e[1].msg
    BY DEF SentBodies
  <2>3. c = e
    BY <2>1, <2>2 DEF VotesInv, Unique, SameVote
  <2>4. QED
    BY <2>1, <2>2, <2>3
<1>3. f \in Injection(S, Peer)
  <2>1. f \in [S -> Peer]
    BY <1>1
  <2>2. IsInjective(f)
    BY <1>2 DEF IsInjective
  <2>3. QED
    BY <2>1, <2>2 DEF Injection
<1> HIDE DEF f
<1>4. QED
  BY <1>3, FewOfPeers

(* Entries of one type and round that are not nested are no more than the peers, nor is their
   list *)
LEMMA FewEntries ==
  ASSUME SentInv, VotesInv, NEW buf \in SUBSET sent, NEW E \in SUBSET Flatten(buf),
         NEW t, t # "DECIDED", NEW r,
         \A e \in E : e[1].type = t /\ e[1].round = r,
         \A e \in E : \E c \in buf : e = <<c[1].msg, <<c>>>>
  PROVE  IsFiniteSet(Listed(E)) /\ Cardinality(Listed(E)) <= Nodes
<1> DEFINE f == [e \in E |-> e[1].peer]
<1>1. \A e \in E : e[1].peer \in Peer
  BY DEF SentInv, MessageType, BodyType
<1>2. \A e, d \in E : e[1].peer = d[1].peer => e = d
  BY DEF VotesInv, Unique, SameVote
<1>3. f \in Injection(E, Peer)
  <2>1. f \in [E -> Peer]
    BY <1>1
  <2>2. IsInjective(f)
    BY <1>2 DEF IsInjective
  <2>3. QED
    BY <2>1, <2>2 DEF Injection
<1> HIDE DEF f
<1>4. IsFiniteSet(E) /\ Cardinality(E) <= Nodes
  BY <1>3, FewOfPeers
<1>5. QED
  BY <1>4, ListedLength

(* What _classify collects for a proposal is at most a ROUND_CHANGE and a PREPARE per peer *)
LEMMA FewQRC ==
  ASSUME SentInv, VotesInv, NEW buf \in SUBSET sent, NEW r, Unproposed(buf, r),
         NEW just \in JustifiedQRC(Flatten(buf), r)
  PROVE  /\ IsFiniteSet(just) /\ Cardinality(just) <= 2 * Nodes
         /\ \A j \in just : j[1].type # "COMMIT"
<1> DEFINE flat == Flatten(buf)
           qrc == OfRound(flat, "ROUND_CHANGE", r)
           null == {e \in qrc : NullPrepared(e[1])}
           prepares == {b \in Bodies(flat) : b.type = "PREPARE"}
           PrepareSet(a) == {b \in prepares : b.round = a.round /\ b.value = a.value}
           Candidates(a) == {rc \in Bodies(qrc) : rc.prepared_round <= a.round}
<1>1. \A e \in flat : e[1] \in SentBodies /\ e[1] \in BodyType
  <2>1. \A e \in flat : e[1] \in SentBodies
    BY FlattenSent
  <2>2. SentBodies \subseteq BodyType
    BY DEF SentBodies, SentInv, MessageType
  <2>3. QED
    BY <2>1, <2>2
<1>2. \A e \in qrc : e \in flat /\ e[1].type = "ROUND_CHANGE" /\ e[1].round = r
  BY DEF OfRound
<1>3. \/ just = Listed(null)
      \/ \E a \in prepares : just = (Candidates(a) \cup PrepareSet(a)) \X {1}
  BY DEF JustifiedQRC
<1>4. Nodes \in Nat
  BY ClusterAssumption
<1>5. CASE just = Listed(null)
  <2>1. null \in SUBSET flat /\ \A e \in null : e[1].type = "ROUND_CHANGE" /\ e[1].round = r
    BY <1>2
  <2>2. \A e \in null : \E c \in buf : e = <<c[1].msg, <<c>>>>
    <3> SUFFICES ASSUME NEW e \in null PROVE \E c \in buf : e = <<c[1].msg, <<c>>>>
      OBVIOUS
    <3>1. ASSUME NEW c \in buf, NEW j \in c[1].justification, e = <<j[1], <<c, j>>>> PROVE FALSE
      <4>1. j[1].type = "ROUND_CHANGE" /\ j[1].round = r
        BY <2>1, <3>1
      <4>2. c[1].msg.type = "PRE_PREPARE" /\ c[1].msg.round = r
        BY <4>1 DEF VotesInv, Proper
      <4>3. QED
        BY <4>2 DEF Unproposed
    <3>2. QED
      BY <2>1, <3>1, FlattenFrom
  <2> HIDE DEF null
  <2>3. IsFiniteSet(just) /\ Cardinality(just) <= Nodes
    BY <1>5, <2>1, <2>2, FewEntries
  <2>4. \A j \in just : \E e \in null : j[1] = e[1]
    <3>1. \A e \in null : e[1] \in BodyType
      BY <1>1, <2>1
    <3>2. QED
      BY <1>5, <3>1, ListedTyped
  <2>5. Cardinality(just) \in Nat
    BY <2>3, FS_CardinalityType
  <2>6. QED
    BY <1>4, <2>1, <2>3, <2>4, <2>5
<1>6. ASSUME NEW a \in prepares, just = (Candidates(a) \cup PrepareSet(a)) \X {1}
      PROVE  /\ IsFiniteSet(just) /\ Cardinality(just) <= 2 * Nodes
             /\ \A j \in just : j[1].type # "COMMIT"
  <2> DEFINE C == Candidates(a)
             Q == PrepareSet(a)
  <2>1. C \in SUBSET SentBodies /\ \A b \in C : b.type = "ROUND_CHANGE" /\ b.round = r
    BY <1>1, <1>2 DEF Bodies
  <2>2. Q \in SUBSET SentBodies /\ \A b \in Q : b.type = "PREPARE" /\ b.round = a.round
    BY <1>1 DEF Bodies
  <2>3. just = (C \cup Q) \X {1}
    BY <1>6
  <2> HIDE DEF C, Q
  <2>4. IsFiniteSet(C) /\ Cardinality(C) \in Nat /\ Cardinality(C) <= Nodes
    BY <2>1, FewBodies
  <2>5. IsFiniteSet(Q) /\ Cardinality(Q) \in Nat /\ Cardinality(Q) <= Nodes
    BY <2>2, FewBodies
  <2>6. /\ IsFiniteSet(C \cup Q)
        /\ Cardinality(C \cup Q) = Cardinality(C) + Cardinality(Q) - Cardinality(C \cap Q)
    BY <2>4, <2>5, FS_Union
  <2>7. IsFiniteSet(C \cap Q)
    BY <2>4, FS_Intersection
  <2>8. Cardinality(C \cap Q) \in Nat
    BY <2>7, FS_CardinalityType
  <2>9. Cardinality(C \cup Q) <= 2 * Nodes
    BY <1>4, <2>4, <2>5, <2>6, <2>8
  <2>10. IsFiniteSet(just) /\ Cardinality(just) = Cardinality(C \cup Q)
    BY <2>3, <2>6, OnceLength
  <2>11. QED
    BY <2>1, <2>2, <2>3, <2>9, <2>10
<1>7. QED
  BY <1>3, <1>5, <1>6

-----------------------------------------------------------------------------
(* A message within verify_msg_limits unless it is a ROUND_CHANGE; COMMITs justify DECIDED only *)
LimitedMessage(m) ==
  /\ m.msg.type # "ROUND_CHANGE" => WithinLimits(m)
  /\ m.msg.type # "DECIDED" => \A j \in m.justification : j[1].type # "COMMIT"

(* The quorum p has decided on is not too long; until it decides, it stores no DECIDED *)
LimitedPeer(p) ==
  /\ Cardinality(q_commit[p]) <= 2 * Nodes
  /\ ~Decided(p) => /\ "JUSTIFIED_DECIDED" \notin dedup_rules[p]
                    /\ \A c \in buffer[p] : c[1].msg.type # "DECIDED"

(* The invariant, next to VotesInv and JustifiedInv *)
LimitsInv == (\A c \in sent : LimitedMessage(c[1])) /\ \A p \in Peer : LimitedPeer(p)

(* A step of p keeps it *)
LimitedStep(p) == (\A c \in sent' \ sent : LimitedMessage(c[1])) /\ LimitedPeer(p)'

(* Such a step, as no other instance changes, keeps the invariant *)
LEMMA LimitedStepKeeps ==
  ASSUME LimitsInv, NEW p \in Peer, OthersSame(p), LimitedStep(p)
  PROVE  LimitsInv'
<1>1. \A c \in sent' : LimitedMessage(c[1])
  BY DEF LimitsInv, LimitedStep
<1>2. ASSUME NEW q \in Peer PROVE LimitedPeer(q)'
  <2>1. CASE q = p
    BY <2>1 DEF LimitedStep
  <2>2. CASE q # p
    <3>1. /\ q_commit'[q] = q_commit[q] /\ buffer'[q] = buffer[q]
          /\ dedup_rules'[q] = dedup_rules[q]
      BY <2>2 DEF OthersSame
    <3>2. QED
      BY <3>1 DEF LimitsInv, LimitedPeer, Decided
  <2>3. QED
    BY <2>1, <2>2
<1>3. QED
  BY <1>1, <1>2 DEF LimitsInv

(* A broadcast adds one message *)
LEMMA LimitedBroadcast ==
  ASSUME NEW m, Broadcast(m), LimitedMessage(m)
  PROVE  \A c \in sent' \ sent : LimitedMessage(c[1])
BY DEF Broadcast

(* A message carries at most one value, its own *)
LEMMA MessageLimited ==
  ASSUME NEW t, NEW p, NEW r, NEW v, NEW just, NEW known, IsFiniteSet(just),
         Cardinality(just) <= 2 * Nodes, t # "DECIDED" => \A j \in just : j[1].type # "COMMIT"
  PROVE  LimitedMessage(Message(t, p, r, v, just, known))
<1> DEFINE m == Message(t, p, r, v, just, known)
<1>1. m.justification = just /\ m.msg.type = t /\ m.values = {v} \cap known
  BY DEF Message, Body
<1> HIDE DEF m
<1>2. Cardinality(just) \in Nat
  BY FS_CardinalityType
<1>3. Cardinality(m.values) <= 1 /\ Cardinality(m.values) \in Nat
  <2>1. IsFiniteSet({v}) /\ Cardinality({v}) = 1
    BY FS_Singleton
  <2>2. m.values \in SUBSET {v}
    BY <1>1
  <2>3. QED
    BY <2>1, <2>2, FS_Subset, FS_CardinalityType
<1>4. QED
  BY <1>1, <1>2, <1>3 DEF LimitedMessage, WithinLimits, m

(* An empty justification is within the limits *)
LEMMA VoteLimited ==
  ASSUME NEW t, NEW p, NEW r, NEW v, NEW known
  PROVE  LimitedMessage(Message(t, p, r, v, {}, known))
<1>1. IsFiniteSet({}) /\ Cardinality({}) <= 2 * Nodes /\ \A j \in {} : j[1].type # "COMMIT"
  BY FS_EmptySet, ClusterAssumption
<1>2. QED
  BY <1>1, MessageLimited

(* A ROUND_CHANGE has what its sender prepared: no COMMIT *)
LEMMA RoundChangeLimited ==
  ASSUME Inv, NEW p \in Peer, NEW r, NEW known
  PROVE  LimitedMessage(RoundChange(p, r, known))
<1> DEFINE m == RoundChange(p, r, known)
<1>1. m.justification = prepared[p].justification /\ m.msg.type = "ROUND_CHANGE"
  BY DEF RoundChange, Body
<1>2. \A j \in prepared[p].justification : j[1].type # "COMMIT"
  BY InvFacts DEF PeerInv
<1> HIDE DEF m
<1>3. QED
  BY <1>1, <1>2 DEF LimitedMessage, m

(* handle_message of an undecided instance, with any of its rules *)
LEMMA HandleLimited ==
  ASSUME Inv, VotesInv, JustifiedInv, LimitsInv, NEW p \in Up, NEW c \in sent, Handle(p, c)
  PROVE  LimitedStep(p)
<1> DEFINE b == c[1].msg
           buf == buffer[p] \cup {c}
           flat == Flatten(buf)
           rule == Classify(p, b, flat)
<1>1. /\ p \in Peer /\ SentInv /\ buf \in SUBSET sent /\ ~Decided(p) /\ buffer'[p] = buf
      /\ Proper(c[1]) /\ Justified(c[1]) /\ b \in BodyType /\ WithinLimits(c[1])
      /\ q_commit = [q \in Peer |-> q_commit[q]]
      /\ dedup_rules = [q \in Peer |-> dedup_rules[q]] /\ round[p] \in Nat
      /\ LimitedPeer(p)
  BY HandleFacts, InvFacts DEF LimitsInv, Handle
<1>2. /\ "JUSTIFIED_DECIDED" \notin dedup_rules[p]
      /\ \A d \in buffer[p] : d[1].msg.type # "DECIDED"
      /\ Cardinality(q_commit[p]) <= 2 * Nodes
  BY <1>1 DEF LimitedPeer
<1>3. /\ b.type = "DECIDED" => rule = "JUSTIFIED_DECIDED"
      /\ rule = "JUSTIFIED_DECIDED" => b.type = "DECIDED"
      /\ rule = "QUORUM_COMMITS" =>
           b.type = "COMMIT" /\ Cardinality(Votes(flat, "COMMIT", b.round, b.value)) >= Quorum
      /\ rule = "QUORUM_ROUND_CHANGES" =>
           b.type = "ROUND_CHANGE" /\ b.round = round[p] /\ IsLeader(round[p], p)
  <2>1. b.type = "DECIDED" => rule = "JUSTIFIED_DECIDED"
    BY DEF Classify, Stale
  <2>2. QED
    BY <2>1, ClassifyFacts
<1> HIDE DEF rule, flat, buf
<1>4. ASSUME b.type # "DECIDED", UNCHANGED q_commit,
             "JUSTIFIED_DECIDED" \notin dedup_rules'[p]
      PROVE  LimitedPeer(p)'
  BY <1>1, <1>2, <1>4 DEF LimitedPeer, buf
<1>5. ASSUME NEW r, NEW x \in Rules, x # "JUSTIFIED_DECIDED", ChangeRound(p, r, x)
      PROVE  "JUSTIFIED_DECIDED" \notin dedup_rules'[p]
  <2>1. dedup_rules'[p] = IF r = round[p] THEN dedup_rules[p] \cup {x} ELSE {}
    BY <1>1, <1>5 DEF ChangeRound
  <2>2. QED
    BY <1>2, <1>5, <2>1
<1>6. CASE /\ rule = "NOTHING" \/ rule \in dedup_rules[p]
           /\ UNCHANGED <<q_commit, dedup_rules, sent>>
  BY <1>2, <1>3, <1>4, <1>6 DEF LimitedStep
<1>7. CASE rule = "JUSTIFIED_PRE_PREPARE" /\ UponJustifiedPrePrepare(p, b)
  <2>1. /\ ChangeRound(p, b.round, "JUSTIFIED_PRE_PREPARE") /\ UNCHANGED q_commit
        /\ Broadcast(Message("PREPARE", p, b.round, b.value, {}, values'[p]))
    BY <1>7 DEF UponJustifiedPrePrepare
  <2>2. "JUSTIFIED_DECIDED" \notin dedup_rules'[p] /\ b.type # "DECIDED"
    BY <1>3, <1>5, <1>7, <2>1 DEF Rules
  <2>3. QED
    BY <1>4, <2>1, <2>2, VoteLimited, LimitedBroadcast DEF LimitedStep
<1>8. CASE rule = "QUORUM_PREPARES" /\ UponQuorumPrepares(p, b, flat)
  <2>1. /\ ChangeRound(p, round[p], "QUORUM_PREPARES") /\ UNCHANGED q_commit
        /\ Broadcast(Message("COMMIT", p, round[p], b.value, {}, values'[p]))
    BY <1>8 DEF UponQuorumPrepares
  <2>2. "JUSTIFIED_DECIDED" \notin dedup_rules'[p] /\ b.type # "DECIDED"
    BY <1>3, <1>5, <1>8, <2>1 DEF Rules
  <2>3. QED
    BY <1>4, <2>1, <2>2, VoteLimited, LimitedBroadcast DEF LimitedStep
<1>9. CASE rule = "QUORUM_COMMITS" /\ UponQuorumCommits(p, b, flat)
  <2> DEFINE votes == Votes(flat, "COMMIT", b.round, b.value)
  <2>1. /\ votes \in SUBSET flat
        /\ \A e \in votes : e[1].type = "COMMIT" /\ e[1].round = b.round
    BY DEF Votes, OfRound
  <2>2. \A e \in votes : \E d \in buf : e = <<d[1].msg, <<d>>>>
    <3> SUFFICES ASSUME NEW e \in votes PROVE \E d \in buf : e = <<d[1].msg, <<d>>>>
      OBVIOUS
    <3>1. ASSUME NEW d \in buf, NEW j \in d[1].justification, e = <<j[1], <<d, j>>>> PROVE FALSE
      <4>1. j[1].type = "COMMIT"
        BY <2>1, <3>1
      <4>2. d[1].msg.type = "DECIDED"
        BY <1>1, <4>1 DEF LimitsInv, LimitedMessage
      <4>3. d[1].msg.type # "DECIDED"
        BY <1>2, <1>3, <1>9 DEF buf
      <4>4. QED
        BY <4>2, <4>3
    <3>2. QED
      BY <2>1, <3>1, FlattenFrom DEF flat
  <2>3. q_commit' = [q_commit EXCEPT ![p] = Listed(votes)] /\ UNCHANGED sent
    BY <1>9 DEF UponQuorumCommits
  <2>4. Cardinality(votes) >= Quorum
    BY <1>3, <1>9
  <2> HIDE DEF votes
  <2>5. IsFiniteSet(Listed(votes)) /\ Cardinality(Listed(votes)) <= Nodes
    <3>1. votes \in SUBSET Flatten(buf) /\ "COMMIT" # "DECIDED" /\ buf \in SUBSET sent
      BY <1>1, <2>1 DEF flat
    <3> DEFINE t == "COMMIT"
               r == b.round
    <3>2. t # "DECIDED" /\ \A e \in votes : e[1].type = t /\ e[1].round = r
      BY <2>1
    <3> HIDE DEF t, r
    <3>3. QED
      BY <1>1, <2>2, <3>1, <3>2, FewEntries
  <2>6. Listed(votes) # {}
    <3>1. PICK e : e \in votes
      BY <2>4, QuorumNotEmpty
    <3>2. IsFiniteSet(votes)
      <4>1. \A d \in buf : IsFiniteSet(d[1].justification)
        BY <1>1 DEF JustifiedInv, JustifiedMessage
      <4>2. IsFiniteSet(flat)
        BY <1>1, <4>1, FlattenFinite DEF flat
      <4>3. QED
        BY <2>1, <4>2, FS_Subset
    <3>3. QED
      BY <3>1, <3>2, ListedComplete
  <2>7. q_commit'[p] = Listed(votes)
    BY <1>1, <2>3
  <2>8. Cardinality(q_commit'[p]) <= 2 * Nodes
    <3>1. Cardinality(Listed(votes)) \in Nat /\ Nodes \in Nat
      BY <2>5, FS_CardinalityType, ClusterAssumption
    <3>2. QED
      BY <2>5, <2>7, <3>1
  <2>9. QED
    BY <2>3, <2>6, <2>7, <2>8 DEF LimitedStep, LimitedPeer, Decided
<1>10. CASE rule = "JUSTIFIED_DECIDED" /\ UponJustifiedDecided(p, c[1])
  <2> DEFINE list == c[1].justification
  <2>1. q_commit' = [q_commit EXCEPT ![p] = list] /\ UNCHANGED sent
    BY <1>10 DEF UponJustifiedDecided
  <2>2. Cardinality(Votes(list, "COMMIT", b.round, b.value)) >= Quorum
    BY <1>1, <1>3, <1>10 DEF Justified, JustifiedDecided
  <2>3. list # {}
    <3>1. Votes(list, "COMMIT", b.round, b.value) # {}
      BY <2>2, QuorumNotEmpty
    <3>2. QED
      BY <3>1 DEF Votes, OfRound
  <2>4. Cardinality(list) <= 2 * Nodes
    BY <1>1 DEF WithinLimits
  <2> HIDE DEF list
  <2>5. q_commit'[p] = list
    BY <1>1, <2>1
  <2>6. QED
    BY <2>1, <2>3, <2>4, <2>5 DEF LimitedStep, LimitedPeer, Decided
<1>11. CASE rule = "F_PLUS_1_ROUND_CHANGES" /\ UponFPlus1RoundChanges(p, flat)
  <2>1. PICK r : /\ ChangeRound(p, r, "F_PLUS_1_ROUND_CHANGES")
                 /\ Broadcast(RoundChange(p, r, values'[p]))
    BY <1>11 DEF UponFPlus1RoundChanges
  <2>2. UNCHANGED q_commit
    BY <1>11 DEF UponFPlus1RoundChanges
  <2>3. "JUSTIFIED_DECIDED" \notin dedup_rules'[p] /\ b.type # "DECIDED"
    BY <1>3, <1>5, <1>11, <2>1 DEF Rules
  <2>4. \A d \in sent' \ sent : LimitedMessage(d[1])
    BY <1>1, <2>1, RoundChangeLimited, LimitedBroadcast
  <2>5. QED
    BY <1>4, <2>2, <2>3, <2>4 DEF LimitedStep
<1>12. CASE /\ rule = "QUORUM_ROUND_CHANGES" /\ rule \notin dedup_rules[p]
            /\ UponQuorumRoundChanges(p, flat)
  <2>1. PICK just \in JustifiedQRC(flat, round[p]) :
          Broadcast(Message("PRE_PREPARE", p, round[p], ProposedValue(p, just), just, values'[p]))
    BY <1>12 DEF UponQuorumRoundChanges
  <2>2. ChangeRound(p, round[p], "QUORUM_ROUND_CHANGES") /\ UNCHANGED q_commit
    BY <1>12 DEF UponQuorumRoundChanges
  <2>3. "JUSTIFIED_DECIDED" \notin dedup_rules'[p] /\ b.type # "DECIDED"
    BY <1>3, <1>5, <1>12, <2>2 DEF Rules
  <2>4. Unproposed(buf, round[p])
    <3>1. round[p] > 1 /\ IsLeader(round[p], p)
      BY <1>1, <1>3, <1>12 DEF Proper, Sane
    <3>2. Unproposed(sent, round[p])
      BY <1>1, <1>12, <3>1, NotProposed
    <3>3. QED
      BY <1>1, <3>2 DEF Unproposed
  <2>5. /\ IsFiniteSet(just) /\ Cardinality(just) <= 2 * Nodes
        /\ \A j \in just : j[1].type # "COMMIT"
    BY <1>1, <2>1, <2>4, FewQRC DEF flat
  <2>6. \A d \in sent' \ sent : LimitedMessage(d[1])
    BY <2>1, <2>5, MessageLimited, LimitedBroadcast
  <2>7. QED
    BY <1>4, <2>2, <2>3, <2>6 DEF LimitedStep
<1>13. QED
  BY <1>6, <1>7, <1>8, <1>9, <1>10, <1>11, <1>12 DEF Handle, flat, rule, buf

(* Without duplicates every step keeps the messages within the limits *)
LEMMA NextLimited ==
  ASSUME MaxDuplicates = 0, Inv, VotesInv, JustifiedInv, LimitsInv, [Next]_vars
  PROVE  LimitsInv'
<1>1. Inv' /\ Up \subseteq Peer
  BY NextInv, EnvironmentAssumption
<1>2. CASE UNCHANGED vars
  BY <1>2 DEF vars, LimitsInv, LimitedPeer, Decided
<1>3. ASSUME NEW p \in Up, Start(p) PROVE LimitsInv'
  <2>1. OthersSame(p) /\ LimitedPeer(p) /\ p \in Peer
    BY <1>1, <1>3, StartStep DEF VoteStep, LimitsInv
  <2>2. LimitedPeer(p)'
    BY <1>3, <2>1 DEF Start, LimitedPeer, Decided
  <2>3. LimitedStep(p)
    BY <1>3, <2>2, VoteLimited, LimitedBroadcast DEF Start, LimitedStep
  <2>4. QED
    BY <2>1, <2>3, LimitedStepKeeps
<1>4. ASSUME NEW p \in Up, Timeout(p) PROVE LimitsInv'
  <2>1. OthersSame(p) /\ LimitedPeer(p) /\ p \in Peer
    BY <1>1, <1>4, TimeoutStep DEF VoteStep, LimitsInv
  <2>2. "JUSTIFIED_DECIDED" \notin dedup_rules'[p]
    <3>1. /\ dedup_rules = [q \in Peer |-> dedup_rules[q]] /\ round[p] \in Nat
          /\ ChangeRound(p, round[p] + 1, "ROUND_TIMEOUT")
      BY <1>4, <2>1, InvFacts DEF Timeout
    <3>2. dedup_rules'[p] = {}
      BY <2>1, <3>1 DEF ChangeRound
    <3>3. QED
      BY <3>2
  <2>3. LimitedPeer(p)'
    BY <1>4, <2>1, <2>2 DEF Timeout, LimitedPeer, Decided
  <2>4. LimitedStep(p)
    BY <1>4, <2>1, <2>3, RoundChangeLimited, LimitedBroadcast DEF Timeout, LimitedStep
  <2>5. QED
    BY <2>1, <2>4, LimitedStepKeeps
<1>5. ASSUME NEW p \in Up, NEW c \in sent, Handle(p, c) PROVE LimitsInv'
  <2>1. OthersSame(p)
    BY <1>1, <1>5, HandleStep DEF VoteStep
  <2>2. QED
    BY <1>1, <1>5, <2>1, HandleLimited, LimitedStepKeeps
<1>6. ASSUME NEW p \in Up, NEW c \in sent, ResendDecided(p, c) PROVE LimitsInv'
  <2>1. OthersSame(p) /\ LimitedPeer(p) /\ p \in Peer
    BY <1>1, <1>6, ResendDecidedStep DEF VoteStep, LimitsInv
  <2>2. PICK v : Broadcast(Message("DECIDED", p, round[p], v, q_commit[p], values'[p]))
    BY <1>6 DEF ResendDecided
  <2>3. IsFiniteSet(q_commit[p]) /\ Cardinality(q_commit[p]) <= 2 * Nodes
    BY <2>1 DEF JustifiedInv, DecisionProof, LimitedPeer
  <2>4. \A d \in sent' \ sent : LimitedMessage(d[1])
    BY <2>2, <2>3, MessageLimited, LimitedBroadcast
  <2>5. LimitedPeer(p)'
    BY <1>6, <2>1 DEF ResendDecided, LimitedPeer, Decided
  <2>6. QED
    BY <2>1, <2>4, <2>5, LimitedStepKeeps DEF LimitedStep
<1>7. ASSUME NEW p \in Up, NEW c \in sent, Ignore(p, c) PROVE LimitsInv'
  BY <1>7 DEF Ignore, LimitsInv, LimitedPeer, Decided
<1>8. ASSUME NEW c \in sent, Duplicate(c) PROVE FALSE
  BY <1>8 DEF Duplicate, Inv, TypeOK
<1>9. QED
  BY <1>2, <1>3, <1>4, <1>5, <1>6, <1>7, <1>8 DEF Next

(* At the start nothing is decided or stored *)
LEMMA InitLimits == Init => LimitsInv
<1> SUFFICES ASSUME Init PROVE LimitsInv
  OBVIOUS
<1>1. sent = {} /\ \A p \in Peer : q_commit[p] = {} /\ dedup_rules[p] = {} /\ buffer[p] = {}
  BY DEF Init
<1>2. Cardinality({}) <= 2 * Nodes
  BY FS_EmptySet, ClusterAssumption
<1>3. QED
  BY <1>1, <1>2 DEF LimitsInv, LimitedPeer

(* What a peer broadcasts other than ROUND_CHANGEs is acceptable *)
OthersAcceptable ==
  \A c \in sent : c[1].msg.type # "ROUND_CHANGE" => WithinLimits(c[1]) /\ Justified(c[1])

(* Without duplicates, only a ROUND_CHANGE, by the PREPAREs it repeats, can exceed the limits
   that verify_msg_limits sets: a proposal lists at most a ROUND_CHANGE and a PREPARE of each
   peer, a decision at most a COMMIT of each *)
THEOREM OnlyRoundChangesExceedLimits ==
  ASSUME MaxDuplicates = 0
  PROVE  Spec => []OthersAcceptable
<1> DEFINE I == Inv /\ VotesInv /\ JustifiedInv /\ LimitsInv
<1>1. Init => I
  BY InitInv, InitVotes, InitJustified, InitLimits
<1>2. I /\ [Next]_vars => I'
  BY NextInv, NextVotes, NextJustified, NextLimited
<1>3. I => OthersAcceptable
  BY DEF JustifiedInv, JustifiedMessage, LimitsInv, LimitedMessage, OthersAcceptable
<1>4. QED
  BY <1>1, <1>2, <1>3, PTL DEF Spec

-----------------------------------------------------------------------------
(* What a message nests is older than the message: a ROUND_CHANGE tells of an earlier round,
   and the PREPAREs in it or in a proposal are of one; in a proposal none occurs twice *)
NestsEarlier(m) ==
  /\ m.msg.type = "ROUND_CHANGE" => m.msg.prepared_round < m.msg.round
  /\ \A j \in m.justification : j[1].type = "PREPARE" =>
       /\ j[1].round < m.msg.round
       /\ \/ m.msg.type = "ROUND_CHANGE"
          \/ m.msg.type = "PRE_PREPARE" /\ j[2] = 1

(* What is prepared rests on PREPAREs of its round, no longer a list than buf explains *)
PreparedFrom(x, buf) ==
  /\ \A j \in x.justification : j[1].round = x.round
  /\ CrowdedOnlyBy(buf, x.round, x.justification)

(* A ROUND_CHANGE carries no longer a list than the buffer of its sender explains *)
ExplainedBy(m, buf) ==
  m.msg.type = "ROUND_CHANGE" => CrowdedOnlyBy(buf, m.msg.prepared_round, m.justification)

(* The invariant, next to VotesInv and JustifiedInv *)
NestingInv ==
  /\ \A c \in sent : NestsEarlier(c[1]) /\ ExplainedBy(c[1], buffer[c[1].msg.peer])
  /\ \A p \in Peer : PreparedFrom(prepared[p], buffer[p])

(* A step of p stores more, sends what nests what is older, and explains the lists it makes *)
NestingStep(p) ==
  /\ buffer[p] \subseteq buffer'[p] /\ IsFiniteSet(Flatten(buffer'[p]))
  /\ prepared'[p] = prepared[p] \/ PreparedFrom(prepared'[p], buffer'[p])
  /\ \A c \in sent' \ sent : /\ c[1].msg.peer = p /\ NestsEarlier(c[1])
                             /\ ExplainedBy(c[1], buffer[p])

(* What explains a list is not forgotten *)
LEMMA CrowdStays ==
  ASSUME NEW big, IsFiniteSet(Flatten(big)), NEW buf \in SUBSET big, NEW r, NEW list,
         CrowdedOnlyBy(buf, r, list), IsFiniteSet(list)
  PROVE  CrowdedOnlyBy(big, r, list)
<1> DEFINE few == NestedPrepares(buf, r)
           many == NestedPrepares(big, r)
<1>1. few \subseteq many /\ many \subseteq Flatten(big)
  BY DEF NestedPrepares, OfRound, Flatten
<1> HIDE DEF few, many
<1>2. IsFiniteSet(many) /\ IsFiniteSet(few) /\ Cardinality(few) <= Cardinality(many)
  BY <1>1, FS_Subset
<1>3. Cardinality(few) \in Nat /\ Cardinality(many) \in Nat /\ Cardinality(list) \in Nat
  BY <1>2, FS_CardinalityType
<1>4. QED
  BY <1>2, <1>3, ClusterAssumption DEF CrowdedOnlyBy, few, many

(* Such a step keeps the invariant *)
LEMMA NestingStepKeeps ==
  ASSUME Inv, JustifiedInv, JustifiedInv', NestingInv, NEW p \in Peer, OthersSame(p),
         NestingStep(p)
  PROVE  NestingInv'
<1>1. ASSUME NEW q \in Peer, NEW r, NEW list, CrowdedOnlyBy(buffer[q], r, list),
             IsFiniteSet(list)
      PROVE  CrowdedOnlyBy(buffer'[q], r, list)
  <2>1. CASE q = p
    BY <1>1, <2>1, CrowdStays DEF NestingStep
  <2>2. CASE q # p
    <3>1. buffer'[q] = buffer[q]
      BY <2>2 DEF OthersSame
    <3>2. QED
      BY <1>1, <3>1
  <2>3. QED
    BY <2>1, <2>2
<1>2. ASSUME NEW q \in Peer PROVE PreparedFrom(prepared'[q], buffer'[q])
  <2>1. CASE prepared'[q] = prepared[q]
    <3>1. PreparedFrom(prepared[q], buffer[q]) /\ IsFiniteSet(prepared[q].justification)
      BY DEF NestingInv, JustifiedInv, PreparedProof
    <3>2. PreparedFrom(prepared[q], buffer'[q])
      BY <1>1, <3>1 DEF PreparedFrom
    <3>3. QED
      BY <2>1, <3>2
  <2>2. CASE prepared'[q] # prepared[q]
    BY <2>2 DEF OthersSame, NestingStep
  <2>3. QED
    BY <2>1, <2>2
<1>3. ASSUME NEW c \in sent'
      PROVE  NestsEarlier(c[1]) /\ ExplainedBy(c[1], buffer'[c[1].msg.peer])
  <2>1. CASE c \in sent
    <3>1. /\ NestsEarlier(c[1]) /\ ExplainedBy(c[1], buffer[c[1].msg.peer])
          /\ IsFiniteSet(c[1].justification) /\ c[1].msg.peer \in Peer
      BY <2>1 DEF NestingInv, JustifiedInv, JustifiedMessage, Inv, SentInv, MessageType, BodyType
    <3>2. QED
      BY <1>1, <3>1 DEF ExplainedBy
  <2>2. CASE c \notin sent
    <3>1. c[1].msg.peer = p /\ NestsEarlier(c[1]) /\ ExplainedBy(c[1], buffer[p])
      BY <2>2 DEF NestingStep
    <3>2. CASE c[1].msg.type = "ROUND_CHANGE"
      <4>1. IsFiniteSet(c[1].justification)
        BY DEF JustifiedInv, JustifiedMessage
      <4>2. QED
        BY <1>1, <3>1, <4>1 DEF ExplainedBy
    <3>3. QED
      BY <3>1, <3>2 DEF ExplainedBy
  <2>3. QED
    BY <2>1, <2>2
<1>4. QED
  BY <1>2, <1>3 DEF NestingInv

(* A broadcast adds one message *)
LEMMA NestingBroadcast ==
  ASSUME NEW m, Broadcast(m), NEW p, m.msg.peer = p, NestsEarlier(m), ExplainedBy(m, buffer[p])
  PROVE  \A c \in sent' \ sent : /\ c[1].msg.peer = p /\ NestsEarlier(c[1])
                                 /\ ExplainedBy(c[1], buffer[p])
BY DEF Broadcast

(* Only a ROUND_CHANGE has to be explained, and a message without PREPAREs nests none *)
LEMMA MessageNests ==
  ASSUME NEW t, t # "ROUND_CHANGE", NEW p, NEW r, NEW v, NEW just, NEW known,
         Broadcast(Message(t, p, r, v, just, known)),
         \A j \in just : j[1].type = "PREPARE" => t = "PRE_PREPARE" /\ j[1].round < r /\ j[2] = 1
  PROVE  \A c \in sent' \ sent : /\ c[1].msg.peer = p /\ NestsEarlier(c[1])
                                 /\ ExplainedBy(c[1], buffer[p])
<1> DEFINE m == Message(t, p, r, v, just, known)
<1>1. /\ m.msg.peer = p /\ m.msg.type = t /\ m.msg.round = r /\ m.justification = just
  BY DEF Message, Body
<1> HIDE DEF m
<1>2. NestsEarlier(m) /\ ExplainedBy(m, buffer[p])
  BY <1>1 DEF NestsEarlier, ExplainedBy
<1>3. QED
  BY <1>1, <1>2, NestingBroadcast DEF m

(* A ROUND_CHANGE for a later round repeats what was prepared before *)
LEMMA RoundChangeNests ==
  ASSUME Inv, NestingInv, NEW p \in Peer, ~Decided(p), NEW r \in Nat, r > round[p], NEW known
  PROVE  LET m == RoundChange(p, r, known)
         IN  m.msg.peer = p /\ NestsEarlier(m) /\ ExplainedBy(m, buffer[p])
<1> DEFINE m == RoundChange(p, r, known)
           x == prepared[p]
<1>1. /\ m.justification = x.justification /\ m.msg.type = "ROUND_CHANGE" /\ m.msg.peer = p
      /\ m.msg.round = r /\ m.msg.prepared_round = x.round
  BY DEF RoundChange, Body
<1>2. x.round < r
  <2>1. round[p] \in Nat /\ x.round \in Nat /\ x.round <= round[p]
    BY InvFacts DEF PeerInv, PreparedType
  <2>2. QED
    BY <2>1
<1>3. PreparedFrom(x, buffer[p])
  BY DEF NestingInv
<1> HIDE DEF m, x
<1>4. NestsEarlier(m)
  <2>1. \A j \in m.justification : j[1].round < m.msg.round
    BY <1>1, <1>2, <1>3 DEF PreparedFrom
  <2>2. QED
    BY <1>1, <1>2, <2>1 DEF NestsEarlier
<1>5. ExplainedBy(m, buffer[p])
  BY <1>1, <1>3 DEF ExplainedBy, PreparedFrom
<1>6. QED
  BY <1>1, <1>4, <1>5 DEF m

(* The PREPAREs that _classify finds for a round: one of each peer, and those nested in messages
   of later rounds *)
LEMMA PreparesExplained ==
  ASSUME SentInv, VotesInv, JustifiedInv, NestingInv, NEW buf \in SUBSET sent, NEW r, NEW v
  PROVE  CrowdedOnlyBy(buf, r, Listed(Votes(Flatten(buf), "PREPARE", r, v)))
<1> DEFINE flat == Flatten(buf)
           votes == Votes(flat, "PREPARE", r, v)
           direct == {e \in votes : \E c \in buf : e = <<c[1].msg, <<c>>>>}
           nested == votes \ direct
           crowd == NestedPrepares(buf, r)
<1>1. IsFiniteSet(flat)
  <2>1. \A c \in buf : IsFiniteSet(c[1].justification)
    BY DEF JustifiedInv, JustifiedMessage
  <2>2. QED
    BY <2>1, FlattenFinite
<1>2. \A e \in votes : e \in flat /\ e[1].type = "PREPARE" /\ e[1].round = r
  BY DEF Votes, OfRound
<1>3. nested \subseteq crowd
  <2> SUFFICES ASSUME NEW e \in nested PROVE e \in crowd
    OBVIOUS
  <2>1. PICK c \in buf : \E j \in c[1].justification : e = <<j[1], <<c, j>>>>
    BY <1>2, FlattenFrom
  <2>2. PICK j \in c[1].justification : e = <<j[1], <<c, j>>>>
    BY <2>1
  <2>3. j[1].type = "PREPARE" /\ j[1].round = r
    BY <1>2, <2>2
  <2>4. r < c[1].msg.round
    BY <2>3 DEF NestingInv, NestsEarlier
  <2>5. c[1].msg.round \in Nat
    BY DEF SentInv, MessageType, BodyType
  <2>6. r \in Nat
    <3>1. c \in sent /\ j[1] \in BodyType
      BY DEF SentInv, MessageType, ListType
    <3>2. QED
      BY <2>3, <3>1 DEF BodyType
  <2>7. c \in {d \in buf : d[1].msg.round > r}
    BY <2>4, <2>5, <2>6
  <2>8. e \in Flatten({d \in buf : d[1].msg.round > r})
    BY <2>2, <2>7, FlattenHas
  <2>9. QED
    BY <1>2, <2>8 DEF NestedPrepares, OfRound
<1>4. crowd \subseteq flat
  BY DEF NestedPrepares, OfRound, Flatten
<1>5. Cardinality(direct) <= Nodes
  <2>1. direct \in SUBSET flat /\ \A e \in direct : \E c \in buf : e = <<c[1].msg, <<c>>>>
    BY <1>2
  <2> DEFINE t == "PREPARE"
  <2>2. t # "DECIDED" /\ \A e \in direct : e[1].type = t /\ e[1].round = r
    BY <1>2
  <2> HIDE DEF direct, t
  <2>3. Cardinality(Listed(direct)) <= Nodes
    BY <2>1, <2>2, FewEntries
  <2>4. IsFiniteSet(direct)
    BY <1>1, <2>1, FS_Subset
  <2>5. QED
    BY <2>3, <2>4, ListedLength
<1>6. votes \subseteq flat /\ votes = direct \cup nested /\ direct \cap nested = {}
  BY <1>2
<1> HIDE DEF flat, votes, direct, nested, crowd
<1>7. /\ IsFiniteSet(votes) /\ IsFiniteSet(direct) /\ IsFiniteSet(nested) /\ IsFiniteSet(crowd)
      /\ Cardinality(nested) <= Cardinality(crowd)
  <2>1. IsFiniteSet(votes) /\ IsFiniteSet(crowd)
    BY <1>1, <1>4, <1>6, FS_Subset
  <2>2. direct \subseteq votes /\ nested \subseteq votes
    BY <1>6
  <2>3. IsFiniteSet(direct) /\ IsFiniteSet(nested)
    BY <2>1, <2>2, FS_Subset
  <2>4. Cardinality(nested) <= Cardinality(crowd)
    BY <1>3, <2>1, FS_Subset
  <2>5. QED
    BY <2>1, <2>3, <2>4
<1>8. Cardinality(votes) = Cardinality(direct) + Cardinality(nested)
  <2>1. Cardinality(votes) =
          Cardinality(direct) + Cardinality(nested) - Cardinality(direct \cap nested)
    BY <1>6, <1>7, FS_Union
  <2>2. Cardinality(direct) \in Nat /\ Cardinality(nested) \in Nat
    BY <1>7, FS_CardinalityType
  <2>3. QED
    BY <1>6, <2>1, <2>2, FS_EmptySet
<1>9. /\ Cardinality(direct) \in Nat /\ Cardinality(nested) \in Nat
      /\ Cardinality(crowd) \in Nat /\ Nodes \in Nat
  BY <1>7, FS_CardinalityType, ClusterAssumption
<1>10. Cardinality(Listed(votes)) = Cardinality(votes)
  BY <1>7, ListedLength
<1>11. QED
  BY <1>5, <1>7, <1>8, <1>9, <1>10 DEF CrowdedOnlyBy, votes, flat, crowd

(* The PREPAREs that justify a proposal are of an earlier round, each listed once *)
LEMMA QRCNests ==
  ASSUME SentInv, VotesInv, NestingInv, NEW buf \in SUBSET sent, NEW r,
         NEW just \in JustifiedQRC(Flatten(buf), r)
  PROVE  \A j \in just : j[1].type = "PREPARE" => j[1].round < r /\ j[2] = 1
<1> DEFINE flat == Flatten(buf)
           qrc == OfRound(flat, "ROUND_CHANGE", r)
           null == {e \in qrc : NullPrepared(e[1])}
           prepares == {b \in Bodies(flat) : b.type = "PREPARE"}
           PrepareSet(a) == {b \in prepares : b.round = a.round /\ b.value = a.value}
           Candidates(a) == {rc \in Bodies(qrc) : rc.prepared_round <= a.round}
<1>1. \/ just = Listed(null)
      \/ \E a \in prepares :
           /\ just = (Candidates(a) \cup PrepareSet(a)) \X {1}
           /\ \E rc \in Candidates(a) : rc.prepared_round = a.round
  BY DEF JustifiedQRC
<1>2. \A e \in flat : e[1] \in SentBodies /\ e[1] \in BodyType
  <2>1. \A e \in flat : e[1] \in SentBodies
    BY FlattenSent
  <2>2. SentBodies \subseteq BodyType
    BY DEF SentBodies, SentInv, MessageType
  <2>3. QED
    BY <2>1, <2>2
<1>3. \A e \in qrc : e \in flat /\ e[1].type = "ROUND_CHANGE" /\ e[1].round = r
  BY DEF OfRound
<1>4. CASE just = Listed(null)
  <2>1. \A e \in null : e[1] \in BodyType /\ e[1].type = "ROUND_CHANGE"
    BY <1>2, <1>3
  <2> HIDE DEF null
  <2>2. \A j \in just : \E e \in null : j[1] = e[1]
    BY <1>4, <2>1, ListedTyped
  <2>3. QED
    BY <2>1, <2>2
<1>5. ASSUME NEW a \in prepares, just = (Candidates(a) \cup PrepareSet(a)) \X {1},
             NEW rc \in Candidates(a), rc.prepared_round = a.round
      PROVE  \A j \in just : j[1].type = "PREPARE" => j[1].round < r /\ j[2] = 1
  <2>1. rc \in SentBodies /\ rc.type = "ROUND_CHANGE" /\ rc.round = r
    BY <1>2, <1>3 DEF Bodies
  <2>2. PICK c \in sent : rc = c[1].msg
    BY <2>1 DEF SentBodies
  <2>3. a.round < r
    BY <1>5, <2>1, <2>2 DEF NestingInv, NestsEarlier
  <2>4. \A b \in Candidates(a) : b.type = "ROUND_CHANGE"
    BY <1>3 DEF Bodies
  <2>5. \A b \in PrepareSet(a) : b.round = a.round
    OBVIOUS
  <2>6. \A j \in just : j[2] = 1 /\ (j[1] \in Candidates(a) \/ j[1] \in PrepareSet(a))
    BY <1>5
  <2>7. QED
    BY <2>3, <2>4, <2>5, <2>6
<1>6. QED
  BY <1>1, <1>4, <1>5

(* handle_message of an undecided instance, with any of its rules *)
LEMMA HandleNesting ==
  ASSUME Inv, VotesInv, JustifiedInv, NestingInv, NEW p \in Up, NEW c \in sent, Handle(p, c)
  PROVE  NestingStep(p)
<1> DEFINE b == c[1].msg
           buf == buffer[p] \cup {c}
           flat == Flatten(buf)
           rule == Classify(p, b, flat)
<1>1. /\ p \in Peer /\ SentInv /\ buf \in SUBSET sent /\ ~Decided(p) /\ buffer'[p] = buf
      /\ prepared = [q \in Peer |-> prepared[q]] /\ round[p] \in Nat
  BY HandleFacts, InvFacts
<1>2. IsFiniteSet(flat)
  <2>1. \A d \in buf : IsFiniteSet(d[1].justification)
    BY <1>1 DEF JustifiedInv, JustifiedMessage
  <2>2. QED
    BY <1>1, <2>1, FlattenFinite
<1>3. \A e \in flat : e[1] \in BodyType
  <2>1. \A e \in flat : e[1] \in SentBodies
    BY <1>1, FlattenSent
  <2>2. SentBodies \subseteq BodyType
    BY <1>1 DEF SentBodies, SentInv, MessageType
  <2>3. QED
    BY <2>1, <2>2
<1>4. buffer[p] \subseteq buffer'[p] /\ IsFiniteSet(Flatten(buffer'[p]))
  BY <1>1, <1>2
<1> HIDE DEF rule, flat, buf
<1>5. CASE UNCHANGED <<prepared, sent>>
  BY <1>4, <1>5 DEF NestingStep
<1>6. CASE UponJustifiedPrePrepare(p, b)
  BY <1>4, <1>6, MessageNests DEF UponJustifiedPrePrepare, NestingStep
<1>7. CASE UponQuorumPrepares(p, b, flat)
  <2> DEFINE list == Listed(Votes(flat, "PREPARE", b.round, b.value))
             x == [round |-> b.round, value |-> b.value, justification |-> list]
  <2>1. \A j \in list : j[1].round = b.round
    BY <1>3, VotesListed
  <2>2. CrowdedOnlyBy(buf, b.round, list)
    BY <1>1, PreparesExplained DEF flat
  <2>3. prepared' = [prepared EXCEPT ![p] = x]
    BY <1>7 DEF UponQuorumPrepares
  <2> HIDE DEF list
  <2>4. PreparedFrom(x, buf)
    BY <2>1, <2>2 DEF PreparedFrom
  <2> HIDE DEF x
  <2>5. prepared'[p] = x
    BY <1>1, <2>3
  <2>6. \A d \in sent' \ sent : /\ d[1].msg.peer = p /\ NestsEarlier(d[1])
                                /\ ExplainedBy(d[1], buffer[p])
    BY <1>7, MessageNests DEF UponQuorumPrepares
  <2>7. QED
    BY <1>1, <1>4, <2>4, <2>5, <2>6 DEF NestingStep
<1>8. CASE UponFPlus1RoundChanges(p, flat)
  <2>1. PICK r \in JumpRounds(p, flat) : Broadcast(RoundChange(p, r, values'[p]))
    BY <1>8 DEF UponFPlus1RoundChanges
  <2>2. r \in Nat /\ r > round[p]
    <3>1. PICK e \in flat : e[1].round = r /\ r > round[p]
      BY <2>1 DEF JumpRounds, Bodies
    <3>2. QED
      BY <1>3, <3>1 DEF BodyType
  <2>3. UNCHANGED prepared
    BY <1>8 DEF UponFPlus1RoundChanges
  <2>4. \A d \in sent' \ sent : /\ d[1].msg.peer = p /\ NestsEarlier(d[1])
                                /\ ExplainedBy(d[1], buffer[p])
    BY <1>1, <2>1, <2>2, RoundChangeNests, NestingBroadcast
  <2>5. QED
    BY <1>4, <2>3, <2>4 DEF NestingStep
<1>9. CASE UponQuorumRoundChanges(p, flat)
  <2>1. PICK just \in JustifiedQRC(flat, round[p]) :
          Broadcast(Message("PRE_PREPARE", p, round[p], ProposedValue(p, just), just, values'[p]))
    BY <1>9 DEF UponQuorumRoundChanges
  <2>2. \A j \in just : j[1].type = "PREPARE" => j[1].round < round[p] /\ j[2] = 1
    BY <1>1, <2>1, QRCNests DEF flat
  <2>3. \A d \in sent' \ sent : /\ d[1].msg.peer = p /\ NestsEarlier(d[1])
                                /\ ExplainedBy(d[1], buffer[p])
    BY <2>1, <2>2, MessageNests
  <2>4. UNCHANGED prepared
    BY <1>9 DEF UponQuorumRoundChanges
  <2>5. QED
    BY <1>4, <2>3, <2>4 DEF NestingStep
<1>10. CASE UponQuorumCommits(p, b, flat) \/ UponJustifiedDecided(p, c[1])
  BY <1>5, <1>10 DEF UponQuorumCommits, UponJustifiedDecided
<1>11. QED
  BY <1>5, <1>6, <1>7, <1>8, <1>9, <1>10 DEF Handle, flat, rule, buf

(* Without duplicates every step keeps the invariant *)
LEMMA NextNesting ==
  ASSUME MaxDuplicates = 0, Inv, VotesInv, JustifiedInv, NestingInv, [Next]_vars
  PROVE  NestingInv'
<1>1. Inv' /\ JustifiedInv' /\ Up \subseteq Peer
  BY NextInv, NextJustified, EnvironmentAssumption
<1>2. \A p \in Peer : IsFiniteSet(Flatten(buffer[p]))
  <2> SUFFICES ASSUME NEW p \in Peer PROVE IsFiniteSet(Flatten(buffer[p]))
    OBVIOUS
  <2>1. /\ SentInv /\ buffer[p] \in SUBSET sent
        /\ \A c \in buffer[p] : IsFiniteSet(c[1].justification)
    BY InvFacts DEF JustifiedInv, JustifiedMessage
  <2>2. QED
    BY <2>1, FlattenFinite
<1>3. CASE UNCHANGED vars
  BY <1>3 DEF vars, NestingInv
<1>4. ASSUME NEW p \in Up, Start(p) PROVE NestingInv'
  <2>1. OthersSame(p) /\ p \in Peer
    BY <1>1, <1>4, StartStep DEF VoteStep
  <2>2. NestingStep(p)
    BY <1>2, <1>4, <2>1, MessageNests DEF Start, NestingStep
  <2>3. QED
    BY <1>1, <2>1, <2>2, NestingStepKeeps
<1>5. ASSUME NEW p \in Up, Timeout(p) PROVE NestingInv'
  <2>1. OthersSame(p) /\ p \in Peer /\ ~Decided(p) /\ round[p] \in Nat
    BY <1>1, <1>5, TimeoutStep, InvFacts DEF VoteStep, Timeout
  <2> DEFINE r == round[p] + 1
  <2>2. /\ r \in Nat /\ r > round[p] /\ Broadcast(RoundChange(p, r, values[p]))
        /\ UNCHANGED <<prepared, buffer>>
    BY <1>5, <2>1 DEF Timeout
  <2> HIDE DEF r
  <2>3. \A d \in sent' \ sent : /\ d[1].msg.peer = p /\ NestsEarlier(d[1])
                                /\ ExplainedBy(d[1], buffer[p])
    BY <2>1, <2>2, RoundChangeNests, NestingBroadcast
  <2>4. NestingStep(p)
    BY <1>2, <2>1, <2>2, <2>3 DEF NestingStep
  <2>5. QED
    BY <1>1, <2>1, <2>4, NestingStepKeeps
<1>6. ASSUME NEW p \in Up, NEW c \in sent, Handle(p, c) PROVE NestingInv'
  <2>1. OthersSame(p) /\ p \in Peer
    BY <1>1, <1>6, HandleStep DEF VoteStep
  <2>2. QED
    BY <1>1, <1>6, <2>1, HandleNesting, NestingStepKeeps
<1>7. ASSUME NEW p \in Up, NEW c \in sent, ResendDecided(p, c) PROVE NestingInv'
  <2>1. OthersSame(p) /\ p \in Peer
    BY <1>1, <1>7, ResendDecidedStep DEF VoteStep
  <2>2. PICK v : Broadcast(Message("DECIDED", p, round[p], v, q_commit[p], values'[p]))
    BY <1>7 DEF ResendDecided
  <2>3. \A j \in q_commit[p] : j[1].type = "COMMIT"
    BY <2>1, InvFacts DEF PeerInv
  <2>4. \A d \in sent' \ sent : /\ d[1].msg.peer = p /\ NestsEarlier(d[1])
                                /\ ExplainedBy(d[1], buffer[p])
    BY <2>2, <2>3, MessageNests
  <2>5. NestingStep(p)
    BY <1>2, <1>7, <2>1, <2>4 DEF ResendDecided, NestingStep
  <2>6. QED
    BY <1>1, <2>1, <2>5, NestingStepKeeps
<1>8. ASSUME NEW p \in Up, NEW c \in sent, Ignore(p, c) PROVE NestingInv'
  BY <1>8 DEF Ignore, NestingInv
<1>9. ASSUME NEW c \in sent, Duplicate(c) PROVE FALSE
  BY <1>9 DEF Duplicate, Inv, TypeOK
<1>10. QED
  BY <1>3, <1>4, <1>5, <1>6, <1>7, <1>8, <1>9 DEF Next

(* At the start nothing is prepared *)
LEMMA InitNesting == Init => NestingInv
<1> SUFFICES ASSUME Init PROVE NestingInv
  OBVIOUS
<1>1. sent = {} /\ \A p \in Peer : /\ prepared[p].justification = {} /\ prepared[p].round = 0
                                   /\ buffer[p] = {}
  BY DEF Init
<1>2. NestedPrepares({}, 0) = {}
  BY DEF NestedPrepares, OfRound, Flatten
<1>3. CrowdedOnlyBy({}, 0, {})
  BY <1>2, FS_EmptySet, ClusterAssumption DEF CrowdedOnlyBy
<1>4. QED
  BY <1>1, <1>3 DEF NestingInv, PreparedFrom

(* Without duplicates, what a peer has prepared, and a ROUND_CHANGE that carries it, lists more
   PREPAREs than the cluster has peers only by those nested in messages of later rounds that the
   peer has stored *)
THEOREM CrowdedByNestingHolds ==
  ASSUME MaxDuplicates = 0
  PROVE  Spec => []CrowdedByNesting
<1> DEFINE I == Inv /\ VotesInv /\ JustifiedInv /\ NestingInv
<1>1. Init => I
  BY InitInv, InitVotes, InitJustified, InitNesting
<1>2. I /\ [Next]_vars => I'
  BY NextInv, NextVotes, NextJustified, NextNesting
<1>3. I => CrowdedByNesting
  BY DEF NestingInv, PreparedFrom, ExplainedBy, CrowdedByNesting
<1>4. QED
  BY <1>1, <1>2, <1>3, PTL DEF Spec

-----------------------------------------------------------------------------
(* A set of one value, or of none, is within what verify_msg_limits allows *)
LEMMA OneValue ==
  ASSUME NEW m, IsFiniteSet(m.justification), Cardinality(m.justification) <= 2 * Nodes,
         NEW v, m.values \in SUBSET {v}
  PROVE  WithinLimits(m)
<1>1. Cardinality(m.justification) \in Nat
  BY FS_CardinalityType
<1>2. Cardinality(m.values) <= 1 /\ Cardinality(m.values) \in Nat
  <2>1. IsFiniteSet({v}) /\ Cardinality({v}) = 1
    BY FS_Singleton
  <2>2. QED
    BY <2>1, FS_Subset, FS_CardinalityType
<1>3. QED
  BY <1>1, <1>2 DEF WithinLimits

(* Up to three nodes none may be faulty: one ROUND_CHANGE of a later round is enough *)
LEMMA JumpsAtOnce ==
  ASSUME Nodes <= 3, NEW p, NEW flat, IsFiniteSet(flat), NEW e \in flat,
         e[1] \in BodyType, e[1].type = "ROUND_CHANGE", e[1].round > round[p]
  PROVE  JumpRounds(p, flat) # {}
<1> DEFINE future == {b \in Bodies(flat) : b.type = "ROUND_CHANGE" /\ b.round > round[p]}
           r == e[1].round
           from == {b.peer : b \in {a \in future : a.round >= r}}
<1>1. Faulty = 0
  <2>1. Nodes = 1 \/ Nodes = 2 \/ Nodes = 3
    BY ClusterAssumption
  <2>2. QED
    BY <2>1 DEF Faulty
<1>2. e[1] \in future
  BY DEF Bodies
<1>3. IsFiniteSet(from)
  <2> DEFINE S == {d \in flat : d[1] \in future /\ d[1].round >= r}
             f == [d \in S |-> d[1].peer]
  <2>1. IsFiniteSet(S)
    BY FS_Subset
  <2>2. f \in Surjection(S, from)
    BY DEF Surjection, Bodies
  <2>3. QED
    BY <2>1, <2>2, FS_Surjection
<1>4. r >= r
  BY DEF BodyType
<1>5. from # {}
  BY <1>2, <1>4
<1> HIDE DEF from
<1>6. Cardinality(from) >= Faulty + 1
  BY <1>1, <1>3, <1>5, FS_EmptySet, FS_CardinalityType
<1>7. QED
  BY <1>2, <1>6 DEF JumpRounds, from

(* Before the last of two rounds, a peer that stores no ROUND_CHANGE of a later round finds
   PREPAREs nested in one proposal only *)
LEMMA FewNested ==
  ASSUME MaxRound <= 2, SentInv, VotesInv, JustifiedInv, NestingInv, NEW buf \in SUBSET sent,
         NEW r \in Nat \ {0},
         \A c \in buf : c[1].msg.type = "ROUND_CHANGE" => c[1].msg.round <= r
  PROVE  Cardinality(NestedPrepares(buf, r)) \in Nat
         /\ Cardinality(NestedPrepares(buf, r)) <= Nodes
<1> DEFINE crowd == NestedPrepares(buf, r)
           f == [e \in crowd |-> e[1].peer]
<1>1. ASSUME NEW e \in crowd
      PROVE  \E c \in buf : \E j \in c[1].justification :
               /\ e = <<j[1], <<c, j>>>> /\ j[1].type = "PREPARE" /\ j[1].round = r
               /\ j = <<j[1], 1>> /\ c[1].msg.type = "PRE_PREPARE" /\ c[1].msg.round = 2
  <2>1. /\ e \in Flatten({c \in buf : c[1].msg.round > r})
        /\ e[1].type = "PREPARE" /\ e[1].round = r
    BY DEF NestedPrepares, OfRound
  <2>2. PICK c \in {d \in buf : d[1].msg.round > r} :
          e = <<c[1].msg, <<c>>>> \/ \E j \in c[1].justification : e = <<j[1], <<c, j>>>>
    BY <2>1, FlattenFrom
  <2>3. c \in sent /\ c[1].msg.round > r /\ c[1].msg.round \in Nat
    BY <2>2 DEF SentInv, MessageType, BodyType
  <2>4. PICK j \in c[1].justification : e = <<j[1], <<c, j>>>>
    BY <2>1, <2>2, <2>3
  <2>5. j[1].type = "PREPARE" /\ j[1].round = r
    BY <2>1, <2>4
  <2>6. c[1].msg.type = "PRE_PREPARE" /\ j[2] = 1
    <3>1. ~(c[1].msg.type = "ROUND_CHANGE")
      BY <2>2, <2>3
    <3>2. NestsEarlier(c[1])
      BY <2>3 DEF NestingInv
    <3>3. QED
      BY <2>5, <3>1, <3>2 DEF NestsEarlier
  <2>7. c[1].msg.round = 2
    <3>1. c[1].msg.round <= MaxRound
      BY <2>3 DEF VotesInv, Proper, Sane
    <3>2. QED
      BY <2>3, <3>1, EnvironmentAssumption
  <2>8. j = <<j[1], j[2]>>
    <3>1. c[1].justification \in SUBSET (BodyType \X Nat)
      BY <2>3 DEF SentInv, MessageType, ListType
    <3>2. QED
      BY <3>1
  <2>9. QED
    BY <2>2, <2>4, <2>5, <2>6, <2>7, <2>8
<1>2. ASSUME NEW e \in crowd PROVE e[1] \in SentBodies
  <2>1. PICK c \in buf : \E j \in c[1].justification : e = <<j[1], <<c, j>>>>
    BY <1>1
  <2>2. PICK j \in c[1].justification : e = <<j[1], <<c, j>>>>
    BY <2>1
  <2>3. j[1] \in SentBodies
    BY DEF VotesInv, Proper, Known
  <2>4. QED
    BY <2>2, <2>3
<1>3. ASSUME NEW e \in crowd, NEW d \in crowd, e[1].peer = d[1].peer PROVE e = d
  <2>1. PICK c1 \in buf : \E j \in c1[1].justification :
               /\ e = <<j[1], <<c1, j>>>> /\ j[1].type = "PREPARE" /\ j[1].round = r
               /\ j = <<j[1], 1>> /\ c1[1].msg.type = "PRE_PREPARE" /\ c1[1].msg.round = 2
    BY <1>1
  <2>2. PICK c2 \in buf : \E j \in c2[1].justification :
               /\ d = <<j[1], <<c2, j>>>> /\ j[1].type = "PREPARE" /\ j[1].round = r
               /\ j = <<j[1], 1>> /\ c2[1].msg.type = "PRE_PREPARE" /\ c2[1].msg.round = 2
    BY <1>1
  <2>3. c1 = c2
    <3>1. IsLeader(2, c1[1].msg.peer) /\ IsLeader(2, c2[1].msg.peer)
      BY <2>1, <2>2 DEF VotesInv, Proper, Sane
    <3>2. c1[1].msg.peer = c2[1].msg.peer
      BY <3>1 DEF IsLeader
    <3>3. QED
      BY <2>1, <2>2, <3>2 DEF VotesInv, Unique, SameVote
  <2>4. e[1] = d[1]
    <3>1. /\ e[1].type = "PREPARE" /\ e[1].round = r
          /\ d[1].type = "PREPARE" /\ d[1].round = r
      BY <2>1, <2>2
    <3>2. PICK s1 \in sent : e[1] = s1[1].msg
      BY <1>2 DEF SentBodies
    <3>3. PICK s2 \in sent : d[1] = s2[1].msg
      BY <1>2 DEF SentBodies
    <3>4. s1 = s2
      BY <1>3, <3>1, <3>2, <3>3 DEF VotesInv, Unique, SameVote
    <3>5. QED
      BY <3>2, <3>3, <3>4
  <2>5. QED
    BY <2>1, <2>2, <2>3, <2>4
<1>4. f \in Injection(crowd, Peer)
  <2>1. \A e \in crowd : e[1].peer \in Peer
    BY <1>2 DEF SentInv, SentBodies, MessageType, BodyType
  <2>2. f \in [crowd -> Peer]
    BY <2>1
  <2>3. IsInjective(f)
    BY <1>3 DEF IsInjective
  <2>4. QED
    BY <2>2, <2>3 DEF Injection
<1> HIDE DEF f, crowd
<1>5. QED
  BY <1>4, FewOfPeers DEF crowd

(* A ROUND_CHANGE within the limits *)
RoomyMessage(m) == m.msg.type = "ROUND_CHANGE" => WithinLimits(m)

(* What p has prepared fits into a ROUND_CHANGE; until it decides, p holds no ROUND_CHANGE of
   a round it has not entered *)
RoomyPeer(p) ==
  /\ Cardinality(prepared[p].justification) <= 2 * Nodes
  /\ ~Decided(p) => /\ "F_PLUS_1_ROUND_CHANGES" \notin dedup_rules[p]
                    /\ \A c \in buffer[p] : c[1].msg.type = "ROUND_CHANGE" =>
                         c[1].msg.round <= round[p]

(* The invariant of up to three nodes and two rounds, next to the others *)
RoomInv == (\A c \in sent : RoomyMessage(c[1])) /\ \A p \in Peer : RoomyPeer(p)

(* A step of p keeps it *)
RoomStep(p) == (\A c \in sent' \ sent : RoomyMessage(c[1])) /\ RoomyPeer(p)'

(* Such a step, as no other instance changes, keeps the invariant *)
LEMMA RoomStepKeeps ==
  ASSUME RoomInv, NEW p \in Peer, OthersSame(p), RoomStep(p)
  PROVE  RoomInv'
<1>1. \A c \in sent' : RoomyMessage(c[1])
  BY DEF RoomInv, RoomStep
<1>2. ASSUME NEW q \in Peer PROVE RoomyPeer(q)'
  <2>1. CASE q = p
    BY <2>1 DEF RoomStep
  <2>2. CASE q # p
    <3>1. /\ q_commit'[q] = q_commit[q] /\ buffer'[q] = buffer[q] /\ round'[q] = round[q]
          /\ dedup_rules'[q] = dedup_rules[q] /\ prepared'[q] = prepared[q]
      BY <2>2 DEF OthersSame
    <3>2. QED
      BY <3>1 DEF RoomInv, RoomyPeer, Decided
  <2>3. QED
    BY <2>1, <2>2
<1>3. QED
  BY <1>1, <1>2 DEF RoomInv

(* Other messages have the limits of LimitsInv *)
LEMMA MessageRoomy ==
  ASSUME NEW t, t # "ROUND_CHANGE", NEW p, NEW r, NEW v, NEW just, NEW known,
         Broadcast(Message(t, p, r, v, just, known))
  PROVE  \A c \in sent' \ sent : RoomyMessage(c[1])
<1> DEFINE m == Message(t, p, r, v, just, known)
<1>1. m.msg.type = t
  BY DEF Message, Body
<1> HIDE DEF m
<1>2. RoomyMessage(m)
  BY <1>1 DEF RoomyMessage
<1>3. QED
  BY <1>2 DEF Broadcast, m

(* A ROUND_CHANGE carries what its sender has prepared, and at most its value *)
LEMMA RoundChangeRoomy ==
  ASSUME JustifiedInv, RoomInv, NEW p \in Peer, NEW r, NEW known,
         Broadcast(RoundChange(p, r, known))
  PROVE  \A c \in sent' \ sent : RoomyMessage(c[1])
<1> DEFINE m == RoundChange(p, r, known)
           list == prepared[p].justification
<1>1. m.justification = list /\ m.values \in SUBSET {prepared[p].value}
  BY DEF RoundChange
<1>2. IsFiniteSet(list) /\ Cardinality(list) <= 2 * Nodes
  BY DEF JustifiedInv, PreparedProof, RoomInv, RoomyPeer
<1> HIDE DEF m, list
<1>3. RoomyMessage(m)
  BY <1>1, <1>2, OneValue DEF RoomyMessage
<1>4. QED
  BY <1>3 DEF Broadcast, m

(* handle_message of an undecided instance, with any of its rules *)
LEMMA HandleRoom ==
  ASSUME Nodes <= 3, MaxRound <= 2, Inv, Inv', VotesInv, JustifiedInv, NestingInv, RoomInv,
         NEW p \in Up, NEW c \in sent, Handle(p, c)
  PROVE  RoomStep(p)
<1> DEFINE b == c[1].msg
           buf == buffer[p] \cup {c}
           flat == Flatten(buf)
           rule == Classify(p, b, flat)
           jump == "F_PLUS_1_ROUND_CHANGES"
<1>1. /\ p \in Peer /\ SentInv /\ buf \in SUBSET sent /\ ~Decided(p) /\ buffer'[p] = buf
      /\ prepared = [q \in Peer |-> prepared[q]] /\ round[p] \in Nat \ {0}
      /\ dedup_rules = [q \in Peer |-> dedup_rules[q]] /\ round = [q \in Peer |-> round[q]]
      /\ b \in BodyType /\ b.round \in 1 .. MaxRound /\ RoomyPeer(p)
  BY HandleFacts, InvFacts DEF RoomInv
<1>2. \A d \in buf : d[1].msg.round \in Nat /\ d[1].msg.round <= 2
  <2> SUFFICES ASSUME NEW d \in buf PROVE d[1].msg.round \in Nat /\ d[1].msg.round <= 2
    OBVIOUS
  <2>1. d \in sent
    BY <1>1
  <2>2. d[1].msg.round \in Nat
    BY <1>1, <2>1 DEF SentInv, MessageType, BodyType
  <2>3. d[1].msg.round <= MaxRound
    BY <2>1 DEF VotesInv, Proper, Sane
  <2>4. QED
    BY <2>2, <2>3, EnvironmentAssumption
<1>3. IsFiniteSet(flat)
  <2>1. \A d \in buf : IsFiniteSet(d[1].justification)
    BY <1>1 DEF JustifiedInv, JustifiedMessage
  <2>2. QED
    BY <1>1, <2>1, FlattenFinite
<1>4. ~Decided(p)' => round'[p] \in Nat /\ round[p] <= round'[p]
  <2>1. Onward(p)
    BY HandleStep DEF VoteStep
  <2>2. round'[p] \in Nat
    BY <1>1 DEF Inv, TypeOK
  <2>3. QED
    BY <1>1, <2>1, <2>2 DEF Onward
<1>5. b.type = "ROUND_CHANGE" /\ b.round > round[p] => rule = jump
  <2> SUFFICES ASSUME b.type = "ROUND_CHANGE", b.round > round[p] PROVE rule = jump
    OBVIOUS
  <2> DEFINE e == <<b, <<c>>>>
  <2>1. e \in flat /\ e[1] = b
    BY FlattenHas
  <2> HIDE DEF e, flat
  <2>2. JumpRounds(p, flat) # {}
    BY <1>1, <1>3, <2>1, JumpsAtOnce
  <2>3. ~Stale(p, b)
    BY <1>1 DEF Stale
  <2>4. QED
    BY <1>1, <2>2, <2>3 DEF Classify
<1>6. /\ rule = "QUORUM_PREPARES" => b.type = "PREPARE" /\ b.round = round[p]
      /\ rule = jump => b.type = "ROUND_CHANGE"
  <2>1. rule = jump => b.type = "ROUND_CHANGE"
    BY DEF Classify, Stale
  <2>2. QED
    BY <2>1, ClassifyFacts
<1> HIDE DEF rule, flat, buf
<1>7. ASSUME rule # jump, jump \notin dedup_rules'[p],
             Cardinality(prepared'[p].justification) <= 2 * Nodes
      PROVE  RoomyPeer(p)'
  <2>1. ASSUME ~Decided(p)', NEW d \in buf, d[1].msg.type = "ROUND_CHANGE"
        PROVE  d[1].msg.round <= round'[p]
    <3>1. d[1].msg.round <= round[p]
      <4>1. CASE d \in buffer[p]
        BY <1>1, <2>1, <4>1 DEF RoomyPeer
      <4>2. CASE d = c
        BY <1>1, <1>5, <1>7, <2>1, <4>2
      <4>3. QED
        BY <4>1, <4>2 DEF buf
    <3>2. QED
      BY <1>1, <1>2, <1>4, <2>1, <3>1
  <2>2. QED
    BY <1>1, <1>7, <2>1 DEF RoomyPeer
<1>8. ASSUME NEW r, NEW x, x # jump, ChangeRound(p, r, x)
      PROVE  jump \notin dedup_rules'[p]
  <2>1. dedup_rules'[p] = IF r = round[p] THEN dedup_rules[p] \cup {x} ELSE {}
    BY <1>1, <1>8 DEF ChangeRound
  <2>2. QED
    BY <1>1, <1>8, <2>1 DEF RoomyPeer
<1>9. jump \notin dedup_rules[p] /\ Cardinality(prepared[p].justification) <= 2 * Nodes
  BY <1>1 DEF RoomyPeer
<1>10. CASE /\ rule = "NOTHING" \/ rule \in dedup_rules[p]
            /\ UNCHANGED <<prepared, dedup_rules, sent>>
  BY <1>7, <1>9, <1>10 DEF RoomStep
<1>11. CASE rule = "JUSTIFIED_PRE_PREPARE" /\ UponJustifiedPrePrepare(p, b)
  <2>1. /\ ChangeRound(p, b.round, "JUSTIFIED_PRE_PREPARE") /\ UNCHANGED prepared
        /\ Broadcast(Message("PREPARE", p, b.round, b.value, {}, values'[p]))
    BY <1>11 DEF UponJustifiedPrePrepare
  <2>2. jump \notin dedup_rules'[p]
    BY <1>8, <2>1
  <2>3. QED
    BY <1>7, <1>9, <1>11, <2>1, <2>2, MessageRoomy DEF RoomStep
<1>12. CASE rule = "QUORUM_PREPARES" /\ UponQuorumPrepares(p, b, flat)
  <2> DEFINE list == Listed(Votes(flat, "PREPARE", b.round, b.value))
             x == [round |-> b.round, value |-> b.value, justification |-> list]
  <2>1. /\ ChangeRound(p, round[p], "QUORUM_PREPARES") /\ prepared' = [prepared EXCEPT ![p] = x]
        /\ Broadcast(Message("COMMIT", p, round[p], b.value, {}, values'[p]))
    BY <1>12 DEF UponQuorumPrepares
  <2>2. jump \notin dedup_rules'[p]
    BY <1>8, <2>1
  <2>3. CrowdedOnlyBy(buf, b.round, list)
    BY <1>1, PreparesExplained DEF flat
  <2>4. \A d \in buf : d[1].msg.type = "ROUND_CHANGE" => d[1].msg.round <= b.round
    BY <1>1, <1>6, <1>12 DEF RoomyPeer, buf
  <2>5. /\ Cardinality(NestedPrepares(buf, b.round)) \in Nat
        /\ Cardinality(NestedPrepares(buf, b.round)) <= Nodes
    <3>1. b.round \in Nat \ {0}
      BY <1>1, <1>6, <1>12
    <3>2. QED
      BY <1>1, <2>4, <3>1, FewNested
  <2>6. IsFiniteSet(list)
    <3>1. IsFiniteSet(Votes(flat, "PREPARE", b.round, b.value))
      BY <1>3, FS_Subset DEF Votes, OfRound
    <3>2. QED
      BY <3>1, ListedComplete
  <2> HIDE DEF list
  <2>7. Cardinality(list) <= 2 * Nodes
    <3>1. Cardinality(list) \in Nat /\ Nodes \in Nat
      BY <2>6, FS_CardinalityType, ClusterAssumption
    <3>2. QED
      BY <2>3, <2>5, <3>1 DEF CrowdedOnlyBy
  <2>8. prepared'[p].justification = list
    BY <1>1, <2>1
  <2>9. QED
    BY <1>7, <1>12, <2>1, <2>2, <2>7, <2>8, MessageRoomy DEF RoomStep
<1>13. CASE rule = "QUORUM_COMMITS" /\ UponQuorumCommits(p, b, flat)
  BY <1>7, <1>8, <1>9, <1>13 DEF UponQuorumCommits, RoomStep
<1>14. CASE rule = "JUSTIFIED_DECIDED" /\ UponJustifiedDecided(p, c[1])
  BY <1>7, <1>8, <1>9, <1>14 DEF UponJustifiedDecided, RoomStep
<1>15. CASE rule = jump /\ UponFPlus1RoundChanges(p, flat)
  <2>1. PICK r \in JumpRounds(p, flat) :
          /\ ChangeRound(p, r, "F_PLUS_1_ROUND_CHANGES")
          /\ Broadcast(RoundChange(p, r, values'[p]))
    BY <1>15 DEF UponFPlus1RoundChanges
  <2>2. UNCHANGED prepared
    BY <1>15 DEF UponFPlus1RoundChanges
  <2>3. r \in Nat /\ r > round[p]
    <3>1. PICK e \in flat : e[1].round = r /\ r > round[p]
      BY <2>1 DEF JumpRounds, Bodies
    <3>2. e[1] \in SentBodies
      BY <1>1, <3>1, FlattenSent DEF flat
    <3>3. e[1] \in BodyType
      BY <1>1, <3>2 DEF SentBodies, SentInv, MessageType
    <3>4. QED
      BY <3>1, <3>3 DEF BodyType
  <2>4. dedup_rules'[p] = {} /\ round'[p] = r /\ r >= 2
    BY <1>1, <2>1, <2>3 DEF ChangeRound
  <2>5. RoomyPeer(p)'
    <3>1. \A d \in buf : d[1].msg.round <= round'[p]
      BY <1>2, <2>3, <2>4
    <3>2. QED
      BY <1>1, <1>9, <2>2, <2>4, <3>1 DEF RoomyPeer
  <2>6. QED
    BY <1>1, <2>1, <2>5, RoundChangeRoomy DEF RoomStep
<1>16. CASE rule = "QUORUM_ROUND_CHANGES" /\ UponQuorumRoundChanges(p, flat)
  <2>1. PICK just \in JustifiedQRC(flat, round[p]) :
          Broadcast(Message("PRE_PREPARE", p, round[p], ProposedValue(p, just), just, values'[p]))
    BY <1>16 DEF UponQuorumRoundChanges
  <2>2. ChangeRound(p, round[p], "QUORUM_ROUND_CHANGES") /\ UNCHANGED prepared
    BY <1>16 DEF UponQuorumRoundChanges
  <2>3. jump \notin dedup_rules'[p]
    BY <1>8, <2>2
  <2>4. QED
    BY <1>7, <1>9, <1>16, <2>1, <2>2, <2>3, MessageRoomy DEF RoomStep
<1>17. QED
  BY <1>10, <1>11, <1>12, <1>13, <1>14, <1>15, <1>16 DEF Handle, flat, rule, buf

(* Without duplicates every step keeps the invariant *)
LEMMA NextRoom ==
  ASSUME MaxDuplicates = 0, Nodes <= 3, MaxRound <= 2, Inv, VotesInv, JustifiedInv,
         NestingInv, RoomInv, [Next]_vars
  PROVE  RoomInv'
<1>1. Inv' /\ Up \subseteq Peer
  BY NextInv, EnvironmentAssumption
<1>2. CASE UNCHANGED vars
  BY <1>2 DEF vars, RoomInv, RoomyPeer, Decided
<1>3. ASSUME NEW p \in Up, Start(p) PROVE RoomInv'
  <2>1. OthersSame(p) /\ RoomyPeer(p) /\ p \in Peer
    BY <1>1, <1>3, StartStep DEF VoteStep, RoomInv
  <2>2. RoomyPeer(p)'
    BY <1>3, <2>1 DEF Start, RoomyPeer, Decided
  <2>3. RoomStep(p)
    BY <1>3, <2>2, MessageRoomy DEF Start, RoomStep
  <2>4. QED
    BY <2>1, <2>3, RoomStepKeeps
<1>4. ASSUME NEW p \in Up, Timeout(p) PROVE RoomInv'
  <2>1. OthersSame(p) /\ RoomyPeer(p) /\ p \in Peer
    BY <1>1, <1>4, TimeoutStep DEF VoteStep, RoomInv
  <2>2. /\ dedup_rules'[p] = {} /\ round'[p] = round[p] + 1 /\ round[p] \in Nat
        /\ UNCHANGED <<prepared, q_commit, buffer>> /\ ~Decided(p)
    <3>1. /\ dedup_rules = [q \in Peer |-> dedup_rules[q]] /\ round[p] \in Nat
          /\ round = [q \in Peer |-> round[q]] /\ ChangeRound(p, round[p] + 1, "ROUND_TIMEOUT")
      BY <1>4, <2>1, InvFacts DEF Timeout
    <3>2. QED
      BY <1>4, <2>1, <3>1 DEF ChangeRound, Timeout
  <2>3. RoomyPeer(p)'
    <3>1. \A c \in buffer[p] : c[1].msg.round \in Nat
      BY <2>1, InvFacts DEF SentInv, MessageType, BodyType
    <3>2. QED
      BY <2>1, <2>2, <3>1 DEF RoomyPeer
  <2>4. RoomStep(p)
    BY <1>4, <2>1, <2>3, RoundChangeRoomy DEF Timeout, RoomStep
  <2>5. QED
    BY <2>1, <2>4, RoomStepKeeps
<1>5. ASSUME NEW p \in Up, NEW c \in sent, Handle(p, c) PROVE RoomInv'
  <2>1. OthersSame(p) /\ p \in Peer
    BY <1>1, <1>5, HandleStep DEF VoteStep
  <2>2. QED
    BY <1>1, <1>5, <2>1, HandleRoom, RoomStepKeeps
<1>6. ASSUME NEW p \in Up, NEW c \in sent, ResendDecided(p, c) PROVE RoomInv'
  <2>1. OthersSame(p) /\ RoomyPeer(p) /\ p \in Peer
    BY <1>1, <1>6, ResendDecidedStep DEF VoteStep, RoomInv
  <2>2. PICK v : Broadcast(Message("DECIDED", p, round[p], v, q_commit[p], values'[p]))
    BY <1>6 DEF ResendDecided
  <2>3. RoomyPeer(p)'
    BY <1>6, <2>1 DEF ResendDecided, RoomyPeer, Decided
  <2>4. QED
    BY <2>1, <2>2, <2>3, MessageRoomy, RoomStepKeeps DEF RoomStep
<1>7. ASSUME NEW p \in Up, NEW c \in sent, Ignore(p, c) PROVE RoomInv'
  BY <1>7 DEF Ignore, RoomInv, RoomyPeer, Decided
<1>8. ASSUME NEW c \in sent, Duplicate(c) PROVE FALSE
  BY <1>8 DEF Duplicate, Inv, TypeOK
<1>9. QED
  BY <1>2, <1>3, <1>4, <1>5, <1>6, <1>7, <1>8 DEF Next

(* In a cluster of up to three nodes every message is acceptable to every peer until the second
   round ends: with a fourth node (qbft_crowded) or a third round it need not be *)
THEOREM SentIsAcceptableHolds ==
  ASSUME MaxDuplicates = 0, Nodes <= 3, MaxRound <= 2
  PROVE  Spec => []SentIsAcceptable
<1> DEFINE I == Inv /\ VotesInv /\ JustifiedInv /\ LimitsInv /\ NestingInv /\ RoomInv
<1>1. Init => I
  <2>1. Init => RoomInv
    <3> SUFFICES ASSUME Init PROVE RoomInv
      OBVIOUS
    <3>1. /\ sent = {}
          /\ \A p \in Peer : /\ prepared[p].justification = {} /\ dedup_rules[p] = {}
                             /\ buffer[p] = {}
      BY DEF Init
    <3>2. Cardinality({}) <= 2 * Nodes
      BY FS_EmptySet, ClusterAssumption
    <3>3. QED
      BY <3>1, <3>2 DEF RoomInv, RoomyPeer
  <2>2. QED
    BY <2>1, InitInv, InitVotes, InitJustified, InitLimits, InitNesting
<1>2. I /\ [Next]_vars => I'
  BY NextInv, NextVotes, NextJustified, NextLimited, NextNesting, NextRoom
<1>3. I => SentIsAcceptable
  BY DEF JustifiedInv, JustifiedMessage, LimitsInv, LimitedMessage, RoomInv, RoomyMessage,
    SentIsAcceptable
<1>4. QED
  BY <1>1, <1>2, <1>3, PTL DEF Spec
=============================================================================
