------------------------------ MODULE Priority ------------------------------
(***************************************************************************)
(* Priority scoring (subspecs/priority/scoring.py): the reduction of the   *)
(* preferences that the nodes announced, topic by topic, to one order for  *)
(* the whole cluster.                                                      *)
(*                                                                         *)
(* A message is [duty, peer, topics], its topics a sequence of             *)
(* [topic, priorities].  A peer is its rank in the order of peer IDs.      *)
(* Topics and priorities are told apart by their hash: they are values.    *)
(***************************************************************************)
EXTENDS Integers, SequencesExt, FiniteSetsExt

CONSTANT MAX_PRIORITIES   \* bound on the priorities of one topic: 1000

ASSUME PrioritiesAssumption == MAX_PRIORITIES \in Nat \ {0}

COUNT_WEIGHT == MAX_PRIORITIES

-----------------------------------------------------------------------------
(* Mutant: a node may list a priority twice *)
WellFormedIfShort(topic) == Len(topic.priorities) < MAX_PRIORITIES

(* What validate_msgs asks of one topic of a message *)
WellFormedTopic(topic) ==
  /\ Len(topic.priorities) < MAX_PRIORITIES
  /\ IsInjective(topic.priorities)

(* validate_msgs does not raise *)
validate_msgs(msgs) ==
  /\ msgs # <<>>
  /\ \A m \in Range(msgs) : m.duty = msgs[1].duty
  /\ \A i, j \in DOMAIN msgs : msgs[i].peer = msgs[j].peer => i = j
  /\ \A m \in Range(msgs) :
       /\ \A i, j \in DOMAIN m.topics : m.topics[i].topic = m.topics[j].topic => i = j
       /\ \A topic \in Range(m.topics) : WellFormedTopic(topic)

-----------------------------------------------------------------------------
TopicsOf(msgs) == {t.topic : t \in UNION {Range(m.topics) : m \in Range(msgs)}}

(* Mutant: the messages are taken as they arrived *)
ProposalsAsArrived(msgs, topic) ==
  LET proposing == {i \in DOMAIN msgs : topic \in TopicsOf(<<msgs[i]>>)}
  IN  [i \in proposing |->
        (CHOOSE t \in Range(msgs[i].topics) : t.topic = topic).priorities]

(* proposals_by_topic: the list of every peer that proposes for the topic *)
ProposalsOn(msgs, topic) ==
  LET proposing == {m \in Range(msgs) : topic \in TopicsOf(<<m>>)}
      Of(p) == CHOOSE m \in proposing : m.peer = p
  IN  [p \in {m.peer : m \in proposing} |->
        (CHOOSE t \in Range(Of(p).topics) : t.topic = topic).priorities]

Priorities(proposals) == UNION {Range(proposals[p]) : p \in DOMAIN proposals}

Supporters(proposals, x) == {p \in DOMAIN proposals : x \in Range(proposals[p])}

(* 0-based; a list that repeats a priority never gets here *)
Position(list, x) == Min({i \in DOMAIN list : list[i] = x}) - 1

(* Where the lists hold a priority, as <<peer, index>>, and the entries ahead of it there *)
Occurrences(proposals, x) ==
  UNION {{p} \X {i \in DOMAIN proposals[p] : proposals[p][i] = x} : p \in DOMAIN proposals}

Ahead(proposals, x) == UNION {{o} \X (1 .. o[2] - 1) : o \in Occurrences(proposals, x)}

(* The score of a priority: COUNT_WEIGHT - position for every occurrence, the position being the
   number of entries ahead *)
Score(proposals, x) ==
  COUNT_WEIGHT * Cardinality(Occurrences(proposals, x)) - Cardinality(Ahead(proposals, x))

(* seen_order: the peers in the order of their IDs, and each list from its head *)
SeenBefore(proposals, x, y) ==
  LET first(z) == Min(Supporters(proposals, z))
  IN  \/ first(x) < first(y)
      \/ /\ first(x) = first(y)
         /\ Position(proposals[first(x)], x) < Position(proposals[first(x)], y)

(* The sort by descending score is stable: first seen, first listed *)
RankedBefore(proposals, x, y) ==
  \/ Score(proposals, x) > Score(proposals, y)
  \/ /\ Score(proposals, x) = Score(proposals, y)
     /\ SeenBefore(proposals, x, y)

(* More than min_required - 1 peers that rank it first could produce *)
Included(proposals, x, min_required) ==
  Score(proposals, x) > (min_required - 1) * COUNT_WEIGHT

(* The priorities that are included, each behind those ranked before it *)
Ranked(proposals, min_required) ==
  LET included == {x \in Priorities(proposals) : Included(proposals, x, min_required)}
      Rank(x) == Cardinality({y \in included : RankedBefore(proposals, y, x)})
  IN  [k \in 1 .. Cardinality(included) |-> CHOOSE x \in included : Rank(x) = k - 1]

(* calculate_result.  The topics are in the order of their hashes whatever the messages,
   so a result maps each of them to its ranked priorities. *)
calculate_result(msgs, min_required) ==
  [msgs   |-> msgs,
   topics |-> [topic \in TopicsOf(msgs) |-> Ranked(ProposalsOn(msgs, topic), min_required)]]
=============================================================================
