------------------------------ MODULE InfoSync ------------------------------
(***************************************************************************)
(* InfoSync (subspecs/infosync/infosync.py) over Priority: in the last     *)
(* slot of every epoch the nodes announce what they support, most          *)
(* preferred first.  One node's reduction of the messages it collected is  *)
(* agreed by consensus and retained; the versions, protocols and proposal  *)
(* types of a duty are looked up by its slot.                              *)
(*                                                                         *)
(* External: the exchange (a node keeps the first message of every peer,   *)
(* and stops at a timeout), the consensus on one calculated result, which  *)
(* expires one slot after the exchange began, and the restart of a node    *)
(* under another configuration, which loses the history it retained.       *)
(***************************************************************************)
EXTENDS Priority

CONSTANTS
  Node,                 \* the nodes, numbered in the order of their peer IDs
  Faulty,               \* nodes that announce what they like
  min_required,         \* supporters for a priority to be included
  SLOTS_PER_EPOCH,
  MAX_RESULTS,          \* bound of a node's history: 100
  ConsensusName,        \* the name of every protocol ID under the consensus prefix
  QBFT_V2_PROTOCOL_ID,
  LockPreferred,        \* consensus protocol name preferred by the cluster lock, or ""
  Config,               \* the configurations of a node
  FaultyTopics,         \* the topics a faulty node may announce
  MaxSlot,              \* bound of a run: the last slot
  MaxFaultySent         \* bound of a run: messages of faulty nodes in one exchange

Correct == Node \ Faulty

None == [slot |-> -1]

ASSUME InfoSyncAssumption ==
  /\ Node \subseteq Nat /\ Faulty \subseteq Node /\ IsFiniteSet(Node)
  /\ min_required \in Nat \ {0}
  /\ SLOTS_PER_EPOCH \in Nat /\ SLOTS_PER_EPOCH > 1
  /\ MAX_RESULTS \in Nat /\ MAX_RESULTS > 1
  /\ MaxSlot \in Nat /\ MaxFaultySent \in Nat

VARIABLES
  slot,        \* the current slot
  config,      \* config[n]: what n supports and prefers
  sent,        \* the priority messages of the current exchange
  collected,   \* collected[n]: those n holds, in the order they arrived
  agreed,      \* the priority result agreed in the current exchange, or None
  results,     \* results[n]: the agreed results n retains, oldest first
  recorded     \* history: the results n has recorded since it started

vars == <<slot, config, sent, collected, agreed, results, recorded>>

-----------------------------------------------------------------------------
is_infosync_slot(s) == s % SLOTS_PER_EPOCH = SLOTS_PER_EPOCH - 1

infosync_duty(s) == [slot |-> s, type |-> "info_sync"]

(* Mutant: a node that builds blocks announces full only without the builder *)
ProposalTypesOrFull(builder, synthetic) ==
  IF builder THEN <<"builder">> ELSE <<"full">>

local_proposal_types(builder, synthetic) ==
  (IF builder THEN <<"builder">> ELSE <<>>)
    \o (IF synthetic THEN <<"synthetic">> ELSE <<>>) \o <<"full">>

IsNamed(id, name) == id \in DOMAIN ConsensusName /\ ConsensusName[id] = name

prioritize_protocols_by_name(name, protocols) ==
  SelectSeq(protocols, LAMBDA id : IsNamed(id, name))
    \o SelectSeq(protocols, LAMBDA id : ~IsNamed(id, name))

(* An empty name bumps nothing.  The configuration comes last: it outranks the lock. *)
local_protocol_priorities(protocols, configured) ==
  prioritize_protocols_by_name(configured,
    prioritize_protocols_by_name(LockPreferred, protocols))

LocalTopics(c) ==
  << [topic |-> "version", priorities |-> c.versions],
     [topic |-> "protocol", priorities |-> local_protocol_priorities(c.protocols, c.configured)],
     [topic |-> "proposal", priorities |-> local_proposal_types(c.builder, c.synthetic)] >>

(* One topic of a message: topics and priorities are strings on the wire *)
PriorityTopicProposal == [topic : STRING, priorities : Seq(STRING)]

ASSUME TopicsAssumption ==
  /\ FaultyTopics \subseteq Seq(PriorityTopicProposal)
  /\ \A c \in Config : LocalTopics(c) \in Seq(PriorityTopicProposal)

-----------------------------------------------------------------------------
(* InfoSyncResult: the agreed order of every topic, without its scores *)
InfoSyncResult(result) ==
  [slot |-> result.msgs[1].duty.slot, versions |-> result.topics["version"],
   protocols |-> result.topics["protocol"], proposals |-> result.topics["proposal"]]

(* Mutant: the history loses its newest result, not its oldest *)
AddResultTrimTail(history, result) ==
  LET updated == Append(history, result)
  IN  IF result.versions = <<>> \/ Len(updated) >= MAX_RESULTS THEN history ELSE updated

(* Mutant: a result delivered again is recorded again *)
AddResultAgain(history, result) ==
  LET updated == Append(history, result)
  IN  IF result.versions = <<>> THEN history
      ELSE IF Len(updated) >= MAX_RESULTS THEN Tail(updated) ELSE updated

(* add_result: empty agreements and repetitions are dropped, then the oldest one *)
add_result(history, result) ==
  LET updated == Append(history, result)
  IN  IF \/ result.versions = <<>>
         \/ history # <<>> /\ history[Len(history)] = result
      THEN history
      ELSE IF Len(updated) >= MAX_RESULTS THEN Tail(updated) ELSE updated

(* Mutant: the newest result, whatever the slot *)
LatestOfAll(history, s) == IF history = <<>> THEN None ELSE history[Len(history)]

(* latest_result: the last one before the first result of a later slot *)
latest_result(history, s) ==
  LET upTo == {i \in DOMAIN history : \A j \in 1 .. i : history[j].slot <= s}
  IN  IF upTo = {} THEN None ELSE history[Max(upTo)]

most_preferred_consensus_protocol(protocols) ==
  LET consensus == SelectSeq(protocols, LAMBDA id : id \in DOMAIN ConsensusName)
  IN  IF consensus = <<>> THEN QBFT_V2_PROTOCOL_ID ELSE consensus[1]

selected_protocols(history, s, local_protocols) ==
  LET result == latest_result(history, s)
  IN  IF result = None THEN local_protocols ELSE result.protocols

selected_proposal_types(history, s) ==
  LET result == latest_result(history, s)
  IN  IF result = None THEN <<"full">> ELSE result.proposals

-----------------------------------------------------------------------------
Init ==
  /\ slot = 0
  /\ config \in [Correct -> Config]
  /\ sent = {}
  /\ collected = [n \in Correct |-> <<>>]
  /\ agreed = None
  /\ results = [n \in Correct |-> <<>>]
  /\ recorded = [n \in Correct |-> {}]

(* An exchange lives in the slot it began in and the next one *)
Tick ==
  /\ slot < MaxSlot
  /\ slot' = slot + 1
  /\ IF is_infosync_slot(slot)
     THEN UNCHANGED <<sent, collected, agreed>>
     ELSE /\ sent' = {} /\ agreed' = None
          /\ collected' = [n \in Correct |-> <<>>]
  /\ UNCHANGED <<config, results, recorded>>

Message(n, topics) == [duty |-> infosync_duty(slot), peer |-> n, topics |-> topics]

(* Node n announces its priorities, and counts itself *)
Trigger(n) ==
  /\ is_infosync_slot(slot)
  /\ collected[n] = <<>>
  /\ LET own == Message(n, LocalTopics(config[n]))
     IN  /\ sent' = sent \cup {own}
         /\ collected' = [collected EXCEPT ![n] = <<own>>]
  /\ UNCHANGED <<slot, config, agreed, results, recorded>>

FaultyTrigger(n) ==
  /\ is_infosync_slot(slot)
  /\ Cardinality({m \in sent : m.peer \in Faulty}) < MaxFaultySent
  /\ \E topics \in FaultyTopics : sent' = sent \cup {Message(n, topics)}
  /\ UNCHANGED <<slot, config, collected, agreed, results, recorded>>

(* Until the timeout, half a slot, and only the first message of a peer *)
Collect(n, m) ==
  /\ is_infosync_slot(slot)
  /\ collected[n] # <<>>
  /\ m.peer \notin {c.peer : c \in Range(collected[n])}
  /\ collected' = [collected EXCEPT ![n] = Append(@, m)]
  /\ UNCHANGED <<slot, config, sent, agreed, results, recorded>>

(* The exchange of n is over, by its timeout or with all messages; a set that validate_msgs
   rejects is not proposed; consensus agrees on the result that n calculated *)
Agree(n) ==
  /\ agreed = None
  /\ validate_msgs(collected[n])
  /\ agreed' = calculate_result(collected[n], min_required)
  /\ UNCHANGED <<slot, config, sent, collected, results, recorded>>

(* The result reaches n, perhaps more than once *)
Deliver(n) ==
  /\ agreed # None
  /\ LET result == InfoSyncResult(agreed)
     IN  /\ results' = [results EXCEPT ![n] = add_result(@, result)]
         /\ recorded' = [recorded EXCEPT ![n] =
              @ \cup {r \in {result} : r.versions # <<>>}]
  /\ UNCHANGED <<slot, config, sent, collected, agreed>>

(* Configurations change between exchanges; a node may restart at any time *)
Restart(n, c) ==
  /\ c # config[n] => sent = {}
  /\ config' = [config EXCEPT ![n] = c]
  /\ collected' = [collected EXCEPT ![n] = <<>>]
  /\ results' = [results EXCEPT ![n] = <<>>]
  /\ recorded' = [recorded EXCEPT ![n] = {}]
  /\ UNCHANGED <<slot, sent, agreed>>

Next ==
  \/ Tick
  \/ \E n \in Correct : Trigger(n)
  \/ \E n \in Faulty : FaultyTrigger(n)
  \/ \E n \in Correct : \E m \in sent : Collect(n, m)
  \/ \E n \in Correct : Agree(n)
  \/ \E n \in Correct : Deliver(n)
  \/ \E n \in Correct, c \in Config : Restart(n, c)

Spec == Init /\ [][Next]_vars

-----------------------------------------------------------------------------
(* The histories hold results of infosync slots, fewer than MAX_RESULTS, in the order of
   their slots (infosync.py:259, "trimmed to stay below MAX_RESULTS entries", and :279,
   "oldest first") *)
HistoryOK ==
  \A n \in Correct :
    /\ Len(results[n]) < MAX_RESULTS
    /\ \A i \in DOMAIN results[n] :
         /\ is_infosync_slot(results[n][i].slot) /\ results[n][i].slot <= slot
         /\ \A j \in 1 .. i - 1 : results[n][j].slot < results[n][i].slot

(* The slots whose duties may still be processed: those of MAX_RESULTS - 2 epochs *)
RecentSlots == {s \in 0 .. slot : s >= slot - (MAX_RESULTS - 2) * SLOTS_PER_EPOCH}

(* Trimming and the look-up together: for every recent slot a node finds the newest result
   it has recorded whose slot is not after it (infosync.py:287) *)
GovernsRecent ==
  \A n \in Correct : \A s \in RecentSlots :
    LET governing == {r \in recorded[n] : r.slot <= s}
        found == latest_result(results[n], s)
    IN  IF governing = {} THEN found = None
        ELSE found \in governing /\ \A r \in governing : r.slot <= found.slot

Announced(topic, x) ==
  {n \in Node : \E m \in sent : m.peer = n /\
     \E t \in Range(m.topics) : t.topic = topic /\ x \in Range(t.priorities)}

(* Whatever is agreed has been announced by min_required nodes, however often a node lists
   a priority (scoring.py:64-67) and whichever messages were collected *)
AgreedSupport ==
  agreed # None =>
    \A topic \in DOMAIN agreed.topics : \A x \in Range(agreed.topics[topic]) :
      Cardinality(Announced(topic, x)) >= min_required

(* Nodes that collected the same messages, in whatever order, rank every topic alike
   (scoring.py:4-6, "MUST be a pure function of the message set") *)
SameRanking ==
  \A n, m \in Correct :
    (n < m /\ Range(collected[n]) = Range(collected[m]) /\ validate_msgs(collected[n])) =>
      calculate_result(collected[n], min_required).topics =
        calculate_result(collected[m], min_required).topics

(* A result that is recorded, its versions being agreed, includes full proposals whatever
   features the nodes enable (infosync.py:139), when it was made of correct nodes' messages:
   the weight of the positions never outdoes the count *)
FullAgreed ==
  (agreed # None /\ \A m \in Range(agreed.msgs) : m.peer \in Correct) =>
    (agreed.topics["version"] # <<>> => "full" \in Range(agreed.topics["proposal"]))

(* What node n uses for a duty of slot s *)
InForce(n, s) ==
  [consensus |-> most_preferred_consensus_protocol(
                   selected_protocols(results[n], s, config[n].protocols)),
   proposals |-> selected_proposal_types(results[n], s)]

(* A newer agreement does not change what is in force for the duties of earlier slots
   (infosync.py:278-280): only a restart does *)
SelectionStable ==
  [][\A n \in Correct :
       results'[n] \notin {results[n], <<>>} =>
         \A s \in RecentSlots :
           s < results'[n][Len(results'[n])].slot => InForce(n, s)' = InForce(n, s)]_vars
=============================================================================
