------------------------------- MODULE SigAgg -------------------------------
(***************************************************************************)
(* The partial signatures of one duty and one validator: every node signs  *)
(* with its key share, stores the signature, exchanges it over ParSigEx,   *)
(* and aggregates when threshold matching signatures are held              *)
(* (subspecs/sigagg, subspecs/parsigex).                                   *)
(*                                                                         *)
(* A BLS signature is determined by the share and the message root: it is  *)
(* the record of the two.  The network delays, reorders and repeats the    *)
(* signatures exchanged.  The state is that of the correct nodes; a faulty *)
(* node may sign whatever it likes for its own share, and nothing for      *)
(* another's, whose signatures are verified against its public share.      *)
(***************************************************************************)
EXTENDS Integers, FiniteSets, Sequences

CONSTANTS
  Node,        \* the nodes, by their share index
  Threshold,   \* cluster signing threshold t
  Root,        \* the message roots that may be signed
  Faulty       \* nodes that may sign several roots

ASSUME ClusterAssumption ==
  /\ IsFiniteSet(Node)
  /\ Faulty \subseteq Node
  /\ Threshold \in Nat \ {0}
  /\ 2 * Threshold > Cardinality(Node) + Cardinality(Faulty)

Correct == Node \ Faulty

VARIABLES
  duty_type,    \* DutyType.SIGNATURE, or any other one; it never changes
  stored,       \* stored[n]: the signatures n holds
  aggregated    \* aggregated[n]: the groups n aggregated, trigger by trigger

vars == <<duty_type, stored, aggregated>>

PartialSignature == [share_idx : Node, message_root : Root]

Sig(n, r) == [share_idx |-> n, message_root |-> r]

Shares(g) == {s.share_idx : s \in g}

(* What has been sent over ParSigEx: a correct node sends what it has stored for its
   own share *)
Exchanged ==
  {s \in PartialSignature : s.share_idx \in Correct => s \in stored[s.share_idx]}

-----------------------------------------------------------------------------
(* Mutant: a different root for the same share is not a mismatch *)
AcceptedUnlessEqual(held, s) == s \notin held

(* store_partial_signature stores s: no signature is held for its share.  An equal one
   is ignored and a different one is an error; neither changes anything. *)
Accepted(held, s) == \A e \in held : e.share_idx # s.share_idx

(* The groups of signatures that count together: those over one root, except that the
   signatures of a DKG carry none *)
ByRoot(held) ==
  IF duty_type = "SIGNATURE"
  THEN {held}
  ELSE {{s \in held : s.message_root = r} : r \in Root}

(* Mutants: at least threshold signatures; more than threshold; whatever their roots *)
SelectAtLeast(held) == {g \in ByRoot(held) : Cardinality(g) >= Threshold}
SelectAbove(held) == {g \in ByRoot(held) : Cardinality(g) > Threshold}
SelectAnyRoots(held) == {g \in {held} : Cardinality(g) = Threshold}

(* select_threshold_matching: exactly threshold signatures, so that a later one does not
   trigger again *)
SelectThresholdMatching(held) == {g \in ByRoot(held) : Cardinality(g) = Threshold}

(* select_aggregation_inputs counts the shares once more, and raises if too few *)
AggregationInputs(g) == Cardinality(Shares(g)) >= Threshold

-----------------------------------------------------------------------------
Init ==
  /\ duty_type \in {"SIGNATURE", "OTHER"}
  /\ stored = [n \in Correct |-> {}]
  /\ aggregated = [n \in Correct |-> <<>>]

(* Node n stores s, then evaluates the trigger *)
Store(n, s) ==
  LET held == stored[n] \cup {s}
      triggered == {g \in SelectThresholdMatching(held) : AggregationInputs(g)}
  IN /\ Accepted(stored[n], s)
     /\ stored' = [stored EXCEPT ![n] = held]
     /\ \/ triggered = {} /\ UNCHANGED aggregated
        \/ \E g \in triggered : aggregated' = [aggregated EXCEPT ![n] = Append(@, g)]
     /\ UNCHANGED duty_type

(* The validator client of n signs root r; what n stores is broadcast *)
Sign(n, r) == Store(n, Sig(n, r))

(* n receives s, which verifies against the public share of its share index *)
Receive(n, s) ==
  /\ s \in Exchanged
  /\ s.share_idx # n
  /\ Store(n, s)

Next ==
  \/ \E n \in Correct, r \in Root : Sign(n, r)
  \/ \E n \in Correct, s \in PartialSignature : Receive(n, s)

Spec == Init /\ [][Next]_vars

(* ParSigEx reaches every node in the end *)
FairSpec == Spec /\ \A n \in Correct, s \in PartialSignature : WF_vars(Receive(n, s))

-----------------------------------------------------------------------------
(* Properties *)

(* The groups a node has aggregated *)
Groups(n) == {aggregated[n][i] : i \in DOMAIN aggregated[n]}

(* Every node has one slot for each share (store_partial_signature), and aggregates
   signatures that it holds *)
TypeOK ==
  /\ duty_type \in {"SIGNATURE", "OTHER"}
  /\ stored \in [Correct -> SUBSET PartialSignature]
  /\ aggregated \in [Correct -> Seq(SUBSET PartialSignature)]
  /\ \A n \in Correct : \A s, u \in stored[n] : s.share_idx = u.share_idx => s = u

(* However the signatures arrive, and whatever the faulty nodes sign, no two nodes
   aggregate over different roots (select_threshold_matching groups by root, and any
   two groups of threshold shares have a correct signer in common) *)
OneRoot ==
  duty_type # "SIGNATURE" =>
    \A n, m \in Correct : \A g \in Groups(n), h \in Groups(m) :
      \A s \in g, u \in h : s.message_root = u.message_root

(* A node that triggers again aggregates the same signatures again: it never publishes
   two different aggregates (the comparison == threshold) *)
SameAggregate == \A n \in Correct : Cardinality(Groups(n)) <= 1

(* The safety core of EventuallyAggregated: a node that holds threshold signatures that
   count together has aggregated some of them.  Signatures arrive one at a time, and
   those of threshold slots pass select_aggregation_inputs. *)
NoMissedTrigger ==
  \A n \in Correct : \A g \in ByRoot(stored[n]) :
    Cardinality(g) >= Threshold => \E h \in Groups(n) : h \subseteq g

(* The correct nodes that have signed r *)
Signers(r) == {n \in Correct : Sig(n, r) \in stored[n]}

(* Counting exactly threshold signatures misses no trigger: when threshold correct nodes
   have signed one root, every correct node aggregates in the end, also when a faulty
   node's signatures over other roots come first *)
EventuallyAggregated ==
  \A r \in Root :
    Cardinality(Signers(r)) >= Threshold ~> \A n \in Correct : aggregated[n] # <<>>
-----------------------------------------------------------------------------
(* The inductive invariant *)

(* A correct signer's signature is held only when the signer holds it itself *)
Owned ==
  \A n \in Correct :
    /\ IsFiniteSet(stored[n])
    /\ \A s \in stored[n] : s.share_idx \in Correct => s \in stored[s.share_idx]

(* What was aggregated is threshold signatures that are held still, of as many shares,
   over one root *)
Triggered ==
  \A n \in Correct : \A g \in Groups(n) :
    /\ g \subseteq stored[n]
    /\ Cardinality(g) = Threshold
    /\ AggregationInputs(g)
    /\ duty_type # "SIGNATURE" => \A s, u \in g : s.message_root = u.message_root

(* All triggers of a node aggregate the same signatures *)
SameGroup == \A n \in Correct : \A g, h \in Groups(n) : g = h

(* The slots (store_partial_signature), the signatures held and the groups aggregated
   (select_threshold_matching, select_aggregation_inputs) stay consistent *)
Inv == TypeOK /\ Owned /\ Triggered /\ SameGroup
=============================================================================
