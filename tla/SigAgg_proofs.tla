--------------------------- MODULE SigAgg_proofs ---------------------------
(***************************************************************************)
(* Proofs about SigAgg, for every cluster, threshold, set of roots and set *)
(* of faulty nodes with 2 * Threshold > nodes + faulty nodes.              *)
(***************************************************************************)
EXTENDS SigAgg, FiniteSetTheorems, TLAPS

-----------------------------------------------------------------------------
(* Two sets of threshold shares have a correct node in common *)
LEMMA CommonSigner ==
  ASSUME NEW A \in SUBSET Node, Cardinality(A) >= Threshold,
         NEW B \in SUBSET Node, Cardinality(B) >= Threshold
  PROVE  \E c \in Correct : c \in A /\ c \in B
<1>1. /\ IsFiniteSet(A) /\ IsFiniteSet(B) /\ IsFiniteSet(A \cup B) /\ IsFiniteSet(A \cap B)
      /\ IsFiniteSet(Faulty)
      /\ Cardinality(A \cup B) <= Cardinality(Node)
  BY ClusterAssumption, FS_Subset
<1>2. /\ Cardinality(A) \in Nat /\ Cardinality(B) \in Nat
      /\ Cardinality(A \cup B) \in Nat /\ Cardinality(A \cap B) \in Nat
      /\ Cardinality(Faulty) \in Nat /\ Cardinality(Node) \in Nat
  BY <1>1, ClusterAssumption, FS_CardinalityType
<1>3. Cardinality(A \cup B) = Cardinality(A) + Cardinality(B) - Cardinality(A \cap B)
  BY <1>1, FS_Union
<1>4. Cardinality(A \cap B) > Cardinality(Faulty)
  BY <1>1, <1>2, <1>3, ClusterAssumption
<1>5. ~ (A \cap B \subseteq Faulty)
  <2>1. SUFFICES ASSUME A \cap B \subseteq Faulty
                 PROVE  FALSE
    OBVIOUS
  <2>2. Cardinality(A \cap B) <= Cardinality(Faulty)
    BY <1>1, <2>1, FS_Subset
  <2> QED
    BY <1>2, <1>4, <2>2
<1> QED
  BY <1>5 DEF Correct

(* What the nodes have aggregated is over one root: a node that signed for both of two
   groups has one slot for its own signature *)
LEMMA GroupsAgree == TypeOK /\ Owned /\ Triggered => OneRoot
<1> SUFFICES ASSUME TypeOK, Owned, Triggered, duty_type # "SIGNATURE",
                    NEW n \in Correct, NEW m \in Correct,
                    NEW g \in Groups(n), NEW h \in Groups(m),
                    NEW s \in g, NEW u \in h
             PROVE  s.message_root = u.message_root
  BY DEF OneRoot
<1>1. /\ g \subseteq stored[n] /\ h \subseteq stored[m]
      /\ stored[n] \subseteq PartialSignature /\ stored[m] \subseteq PartialSignature
  BY DEF Triggered, TypeOK
<1>2. Shares(g) \subseteq Node /\ Shares(h) \subseteq Node
  BY <1>1 DEF Shares, PartialSignature
<1>3. Cardinality(Shares(g)) >= Threshold /\ Cardinality(Shares(h)) >= Threshold
  BY DEF Triggered, AggregationInputs
<1>4. PICK c \in Correct : c \in Shares(g) /\ c \in Shares(h)
  BY <1>2, <1>3, CommonSigner
<1>5. PICK x \in g : x.share_idx = c
  BY <1>4 DEF Shares
<1>6. PICK y \in h : y.share_idx = c
  BY <1>4 DEF Shares
<1>7. x \in stored[c] /\ y \in stored[c]
  BY <1>1, <1>5, <1>6 DEF Owned
<1>8. x = y
  BY <1>5, <1>6, <1>7 DEF TypeOK
<1>9. s.message_root = x.message_root /\ u.message_root = y.message_root
  BY <1>5, <1>6 DEF Triggered
<1> QED
  BY <1>8, <1>9

-----------------------------------------------------------------------------
(* The invariant holds initially *)
LEMMA InitInv == Init => Inv
<1> SUFFICES ASSUME Init PROVE Inv
  OBVIOUS
<1>1. \A n \in Correct : Groups(n) = {}
  BY DEF Init, Groups
<1> QED
  BY <1>1, FS_EmptySet DEF Init, Inv, TypeOK, Owned, Triggered, SameGroup

(* What a trigger aggregates is a group of the signatures held then *)
LEMMA TriggerGroup ==
  ASSUME NEW held \in SUBSET PartialSignature,
         NEW g \in {x \in SelectThresholdMatching(held) : AggregationInputs(x)}
  PROVE  /\ g \in SUBSET held
         /\ Cardinality(g) = Threshold
         /\ AggregationInputs(g)
         /\ duty_type = "SIGNATURE" => g = held
         /\ duty_type # "SIGNATURE" =>
              \E r \in Root : g = {s \in held : s.message_root = r}
  BY DEF SelectThresholdMatching, ByRoot

(* Storing a signature that its owner holds, or may send, preserves the invariant *)
LEMMA StorePreservesInv ==
  ASSUME Inv, NEW n \in Correct, NEW s \in PartialSignature, Store(n, s),
         s.share_idx \in Correct => s.share_idx = n \/ s \in stored[s.share_idx]
  PROVE  Inv'
<1> DEFINE held == stored[n] \cup {s}
<1>1. /\ Accepted(stored[n], s)
      /\ stored' = [stored EXCEPT ![n] = held]
      /\ duty_type' = duty_type
      /\ \/ aggregated' = aggregated
         \/ \E g \in {x \in SelectThresholdMatching(held) : AggregationInputs(x)} :
              aggregated' = [aggregated EXCEPT ![n] = Append(@, g)]
  BY DEF Store
<1>2. /\ TypeOK /\ Owned /\ Triggered /\ SameGroup
      /\ stored \in [Correct -> SUBSET PartialSignature]
      /\ aggregated \in [Correct -> Seq(SUBSET PartialSignature)]
  BY DEF Inv, TypeOK
<1>3. /\ \A m \in Correct : stored[m] \subseteq stored'[m]
      /\ \A m \in Correct : m # n => stored'[m] = stored[m]
      /\ stored'[n] = held
      /\ s \notin stored[n]
  BY <1>1, <1>2 DEF Accepted
<1>4. TypeOK'
  <2>1. stored' \in [Correct -> SUBSET PartialSignature]
    BY <1>1, <1>2
  <2>2. aggregated' \in [Correct -> Seq(SUBSET PartialSignature)]
    <3>1. held \in SUBSET PartialSignature
      BY <1>2
    <3>2. \A g \in {x \in SelectThresholdMatching(held) : AggregationInputs(x)} :
            g \in SUBSET PartialSignature
      BY <3>1, TriggerGroup
    <3>3. ASSUME NEW g \in SUBSET PartialSignature,
                 aggregated' = [aggregated EXCEPT ![n] = Append(@, g)]
          PROVE  aggregated' \in [Correct -> Seq(SUBSET PartialSignature)]
      <4>1. Append(aggregated[n], g) \in Seq(SUBSET PartialSignature)
        BY <1>2
      <4> QED
        BY <1>2, <3>3, <4>1
    <3> QED
      BY <1>1, <1>2, <3>2, <3>3
  <2>3. \A m \in Correct : \A t, u \in stored'[m] : t.share_idx = u.share_idx => t = u
    BY <1>1, <1>2, <1>3 DEF TypeOK, Accepted
  <2> QED
    BY <1>1, <1>2, <2>1, <2>2, <2>3 DEF TypeOK
<1>5. Owned'
  <2>1. \A m \in Correct : IsFiniteSet(stored'[m])
    BY <1>2, <1>3, FS_AddElement DEF Owned
  <2>2. ASSUME NEW m \in Correct, NEW u \in stored'[m], u.share_idx \in Correct
        PROVE  u \in stored'[u.share_idx]
    BY <1>2, <1>3, <2>2 DEF Owned
  <2> QED
    BY <2>1, <2>2 DEF Owned
<1>6. CASE aggregated' = aggregated
  <2>1. \A m \in Correct : Groups(m)' = Groups(m)
    BY <1>6 DEF Groups
  <2>2. ASSUME NEW m \in Correct, NEW g \in Groups(m)
        PROVE  /\ g \subseteq stored'[m]
               /\ Cardinality(g) = Threshold
               /\ AggregationInputs(g)
               /\ duty_type # "SIGNATURE" => \A t, u \in g : t.message_root = u.message_root
    BY <1>2, <1>3 DEF Triggered
  <2>3. Triggered'
    BY <1>1, <2>1, <2>2 DEF Triggered
  <2>4. SameGroup'
    BY <1>2, <2>1 DEF SameGroup
  <2> QED
    BY <1>4, <1>5, <2>3, <2>4 DEF Inv
<1>7. ASSUME NEW g \in {x \in SelectThresholdMatching(held) : AggregationInputs(x)},
             aggregated' = [aggregated EXCEPT ![n] = Append(@, g)]
      PROVE  Inv'
  <2>1. /\ g \in SUBSET held
        /\ Cardinality(g) = Threshold
        /\ AggregationInputs(g)
        /\ duty_type = "SIGNATURE" => g = held
        /\ duty_type # "SIGNATURE" =>
             \E r \in Root : g = {x \in held : x.message_root = r}
    <3>1. held \in SUBSET PartialSignature
      BY <1>2
    <3> QED
      BY <1>7, <3>1, TriggerGroup
  <2>2. /\ \A m \in Correct : m # n => Groups(m)' = Groups(m)
        /\ Groups(n)' = Groups(n) \cup {g}
    <3>1. \A m \in Correct : m # n => aggregated'[m] = aggregated[m]
      BY <1>2, <1>7
    <3>2. /\ aggregated'[n] = Append(aggregated[n], g)
          /\ aggregated[n] \in Seq(SUBSET PartialSignature)
      BY <1>2, <1>7
    <3> QED
      BY <3>1, <3>2 DEF Groups
  <2>3. Triggered'
    <3>1. ASSUME NEW m \in Correct, NEW h \in Groups(m)
          PROVE  /\ h \subseteq stored'[m]
                 /\ Cardinality(h) = Threshold
                 /\ AggregationInputs(h)
                 /\ duty_type # "SIGNATURE" =>
                      \A t, u \in h : t.message_root = u.message_root
      BY <1>2, <1>3 DEF Triggered
    <3>2. /\ g \subseteq stored'[n]
          /\ Cardinality(g) = Threshold
          /\ AggregationInputs(g)
          /\ duty_type # "SIGNATURE" => \A t, u \in g : t.message_root = u.message_root
      BY <1>3, <2>1
    <3>3. \A m \in Correct : \A h \in Groups(m)' : h \in Groups(m) \/ (m = n /\ h = g)
      BY <2>2
    <3> QED
      BY <1>1, <3>1, <3>2, <3>3 DEF Triggered
  <2>4. OneRoot'
    BY <1>4, <1>5, <2>3, GroupsAgree, PTL
  <2>5. ASSUME NEW h \in Groups(n) PROVE h = g
    <3>1. h \subseteq held /\ Cardinality(h) = Threshold /\ s \notin h
      BY <1>2, <1>3 DEF Triggered
    <3>2. IsFiniteSet(g) /\ IsFiniteSet(h) /\ IsFiniteSet(held)
      BY <1>3, <1>5, <2>1, <3>1, FS_Subset DEF Owned
    <3>3. h \subseteq g
      <4>1. CASE duty_type = "SIGNATURE"
        BY <2>1, <3>1, <4>1
      <4>2. CASE duty_type # "SIGNATURE"
        <5>1. PICK r \in Root : g = {x \in held : x.message_root = r}
          BY <2>1, <4>2
        <5>2. g # {}
          BY <2>1, FS_EmptySet, ClusterAssumption
        <5>3. \A x \in h, y \in g : x.message_root = y.message_root
          BY <1>1, <2>2, <2>4, <4>2 DEF OneRoot
        <5> QED
          BY <3>1, <5>1, <5>2, <5>3
      <4> QED
        BY <4>1, <4>2
    <3> QED
      BY <2>1, <3>1, <3>2, <3>3, FS_Subset
  <2>6. SameGroup'
    BY <1>2, <2>2, <2>5 DEF SameGroup
  <2> QED
    BY <1>4, <1>5, <2>3, <2>6 DEF Inv
<1> QED
  BY <1>1, <1>6, <1>7

-----------------------------------------------------------------------------
(* Every step preserves the invariant *)
LEMMA NextPreservesInv == Inv /\ [Next]_vars => Inv'
<1> SUFFICES ASSUME Inv, [Next]_vars PROVE Inv'
  OBVIOUS
<1>1. ASSUME NEW n \in Correct, NEW r \in Root, Sign(n, r)
      PROVE  Inv'
  <2>1. Sig(n, r) \in PartialSignature /\ Sig(n, r).share_idx = n
    BY DEF Sig, PartialSignature, Correct
  <2> QED
    BY <1>1, <2>1, StorePreservesInv DEF Sign
<1>2. ASSUME NEW n \in Correct, NEW s \in PartialSignature, Receive(n, s)
      PROVE  Inv'
  <2>1. s.share_idx \in Correct => s \in stored[s.share_idx]
    BY <1>2 DEF Receive, Exchanged
  <2> QED
    BY <1>2, <2>1, StorePreservesInv DEF Receive
<1>3. CASE UNCHANGED vars
  <2>1. duty_type' = duty_type /\ stored' = stored /\ aggregated' = aggregated
    BY <1>3 DEF vars
  <2>2. \A n \in Correct : Groups(n)' = Groups(n)
    BY <2>1 DEF Groups
  <2>3. TypeOK'
    BY <2>1 DEF Inv, TypeOK
  <2>4. Owned'
    BY <2>1 DEF Inv, Owned
  <2>5. Triggered'
    BY <2>1, <2>2 DEF Inv, Triggered
  <2>6. SameGroup'
    BY <2>2 DEF Inv, SameGroup
  <2> QED
    BY <2>3, <2>4, <2>5, <2>6 DEF Inv
<1> QED
  BY <1>1, <1>2, <1>3 DEF Next

(* The slots of store_partial_signature and the groups that select_threshold_matching
   chose stay consistent *)
THEOREM Invariance == Spec => []Inv
  BY InitInv, NextPreservesInv, PTL DEF Spec

(* No two nodes aggregate signatures over different roots *)
THEOREM OneRootHolds == Spec => []OneRoot
<1>1. Inv => OneRoot
  BY GroupsAgree DEF Inv
<1> QED
  BY <1>1, Invariance, PTL

(* A node that triggers more than once aggregates the same signatures each time *)
THEOREM SameAggregateHolds == Spec => []SameAggregate
<1>1. Inv => SameAggregate
  <2> SUFFICES ASSUME Inv, NEW n \in Correct
               PROVE  Cardinality(Groups(n)) <= 1
    BY DEF SameAggregate
  <2>1. CASE Groups(n) = {}
    BY <2>1, FS_EmptySet
  <2>2. CASE Groups(n) # {}
    <3>1. PICK g : Groups(n) = {g}
      BY <2>2 DEF Inv, SameGroup
    <3>2. Cardinality({g}) = 1
      BY FS_Singleton
    <3> QED
      BY <3>1, <3>2
  <2> QED
    BY <2>1, <2>2
<1> QED
  BY <1>1, Invariance, PTL
-----------------------------------------------------------------------------
(* Signatures that occupy different slots are of as many shares: select_aggregation_inputs
   raises for no group that select_threshold_matching returns *)
LEMMA SlotsAreShares ==
  ASSUME NEW g, IsFiniteSet(g), \A s, u \in g : s.share_idx = u.share_idx => s = u
  PROVE  Cardinality(Shares(g)) = Cardinality(g)
<1> DEFINE f == [s \in g |-> s.share_idx]
<1>1. f \in Surjection(g, Shares(g))
  BY DEF Surjection, Shares
<1>2. f \in Injection(g, Shares(g))
  BY DEF Injection, IsInjective, Shares
<1> HIDE DEF f
<1> QED
  BY <1>1, <1>2, FS_Surjection

(* A group of threshold signatures that are held is aggregated once it holds exactly
   threshold of them, and grows one signature at a time *)
LEMMA StoreMissesNoTrigger ==
  ASSUME Inv, Inv', NoMissedTrigger,
         NEW n \in Correct, NEW s \in PartialSignature, Store(n, s)
  PROVE  NoMissedTrigger'
<1> DEFINE held == stored[n] \cup {s}
           triggered == {g \in SelectThresholdMatching(held) : AggregationInputs(g)}
<1>1. /\ Accepted(stored[n], s)
      /\ stored' = [stored EXCEPT ![n] = held]
      /\ duty_type' = duty_type
      /\ \/ triggered = {} /\ aggregated' = aggregated
         \/ \E g \in triggered : aggregated' = [aggregated EXCEPT ![n] = Append(@, g)]
  BY DEF Store
<1>2. /\ stored \in [Correct -> SUBSET PartialSignature]
      /\ aggregated \in [Correct -> Seq(SUBSET PartialSignature)]
      /\ IsFiniteSet(stored[n])
      /\ held \in SUBSET PartialSignature
  BY DEF Inv, TypeOK, Owned
<1>3. /\ stored'[n] = held
      /\ \A m \in Correct : m # n => stored'[m] = stored[m]
      /\ s \notin stored[n]
  BY <1>1, <1>2 DEF Accepted
<1>4. \A m \in Correct : Groups(m) \subseteq Groups(m)'
  <2>1. CASE aggregated' = aggregated
    BY <2>1 DEF Groups
  <2>2. ASSUME NEW g \in triggered, aggregated' = [aggregated EXCEPT ![n] = Append(@, g)]
        PROVE  \A m \in Correct : Groups(m) \subseteq Groups(m)'
    <3>1. \A m \in Correct : m # n => aggregated'[m] = aggregated[m]
      BY <1>2, <2>2
    <3>2. /\ aggregated'[n] = Append(aggregated[n], g)
          /\ aggregated[n] \in Seq(SUBSET PartialSignature)
      BY <1>2, <2>2
    <3> QED
      BY <3>1, <3>2 DEF Groups
  <2> QED
    BY <1>1, <2>1, <2>2
<1>5. \A x \in SUBSET PartialSignature : ByRoot(x)' = ByRoot(x)
  BY <1>1 DEF ByRoot
<1>6. ASSUME NEW m \in Correct, m # n, NEW g \in ByRoot(stored[m]),
             Cardinality(g) >= Threshold
      PROVE  \E h \in Groups(m)' : h \subseteq g
  BY <1>4, <1>6 DEF NoMissedTrigger
<1>7. ASSUME NEW g \in ByRoot(held), Cardinality(g) >= Threshold
      PROVE  \E h \in Groups(n)' : h \subseteq g
  <2>1. g \subseteq held /\ IsFiniteSet(g) /\ IsFiniteSet(g \ {s})
    <3>1. IsFiniteSet(held)
      BY <1>2, FS_AddElement
    <3>2. g \subseteq held
      BY DEF ByRoot
    <3> QED
      BY <3>1, <3>2, FS_Subset
  <2>2. g \ {s} \in ByRoot(stored[n])
    <3>1. CASE duty_type = "SIGNATURE"
      BY <1>3, <3>1 DEF ByRoot
    <3>2. CASE duty_type # "SIGNATURE"
      <4>1. PICK r \in Root : g = {x \in held : x.message_root = r}
        BY <3>2 DEF ByRoot
      <4>2. g \ {s} = {x \in stored[n] : x.message_root = r}
        BY <1>3, <4>1
      <4> QED
        BY <3>2, <4>2 DEF ByRoot
    <3> QED
      BY <3>1, <3>2
  <2>3. CASE Cardinality(g \ {s}) >= Threshold
    <3>1. PICK h \in Groups(n) : h \subseteq g \ {s}
      BY <2>2, <2>3 DEF NoMissedTrigger
    <3> QED
      BY <1>4, <3>1
  <2>4. CASE ~ (Cardinality(g \ {s}) >= Threshold)
    <3>1. Cardinality(g) = Threshold
      <4>1. /\ Cardinality(g) \in Nat
            /\ Cardinality(g \ {s}) \in Nat
        BY <2>1, FS_CardinalityType
      <4>2. \/ Cardinality(g \ {s}) = Cardinality(g)
            \/ Cardinality(g \ {s}) = Cardinality(g) - 1
        BY <2>1, FS_RemoveElement
      <4> QED
        BY <1>7, <2>4, <4>1, <4>2, ClusterAssumption
    <3>2. \A x, y \in held : x.share_idx = y.share_idx => x = y
      BY <1>3 DEF Inv, TypeOK
    <3>3. g \in triggered
      <4>1. Cardinality(Shares(g)) = Cardinality(g)
        BY <2>1, <3>2, SlotsAreShares
      <4>2. AggregationInputs(g)
        BY <3>1, <4>1, ClusterAssumption DEF AggregationInputs
      <4> QED
        BY <3>1, <4>2, <1>7 DEF SelectThresholdMatching
    <3>4. PICK h \in triggered : aggregated' = [aggregated EXCEPT ![n] = Append(@, h)]
      BY <1>1, <3>3
    <3>5. h \in Groups(n)'
      <4>1. /\ aggregated'[n] = Append(aggregated[n], h)
            /\ aggregated[n] \in Seq(SUBSET PartialSignature)
        BY <1>2, <3>4
      <4>2. h \in SUBSET PartialSignature
        BY <1>2, TriggerGroup
      <4>3. /\ Len(aggregated[n]) + 1 \in DOMAIN aggregated'[n]
            /\ aggregated'[n][Len(aggregated[n]) + 1] = h
        BY <4>1, <4>2
      <4> QED
        BY <4>3 DEF Groups
    <3>6. h = g
      <4>1. CASE duty_type = "SIGNATURE"
        BY <4>1, <1>7 DEF ByRoot, SelectThresholdMatching
      <4>2. CASE duty_type # "SIGNATURE"
        <5>1. PICK r \in Root : g = {x \in held : x.message_root = r}
          BY <4>2, <1>7 DEF ByRoot
        <5>2. PICK q \in Root : h = {x \in held : x.message_root = q}
          BY <4>2 DEF ByRoot, SelectThresholdMatching
        <5>3. \E c \in Correct : c \in Shares(g) /\ c \in Shares(h)
          <6>1. Shares(g) \in SUBSET Node /\ Shares(h) \in SUBSET Node
            BY <1>2, <5>1, <5>2 DEF Shares, PartialSignature
          <6>2. Cardinality(Shares(g)) >= Threshold /\ Cardinality(Shares(h)) >= Threshold
            BY <3>3 DEF AggregationInputs
          <6> QED
            BY <6>1, <6>2, CommonSigner
        <5>4. \E x \in g, y \in h : x.share_idx = y.share_idx
          BY <5>3 DEF Shares
        <5>5. \E x \in held : x \in g /\ x \in h
          BY <3>2, <5>1, <5>2, <5>4
        <5> QED
          BY <5>1, <5>2, <5>5
      <4> QED
        BY <4>1, <4>2
    <3> QED
      BY <3>5, <3>6
  <2> QED
    BY <2>3, <2>4
<1>8. ASSUME NEW m \in Correct, NEW g \in ByRoot(stored[m])', Cardinality(g) >= Threshold
      PROVE  \E h \in Groups(m)' : h \subseteq g
  <2>1. ByRoot(stored[m])' = ByRoot(stored'[m])
    BY <1>1 DEF ByRoot
  <2>2. CASE m = n
    BY <1>3, <1>7, <1>8, <2>1, <2>2
  <2>3. CASE m # n
    BY <1>3, <1>6, <1>8, <2>1, <2>3
  <2> QED
    BY <2>2, <2>3
<1> QED
  BY <1>8 DEF NoMissedTrigger

(* The comparison == threshold of select_threshold_matching misses no group: a node that
   holds threshold signatures that count together has aggregated some of them *)
THEOREM NoMissedTriggerHolds == Spec => []NoMissedTrigger
<1>1. Init => NoMissedTrigger
  <2> SUFFICES ASSUME Init, NEW n \in Correct, NEW g \in ByRoot(stored[n])
               PROVE  ~ (Cardinality(g) >= Threshold)
    BY DEF NoMissedTrigger
  <2>1. g = {}
    BY DEF Init, ByRoot
  <2> QED
    BY <2>1, FS_EmptySet, ClusterAssumption
<1>2. Inv /\ Inv' /\ NoMissedTrigger /\ [Next]_vars => NoMissedTrigger'
  <2> SUFFICES ASSUME Inv, Inv', NoMissedTrigger, [Next]_vars
               PROVE  NoMissedTrigger'
    OBVIOUS
  <2>1. ASSUME NEW n \in Correct, NEW r \in Root, Sign(n, r)
        PROVE  NoMissedTrigger'
    <3>1. Sig(n, r) \in PartialSignature
      BY DEF Sig, PartialSignature, Correct
    <3> QED
      BY <2>1, <3>1, StoreMissesNoTrigger DEF Sign
  <2>2. ASSUME NEW n \in Correct, NEW s \in PartialSignature, Receive(n, s)
        PROVE  NoMissedTrigger'
    BY <2>2, StoreMissesNoTrigger DEF Receive
  <2>3. CASE UNCHANGED vars
    <3>1. /\ \A n \in Correct : Groups(n)' = Groups(n)
          /\ \A n \in Correct : ByRoot(stored[n])' = ByRoot(stored[n])
      BY <2>3 DEF vars, Groups, ByRoot
    <3> QED
      BY <3>1 DEF NoMissedTrigger
  <2> QED
    BY <2>1, <2>2, <2>3 DEF Next
<1> QED
  BY <1>1, <1>2, Invariance, PTL DEF Spec
=============================================================================
