---------------------------- MODULE Ceremony_proofs ----------------------------
(***************************************************************************)
(* A ceremony is a reliable broadcast and a step barrier at once: each of  *)
(* its steps is a step of either, or changes nothing of it.  What is       *)
(* proved of them holds of every ceremony, of any kind and size, with any  *)
(* number of faulty peers.                                                 *)
(*                                                                         *)
(* From that follows what its nodes end up with.  DkgInv: they have heard  *)
(* the same casts, and so have keys that fit together.  CeremonyInv: those *)
(* who remain make one lock of their keys, verify the same signatures of   *)
(* it before anyone writes it, and load it only if the shares and the      *)
(* order of its operators are right; without faulty peers they are right   *)
(* in every lock that is written.                                          *)
(***************************************************************************)
EXTENDS Ceremony, ReliableBroadcast_proofs, DkgSync_proofs, FiniteSetTheorems

(* A ceremony starts with nodes as peers *)
LEMMA InitialPeers ==
  ASSUME Init
  PROVE  peers \subseteq Node
<1>1. PICK q \in CeremonyRequest : ValidRequest(q) /\ plan = Plan(q)
  BY DEF Init
<1> QED
  BY <1>1, CeremonyAssumption DEF Init, Operators

(* A step of a ceremony is one of the reliable broadcast, or leaves it alone *)
LEMMA CeremonyBcastStep ==
  ASSUME [Next]_vars
  PROVE  [BcastNext]_<<peers, bcast_vars>>
<1>1. CASE UNCHANGED vars
  BY <1>1 DEF vars, bcast_vars
<1>2. CASE Next
  <2> PICK n \in Node :
    \/ Connect(n) \/ FrostRound1(n) \/ FrostRound2(n) \/ FrostFinish(n)
    \/ Deal(n) \/ Reshare(n)
    \/ UpdateLock(n) \/ AggregateLock(n)
    \/ UpdateNodeSignatures(n) \/ IgnoreNodeSignatures(n) \/ FinishNodeSignatures(n)
    \/ WriteArtifacts(n) \/ Noop(n) \/ Load(n)
    \/ ReceiveSent(n)
    \/ \E r \in Node : \E id \in MessageId : ReceiveBroadcast(n, r, id) \/ FaultySign(n, r, id)
    \/ \E r \in Node : \E type \in {"round1/p2p", "sigLock"} : FaultyReceive(n, r, type)
    BY <1>2 DEF Next
  <2>1. CASE FrostRound1(n)
    BY <2>1, CeremonyAssumption DEF FrostRound1, BcastNext
  <2>2. CASE FrostRound2(n)
    BY <2>2, CeremonyAssumption DEF FrostRound2, BcastNext
  <2>3. CASE UpdateNodeSignatures(n)
    BY <2>3, CeremonyAssumption DEF UpdateNodeSignatures, BcastNext
  <2>4. CASE IgnoreNodeSignatures(n)
    BY <2>4, CeremonyAssumption DEF IgnoreNodeSignatures, BcastNext
  <2>5. ASSUME NEW r \in Node, NEW id \in MessageId, ReceiveBroadcast(n, r, id)
        PROVE  BcastNext
    BY <2>5 DEF ReceiveBroadcast, BcastNext
  <2>6. ASSUME NEW r \in Node, NEW id \in MessageId, FaultySign(n, r, id)
        PROVE  BcastNext
    BY <2>6 DEF FaultySign, BcastNext
  <2>7. CASE Connect(n) \/ FrostFinish(n) \/ Deal(n) \/ Reshare(n) \/ AggregateLock(n)
             \/ FinishNodeSignatures(n) \/ WriteArtifacts(n) \/ Noop(n)
    BY <2>7 DEF Connect, FrostFinish, Deal, Reshare, AggregateLock, FinishNodeSignatures,
                WriteArtifacts, Noop
  <2>8. CASE UpdateLock(n) \/ Load(n)
    BY <2>8 DEF UpdateLock, Load
  <2>9. CASE ReceiveSent(n)
    BY <2>9 DEF ReceiveSent, Receive
  <2>10. ASSUME NEW r \in Node, NEW type \in {"round1/p2p", "sigLock"}, FaultyReceive(n, r, type)
         PROVE  UNCHANGED <<peers, bcast_vars>>
    BY <2>10 DEF FaultyReceive, Receive
  <2> QED
    BY <2>1, <2>2, <2>3, <2>4, <2>5, <2>6, <2>7, <2>8, <2>9, <2>10
<1> QED
  BY <1>1, <1>2

(* A step of a ceremony is one of the step barrier, or leaves it alone *)
LEMMA CeremonySyncStep ==
  ASSUME [Next]_vars
  PROVE  [SyncNext]_<<peers, step>>
<1>1. CASE UNCHANGED vars
  BY <1>1 DEF vars
<1>2. CASE Next
  <2> PICK n \in Node :
    \/ Connect(n) \/ FrostRound1(n) \/ FrostRound2(n) \/ FrostFinish(n)
    \/ Deal(n) \/ Reshare(n)
    \/ UpdateLock(n) \/ AggregateLock(n)
    \/ UpdateNodeSignatures(n) \/ IgnoreNodeSignatures(n) \/ FinishNodeSignatures(n)
    \/ WriteArtifacts(n) \/ Noop(n) \/ Load(n)
    \/ ReceiveSent(n)
    \/ \E r \in Node : \E id \in MessageId : ReceiveBroadcast(n, r, id) \/ FaultySign(n, r, id)
    \/ \E r \in Node : \E type \in {"round1/p2p", "sigLock"} : FaultyReceive(n, r, type)
    BY <1>2 DEF Next
  <2>1. CASE Connect(n) \/ FrostFinish(n) \/ Reshare(n) \/ AggregateLock(n)
             \/ FinishNodeSignatures(n) \/ WriteArtifacts(n) \/ Noop(n)
    BY <2>1 DEF Connect, FrostFinish, Reshare, AggregateLock, FinishNodeSignatures,
                WriteArtifacts, Noop, SyncNext
  <2>2. CASE FrostRound1(n) \/ FrostRound2(n) \/ Deal(n) \/ UpdateLock(n) \/ Load(n)
             \/ UpdateNodeSignatures(n) \/ IgnoreNodeSignatures(n)
    BY <2>2 DEF FrostRound1, FrostRound2, Deal, UpdateLock, Load, UpdateNodeSignatures,
                IgnoreNodeSignatures
  <2>3. CASE ReceiveSent(n)
    BY <2>3 DEF ReceiveSent, Receive
  <2>4. ASSUME NEW r \in Node, NEW id \in MessageId,
               ReceiveBroadcast(n, r, id) \/ FaultySign(n, r, id)
        PROVE  UNCHANGED <<peers, step>>
    BY <2>4 DEF ReceiveBroadcast, FaultySign
  <2>5. ASSUME NEW r \in Node, NEW type \in {"round1/p2p", "sigLock"}, FaultyReceive(n, r, type)
        PROVE  UNCHANGED <<peers, step>>
    BY <2>5 DEF FaultyReceive, Receive
  <2> QED
    BY <2>1, <2>2, <2>3, <2>4, <2>5
<1> QED
  BY <1>1, <1>2

(* Every ceremony implements reliable broadcast, so its correct nodes never work with
   different messages of one peer *)
THEOREM CeremonyBroadcastsAgree == Spec => []BroadcastAgreement
<1>1. Init => peers \subseteq Node /\ BcastInit
  BY InitialPeers DEF Init
<1>2. Spec => BcastSpec
  BY <1>1, CeremonyBcastStep, PTL DEF Spec, BcastSpec
<1> QED
  BY <1>2, BroadcastsAgree, PTL

(* Every ceremony implements the step barrier: no correct node writes its artifacts while
   another one still exchanges node signatures *)
THEOREM CeremonyStepsAreBarriers == Spec => []Barrier
<1>1. Init => peers \subseteq Node /\ SyncInit
  BY InitialPeers DEF Init
<1>2. Spec => SyncSpec
  BY <1>1, CeremonySyncStep, PTL DEF Spec, SyncSpec
<1> QED
  BY <1>2, StepsAreBarriers, PTL

-----------------------------------------------------------------------------
(* A set of natural numbers has a least one *)
LEMMA LeastNatural ==
  ASSUME NEW T \in SUBSET Nat, T # {}
  PROVE  \E m \in T : \A k \in T : m <= k
<1>1. PICK m \in T : \A k \in T : <<k, m>> \notin OpToRel(<, Nat)
  BY NatLessThanWellFounded, WFMin, Zenon
<1>2. ASSUME NEW k \in T, k < m
      PROVE  FALSE
  <2>1. <<k, m>> \in Nat \X Nat
    OBVIOUS
  <2> QED
    BY <1>1, <1>2, <2>1 DEF OpToRel
<1> QED
  BY <1>2

(* The indices before one of them *)
Below(indices, i) == {j \in indices : j < i}

(* There are finitely many of these *)
LEMMA BelowFinite ==
  ASSUME NEW indices \in SUBSET Nat, IsFiniteSet(indices), NEW i \in indices
  PROVE  IsFiniteSet(Below(indices, i)) /\ i \notin Below(indices, i)
<1>1. Below(indices, i) \in SUBSET indices /\ i \notin Below(indices, i)
  BY DEF Below
<1> QED
  BY <1>1, FS_Subset

(* An index has the n-th place in the order, for each n up to their number *)
LEMMA PlaceTaken ==
  ASSUME NEW indices \in SUBSET Nat, IsFiniteSet(indices), NEW n \in 1 .. Cardinality(indices)
  PROVE  \E i \in indices : Cardinality(Below(indices, i)) = n - 1
<1> DEFINE Taken(k) == \E i \in indices : Cardinality(Below(indices, i)) = k - 1
           free == {k \in 1 .. Cardinality(indices) : ~Taken(k)}
<1>0. Cardinality(indices) \in Nat
  BY FS_CardinalityType
<1> SUFFICES ASSUME free # {}
             PROVE  FALSE
  BY DEF Taken
<1>1. PICK k \in free : \A j \in free : k <= j
  <2>1. free \in SUBSET Nat
    BY <1>0
  <2> QED
    BY <2>1, LeastNatural
<1>2. k \in 1 .. Cardinality(indices) /\ ~Taken(k)
  OBVIOUS
<1>3. CASE k = 1
  <2>1. indices # {}
    BY <1>0, <1>2, FS_EmptySet
  <2>2. PICK i \in indices : \A j \in indices : i <= j
    BY <2>1, LeastNatural
  <2>3. Below(indices, i) = {}
    <3>1. \A j \in indices : j \in Nat /\ i \in Nat /\ i <= j
      BY <2>2
    <3>2. \A j \in indices : ~(j < i)
      BY <3>1
    <3> QED
      BY <3>2 DEF Below
  <2>4. Cardinality(Below(indices, i)) = k - 1
    BY <1>3, <2>3, FS_EmptySet
  <2> QED
    BY <1>2, <2>4
<1>4. CASE k > 1
  <2>1. k - 1 \in 1 .. Cardinality(indices) /\ k - 1 \notin free
    BY <1>0, <1>1, <1>4
  <2>2. PICK i \in indices : Cardinality(Below(indices, i)) = k - 2
    BY <2>1
  <2> DEFINE seen == Below(indices, i) \cup {i}
             rest == indices \ seen
  <2>3. IsFiniteSet(seen) /\ Cardinality(seen) = k - 1
    BY <1>0, <2>2, BelowFinite, FS_AddElement
  <2>4. rest # {}
    <3>1. SUFFICES ASSUME rest = {}
                   PROVE  FALSE
      OBVIOUS
    <3>2. seen = indices
      BY <3>1 DEF Below
    <3>3. Cardinality(indices) = k - 1
      BY <2>3, <3>2
    <3> QED
      BY <1>0, <1>2, <3>3
  <2>5. PICK next \in rest : \A j \in rest : next <= j
    BY <2>4, LeastNatural
  <2>6. Below(indices, next) = seen
    <3>1. next \in Nat /\ next > i
      BY <2>5 DEF Below
    <3>2. ASSUME NEW j \in indices
          PROVE  j < next <=> j \in seen
      BY <2>5, <3>1, <3>2 DEF Below
    <3>3. seen \subseteq indices
      BY DEF Below
    <3> HIDE DEF seen
    <3> QED
      BY <3>2, <3>3 DEF Below
  <2> QED
    BY <1>2, <2>3, <2>5, <2>6
<1> QED
  BY <1>0, <1>2, <1>3, <1>4

(* No two indices have the same place *)
LEMMA PlaceUnique ==
  ASSUME NEW indices \in SUBSET Nat, IsFiniteSet(indices), NEW i \in indices, NEW j \in indices,
         Cardinality(Below(indices, i)) = Cardinality(Below(indices, j))
  PROVE  i = j
<1>1. ASSUME NEW x \in indices, NEW y \in indices, x < y
      PROVE  Cardinality(Below(indices, x)) < Cardinality(Below(indices, y))
  <2>1. Below(indices, x) \cup {x} \in SUBSET Below(indices, y)
    <3>1. \A k \in indices : k \in Nat /\ x \in Nat /\ y \in Nat
      OBVIOUS
    <3>2. \A k \in indices : k < x => k < y
      BY <1>1, <3>1
    <3> QED
      BY <1>1, <3>2 DEF Below
  <2>2. /\ Cardinality(Below(indices, x)) \in Nat
        /\ Cardinality(Below(indices, y)) \in Nat
    BY BelowFinite, FS_CardinalityType
  <2>3. Cardinality(Below(indices, x) \cup {x}) = Cardinality(Below(indices, x)) + 1
    BY BelowFinite, FS_AddElement
  <2>4. Cardinality(Below(indices, x) \cup {x}) <= Cardinality(Below(indices, y))
    <3>1. IsFiniteSet(Below(indices, y))
      BY BelowFinite
    <3> QED
      BY <2>1, <3>1, FS_Subset
  <2> QED
    BY <2>2, <2>3, <2>4
<1>2. /\ Cardinality(Below(indices, i)) \in Nat
      /\ Cardinality(Below(indices, j)) \in Nat
  BY BelowFinite, FS_CardinalityType
<1> QED
  BY <1>1, <1>2

(* The places in ascending order are as many as the indices, and each index has one *)
LEMMA NthInIndices ==
  ASSUME NEW indices \in SUBSET Nat, IsFiniteSet(indices), NEW n \in 1 .. Cardinality(indices)
  PROVE  Nth(indices, n) \in indices
<1>1. \E i \in indices : Cardinality({j \in indices : j < i}) = n - 1
  BY PlaceTaken DEF Below
<1> QED
  BY <1>1 DEF Nth

(* Every index has a place *)
LEMMA NthOfEach ==
  ASSUME NEW indices \in SUBSET Nat, IsFiniteSet(indices), NEW i \in indices
  PROVE  \E n \in 1 .. Cardinality(indices) : Nth(indices, n) = i
<1> DEFINE n == Cardinality(Below(indices, i)) + 1
<1>1. Cardinality(Below(indices, i)) \in Nat /\ Cardinality(indices) \in Nat
  BY BelowFinite, FS_CardinalityType
<1>2. n <= Cardinality(indices)
  <2>1. Below(indices, i) \in SUBSET indices /\ Below(indices, i) # indices
    BY BelowFinite DEF Below
  <2>2. /\ Cardinality(Below(indices, i)) <= Cardinality(indices)
        /\ Cardinality(indices) = Cardinality(Below(indices, i)) => indices = Below(indices, i)
    BY <2>1, FS_Subset
  <2> QED
    BY <1>1, <2>1, <2>2
<1>3. n \in 1 .. Cardinality(indices) /\ n - 1 = Cardinality(Below(indices, i))
  BY <1>1, <1>2
<1> HIDE DEF n
<1>4. Nth(indices, n) = CHOOSE j \in indices : Cardinality(Below(indices, j)) = n - 1
  BY DEF Nth, Below
<1>5. Nth(indices, n) \in indices /\ Cardinality(Below(indices, Nth(indices, n))) = n - 1
  BY <1>3, <1>4
<1>6. Nth(indices, n) = i
  BY <1>3, <1>5, PlaceUnique
<1> QED
  BY <1>3, <1>6

-----------------------------------------------------------------------------
(* What n has of r under an ID: of itself what it has signed *)
Messages(n, r, id) == IF r = n THEN Own(n, id) ELSE Bundle(n, r, id)

(* Two correct nodes have the same message of a peer, and one only *)
OneMessage ==
  \A m, n \in Correct : \A r, id :
    \A x \in Messages(m, r, id), y \in Messages(n, r, id) : x = y

(* What a node has of a peer was signed, and if it came by broadcast by all correct nodes *)
LEMMA MessageSigned ==
  ASSUME BcastInv, NEW n \in Correct, NEW r, NEW id, NEW x \in Messages(n, r, id)
  PROVE  /\ \E s \in signed : /\ s.peer = n /\ s.requester = r
                              /\ s.message_id = id /\ s.message = x
         /\ r # n => \A q \in Correct : BCast(q, r, id, x) \in signed
<1>1. CASE r = n
  BY <1>1 DEF Messages, Own
<1>2. CASE r # n
  <2>1. PICK d \in delivered : d.requester = r /\ d.message_id = id /\ d.message = x
    BY <1>2 DEF Messages, Bundle
  <2>2. \A q \in Correct : BCast(q, r, id, x) \in signed
    BY <2>1 DEF BcastInv, DeliveredSigned
  <2> QED
    BY <1>2, <2>2, BCastFields
<1> QED
  BY <1>1, <1>2

(* Reliable broadcast sees to that *)
LEMMA OneMessageEach ==
  BcastInv => OneMessage
<1> SUFFICES ASSUME BcastInv, NEW m \in Correct, NEW n \in Correct, NEW r, NEW id,
                    NEW x \in Messages(m, r, id), NEW y \in Messages(n, r, id)
             PROVE  x = y
  BY DEF OneMessage
<1>1. CASE r # m
  <2>1. BCast(n, r, id, x) \in signed
    BY <1>1, MessageSigned
  <2>2. PICK s \in signed : /\ s.peer = n /\ s.requester = r
                            /\ s.message_id = id /\ s.message = y
    BY MessageSigned
  <2> QED
    BY <2>1, <2>2, BCastFields DEF BcastInv, SignedOnce, SameSlot
<1>2. CASE r = m
  <2>1. PICK s \in signed : /\ s.peer = m /\ s.requester = r
                            /\ s.message_id = id /\ s.message = x
    BY MessageSigned
  <2>2. PICK t \in signed : /\ t.peer = m /\ t.requester = r
                            /\ t.message_id = id /\ t.message = y
    <3>1. CASE n = m
      BY <3>1, MessageSigned
    <3>2. CASE n # m
      <4>1. BCast(m, r, id, y) \in signed
        BY <1>2, <3>2, MessageSigned
      <4> QED
        BY <4>1, BCastFields
    <3> QED
      BY <3>1, <3>2
  <2> QED
    BY <2>1, <2>2 DEF BcastInv, SignedOnce, SameSlot
<1> QED
  BY <1>1, <1>2

(* The steps of a node that change more than the messages there are *)
Quiet == UNCHANGED <<peers, plan, step, dkg_vars, lock_vars>>

(* The steps that do change more *)
Works(n) ==
  \/ Connect(n) \/ FrostRound1(n) \/ FrostRound2(n) \/ FrostFinish(n)
  \/ Deal(n) \/ Reshare(n)
  \/ UpdateLock(n) \/ AggregateLock(n) \/ FinishNodeSignatures(n)
  \/ WriteArtifacts(n) \/ Noop(n) \/ Load(n)

(* There are no other steps *)
LEMMA StepKinds ==
  ASSUME [Next]_vars
  PROVE  Quiet \/ \E n \in Node : Works(n)
<1>1. CASE UNCHANGED vars
  BY <1>1 DEF vars, Quiet, dkg_vars, lock_vars
<1>2. CASE Next
  <2> PICK n \in Node :
    \/ Connect(n) \/ FrostRound1(n) \/ FrostRound2(n) \/ FrostFinish(n)
    \/ Deal(n) \/ Reshare(n)
    \/ UpdateLock(n) \/ AggregateLock(n)
    \/ UpdateNodeSignatures(n) \/ IgnoreNodeSignatures(n) \/ FinishNodeSignatures(n)
    \/ WriteArtifacts(n) \/ Noop(n) \/ Load(n)
    \/ ReceiveSent(n)
    \/ \E r \in Node : \E id \in MessageId : ReceiveBroadcast(n, r, id) \/ FaultySign(n, r, id)
    \/ \E r \in Node : \E type \in {"round1/p2p", "sigLock"} : FaultyReceive(n, r, type)
    BY <1>2 DEF Next
  <2>1. CASE UpdateNodeSignatures(n) \/ IgnoreNodeSignatures(n)
    BY <2>1 DEF UpdateNodeSignatures, IgnoreNodeSignatures, Quiet
  <2>2. CASE ReceiveSent(n)
    BY <2>2 DEF ReceiveSent, Receive, Quiet
  <2>3. ASSUME NEW r \in Node, NEW id \in MessageId,
               ReceiveBroadcast(n, r, id) \/ FaultySign(n, r, id)
        PROVE  Quiet
    BY <2>3 DEF ReceiveBroadcast, FaultySign, Quiet
  <2>4. ASSUME NEW r \in Node, NEW type \in {"round1/p2p", "sigLock"}, FaultyReceive(n, r, type)
        PROVE  Quiet
    BY <2>4 DEF FaultyReceive, Receive, Quiet
  <2> QED
    BY <2>1, <2>2, <2>3, <2>4 DEF Works
<1> QED
  BY <1>1, <1>2

(* A ceremony is fixed when it starts *)
LEMMA PlanStays ==
  ASSUME [Next]_vars
  PROVE  UNCHANGED <<peers, plan>>
<1>1. CASE Quiet
  BY <1>1 DEF Quiet
<1>2. ASSUME NEW n \in Node, Works(n)
      PROVE  UNCHANGED <<peers, plan>>
  <2>1. CASE Connect(n) \/ Deal(n) \/ WriteArtifacts(n) \/ Noop(n) \/ Load(n)
    BY <2>1 DEF Connect, Deal, WriteArtifacts, Noop, Load
  <2>2. CASE FrostRound1(n) \/ FrostRound2(n) \/ FrostFinish(n)
    BY <2>2 DEF FrostRound1, FrostRound2, FrostFinish
  <2>3. CASE Reshare(n) \/ UpdateLock(n) \/ AggregateLock(n) \/ FinishNodeSignatures(n)
    BY <2>3 DEF Reshare, UpdateLock, AggregateLock, FinishNodeSignatures
  <2> QED
    BY <1>2, <2>1, <2>2, <2>3 DEF Works
<1> QED
  BY <1>1, <1>2, StepKinds

(* What is signed and delivered stays *)
Growth ==
  /\ signed \subseteq signed' /\ delivered \subseteq delivered'
  /\ UNCHANGED <<peers, plan>>
  /\ OneMessage'

(* A ceremony is a reliable broadcast, in which nothing is taken back *)
LEMMA CeremonyGrows ==
  ASSUME BcastInv, [Next]_vars
  PROVE  BcastInv' /\ Growth
<1>1. [BcastNext]_<<peers, bcast_vars>>
  BY CeremonyBcastStep
<1>2. BcastInv'
  BY <1>1, BcastStep
<1>3. OneMessage'
  BY <1>2, OneMessageEach, PTL
<1>4. signed \subseteq signed' /\ delivered \subseteq delivered' /\ UNCHANGED peers
  BY <1>1 DEF BcastNext, bcast_vars, Request, Sign, Deliver
<1>5. UNCHANGED plan
  BY PlanStays
<1> QED
  BY <1>2, <1>3, <1>4, <1>5 DEF Growth

(* Messages stay *)
LEMMA MessagesStay ==
  ASSUME Growth, NEW n, NEW r, NEW id
  PROVE  Messages(n, r, id) \subseteq Messages(n, r, id)'
  BY DEF Growth, Messages, Own, Bundle

(* Once a node has the casts of a peer, it has them for good, and they are those that every
   other correct node has *)
LEMMA Round1CastsAreMessages ==
  ASSUME NEW n, NEW r
  PROVE  Round1Casts(n, r) \subseteq Messages(n, r, "round1/cast")
  BY DEF Round1Casts, Messages

(* The same of round 2 *)
LEMMA Round2CastsAreMessages ==
  ASSUME NEW n, NEW r
  PROVE  Round2Casts(n, r) \subseteq Messages(n, r, "round2/cast")
  BY DEF Round2Casts, Messages

(* Two nodes that have casts of a peer have the same ones *)
LEMMA CastsSame ==
  ASSUME OneMessage, NEW m \in Correct, NEW n \in Correct, NEW r
  PROVE  /\ (Round1Casts(m, r) # {} /\ Round1Casts(n, r) # {})
               => Round1Casts(m, r) = Round1Casts(n, r)
         /\ (Round2Casts(m, r) # {} /\ Round2Casts(n, r) # {})
               => Round2Casts(m, r) = Round2Casts(n, r)
<1>1. ASSUME Round1Casts(m, r) # {}, Round1Casts(n, r) # {}
      PROVE  Round1Casts(m, r) = Round1Casts(n, r)
  <2>1. \A x \in Round1Casts(m, r), y \in Round1Casts(n, r) : x = y
    BY Round1CastsAreMessages DEF OneMessage
  <2> QED
    BY <1>1, <2>1
<1>2. ASSUME Round2Casts(m, r) # {}, Round2Casts(n, r) # {}
      PROVE  Round2Casts(m, r) = Round2Casts(n, r)
  <2>1. \A x \in Round2Casts(m, r), y \in Round2Casts(n, r) : x = y
    BY Round2CastsAreMessages DEF OneMessage
  <2> QED
    BY <1>2, <2>1
<1> QED
  BY <1>1, <1>2

(* What is accepted once is accepted for good: the checks depend on the plan only *)
LEMMA CastsGrow ==
  ASSUME Growth, NEW n, NEW r
  PROVE  /\ Round1Casts(n, r) \subseteq Round1Casts(n, r)'
         /\ Round2Casts(n, r) \subseteq Round2Casts(n, r)'
  BY DEF Growth, Round1Casts, Round2Casts, Own, Bundle, share_idx_by_peer

(* And nothing is added to it *)
LEMMA CastsStay ==
  ASSUME Growth, NEW n \in Correct, NEW r
  PROVE  /\ Round1Casts(n, r) # {} => Round1Casts(n, r)' = Round1Casts(n, r)
         /\ Round2Casts(n, r) # {} => Round2Casts(n, r)' = Round2Casts(n, r)
<1>0. n \in Correct'
  BY DEF Growth, Correct
<1>1. \A x, y \in Round1Casts(n, r)' : x = y
  <2>1. Round1Casts(n, r)' \subseteq Messages(n, r, "round1/cast")'
    BY DEF Round1Casts, Messages
  <2> QED
    BY <1>0, <2>1 DEF Growth, OneMessage
<1>2. \A x, y \in Round2Casts(n, r)' : x = y
  <2>1. Round2Casts(n, r)' \subseteq Messages(n, r, "round2/cast")'
    BY DEF Round2Casts, Messages
  <2> QED
    BY <1>0, <2>1 DEF Growth, OneMessage
<1> QED
  BY <1>1, <1>2, CastsGrow

-----------------------------------------------------------------------------
(* What is fixed when a ceremony starts *)
PlanShape ==
  /\ plan.participants \in Seq(Node)
  /\ plan.operators \in Seq(Node)
  /\ plan.num_validators \in Nat
  /\ peers = Operators(plan.participants)
  /\ plan.kind = "keygen" => plan.operators = plan.participants

(* Every node has its state *)
PerNode ==
  /\ DOMAIN progress = Node /\ DOMAIN received = Node /\ DOMAIN keys = Node
  /\ DOMAIN lock = Node /\ DOMAIN written = Node /\ DOMAIN loaded = Node

(* What a correct node has done, at which step *)
DkgStages ==
  \A n \in Correct :
    /\ progress[n] \in {"idle", "round1", "round2", "dealt", "done"}
    /\ progress[n] = "idle" => step[n] <= 1
    /\ progress[n] \in {"round1", "round2", "dealt"} => step[n] = 1
    /\ progress[n] \in {"round1", "round2"} => plan.kind = "keygen"
    /\ progress[n] = "dealt" => plan.kind # "keygen"
    /\ progress[n] = "done" => step[n] >= 2

(* Which locks there are, at which step *)
LockStages ==
  \A n \in Correct :
    /\ lock[n] # NoLock => step[n] >= 2 /\ Remains(n) /\ "validators" \in DOMAIN lock[n]
    /\ (step[n] >= 3 /\ Remains(n)) => lock[n] # NoLock
    /\ written[n] => step[n] >= 5 /\ Remains(n)
    /\ loaded[n] => written[n]

(* Every request that is no error makes such a plan *)
LEMMA PlanShapeInitial ==
  ASSUME Init
  PROVE  PlanShape
<1>1. PICK q \in CeremonyRequest : ValidRequest(q) /\ plan = Plan(q)
  BY DEF Init
<1>2. /\ plan.participants \in Seq(Node)
      /\ plan.operators \in Seq(Node)
      /\ plan.num_validators \in Nat
  BY <1>1, CeremonyAssumption
<1>3. plan.kind = "keygen" => plan.operators = plan.participants
  BY <1>1 DEF Plan
<1>4. peers = Operators(plan.participants)
  BY DEF Init
<1> QED
  BY <1>2, <1>3, <1>4 DEF PlanShape

(* It is never changed *)
LEMMA PlanShapeStays ==
  ASSUME PlanShape, UNCHANGED <<peers, plan>>
  PROVE  PlanShape'
  BY DEF PlanShape

(* Steps change the state of a node, never whether it has one *)
LEMMA PerNodeStep ==
  ASSUME PerNode, [Next]_vars
  PROVE  PerNode'
<1>1. DOMAIN received' = Node
  <2>1. UNCHANGED received \/ \E n, r, type, payload : Receive(n, r, type, payload)
    <3>1. CASE UNCHANGED vars
      BY <3>1 DEF vars
    <3>2. CASE Next
      BY <3>2 DEF Next, Connect, FrostRound1, FrostRound2, FrostFinish, Deal, Reshare,
        UpdateLock, AggregateLock, UpdateNodeSignatures, IgnoreNodeSignatures,
        FinishNodeSignatures, WriteArtifacts, Noop, Load, ReceiveSent, ReceiveBroadcast,
        FaultySign, FaultyReceive
    <3> QED
      BY <3>1, <3>2
  <2> QED
    BY <2>1 DEF PerNode, Receive
<1>2. CASE Quiet
  BY <1>1, <1>2 DEF Quiet, PerNode, dkg_vars, lock_vars
<1>3. ASSUME NEW n \in Node, Works(n)
      PROVE  PerNode'
  <2>1. CASE Connect(n) \/ Deal(n) \/ WriteArtifacts(n) \/ Noop(n) \/ Load(n)
    BY <1>1, <2>1 DEF PerNode, Connect, Deal, WriteArtifacts, Noop, Load, dkg_vars, lock_vars
  <2>2. CASE FrostRound1(n) \/ FrostRound2(n)
    BY <1>1, <2>2 DEF PerNode, FrostRound1, FrostRound2, lock_vars
  <2>3. CASE FrostFinish(n) \/ Reshare(n)
    BY <1>1, <2>3 DEF PerNode, FrostFinish, Reshare, lock_vars
  <2>4. CASE UpdateLock(n) \/ AggregateLock(n) \/ FinishNodeSignatures(n)
    BY <1>1, <2>4 DEF PerNode, UpdateLock, AggregateLock, FinishNodeSignatures, dkg_vars
  <2> QED
    BY <1>3, <2>1, <2>2, <2>3, <2>4 DEF Works
<1> QED
  BY <1>2, <1>3, StepKinds

(* Where the steps of a ceremony are *)
LEMMA WorkSteps ==
  ASSUME PlanShape, NEW n, NEW work, Working(n, work)
  PROVE  /\ n \in Correct
         /\ work = "frost" => step[n] = 1 /\ plan.kind = "keygen"
         /\ work = "reshare" => step[n] = 1 /\ plan.kind # "keygen"
         /\ work = "update_lock" => step[n] = 2 /\ Remains(n)
         /\ work = "update_node_signatures" => step[n] = 3 /\ Remains(n)
         /\ work = "ignore_node_signatures" => step[n] = 3 /\ ~Remains(n)
         /\ work = "write_artifacts" => step[n] = 4 /\ Remains(n)
         /\ work = "noop" => step[n] \in {2, 4} /\ ~Remains(n)
<1>1. n \in Correct /\ step[n] \in 1 .. 4 /\ Steps(n)[step[n]] = work
  BY DEF Working
<1>2. plan.kind = "keygen" => Remains(n)
  BY <1>1 DEF PlanShape, Remains, Correct
<1>3. step[n] = 1 \/ step[n] = 2 \/ step[n] = 3 \/ step[n] = 4
  BY <1>1
<1> QED
  BY <1>1, <1>2, <1>3 DEF Steps, edit_protocol_steps

(* A node that has done the work of its step goes to the next one, the others stay *)
LEMMA AdvanceByOne ==
  ASSUME SyncInv, NEW n, Advance(n)
  PROVE  /\ n \in Correct /\ step[n] \in Nat
         /\ \A m \in Correct : /\ step[m] \in Nat
                               /\ step'[m] = IF m = n THEN step[n] + 1 ELSE step[m]
BY DEF SyncInv, SyncType, Advance, Correct

(* Progress and steps go together: one action for each of them at most *)
LEMMA DkgStagesStep ==
  ASSUME SyncInv, PlanShape, PerNode, DkgStages, [Next]_vars
  PROVE  DkgStages'
<1>0. Correct' = Correct /\ UNCHANGED plan /\ Correct \subseteq Node
  BY PlanStays DEF Correct, SyncInv, SyncType
<1>1. CASE Quiet
  BY <1>1, <1>0 DEF Quiet, DkgStages, dkg_vars
<1>2. ASSUME NEW n \in Node, Works(n)
      PROVE  DkgStages'
  <2> SUFFICES ASSUME NEW m \in Correct
               PROVE  /\ progress'[m] \in {"idle", "round1", "round2", "dealt", "done"}
                      /\ progress'[m] = "idle" => step'[m] <= 1
                      /\ progress'[m] \in {"round1", "round2", "dealt"} => step'[m] = 1
                      /\ progress'[m] \in {"round1", "round2"} => plan.kind = "keygen"
                      /\ progress'[m] = "dealt" => plan.kind # "keygen"
                      /\ progress'[m] = "done" => step'[m] >= 2
    BY <1>0 DEF DkgStages
  <2>0. step[m] \in Nat
    BY <1>0 DEF SyncInv, SyncType
  <2>1. CASE Connect(n)
    <3>1. Advance(n) /\ step[n] \notin 1 .. 4 /\ UNCHANGED progress
      BY <2>1 DEF Connect, dkg_vars
    <3> QED
      BY <2>0, <3>1, AdvanceByOne DEF DkgStages
  <2>2. CASE FrostRound1(n)
    <3>1. /\ Working(n, "frost") /\ UNCHANGED step
          /\ progress' = [progress EXCEPT ![n] = "round1"]
      BY <2>2 DEF FrostRound1
    <3> QED
      BY <2>0, <3>1, WorkSteps DEF DkgStages, PerNode
  <2>3. CASE FrostRound2(n)
    <3>1. /\ plan.kind = "keygen" /\ progress[n] = "round1" /\ UNCHANGED step
          /\ progress' = [progress EXCEPT ![n] = "round2"]
      BY <2>3 DEF FrostRound2
    <3> QED
      BY <2>0, <3>1 DEF DkgStages, PerNode
  <2>4. CASE FrostFinish(n) \/ Reshare(n)
    <3>1. /\ progress[n] \in {"round2", "dealt"} /\ Advance(n)
          /\ progress' = [progress EXCEPT ![n] = "done"]
      BY <2>4 DEF FrostFinish, Reshare
    <3> QED
      BY <2>0, <3>1, AdvanceByOne DEF DkgStages, PerNode
  <2>5. CASE Deal(n)
    <3>1. /\ Working(n, "reshare") /\ UNCHANGED step
          /\ progress' = [progress EXCEPT ![n] = "dealt"]
      BY <2>5 DEF Deal
    <3> QED
      BY <2>0, <3>1, WorkSteps DEF DkgStages, PerNode
  <2>6. CASE UpdateLock(n) \/ Load(n)
    <3>1. UNCHANGED <<progress, step>>
      BY <2>6 DEF UpdateLock, Load, dkg_vars
    <3> QED
      BY <3>1 DEF DkgStages
  <2>7. CASE AggregateLock(n) \/ FinishNodeSignatures(n) \/ WriteArtifacts(n) \/ Noop(n)
    <3>1. /\ \E work \in {"update_lock", "update_node_signatures", "ignore_node_signatures",
                          "write_artifacts", "noop"} : Working(n, work)
          /\ Advance(n) /\ UNCHANGED progress
      BY <2>7 DEF AggregateLock, FinishNodeSignatures, WriteArtifacts, Noop, dkg_vars
    <3>2. step[n] >= 2
      BY <3>1, WorkSteps
    <3> QED
      BY <2>0, <3>1, <3>2, AdvanceByOne DEF DkgStages
  <2> QED
    BY <1>2, <2>1, <2>2, <2>3, <2>4, <2>5, <2>6, <2>7 DEF Works
<1> QED
  BY <1>1, <1>2, StepKinds

(* The lock a node makes is one *)
LEMMA LocksAreLocks ==
  ASSUME NEW operators, NEW threshold, NEW validators
  PROVE  "validators" \in DOMAIN Lock(operators, threshold, validators)
BY DEF Lock

(* Those who remain have a lock when they leave their second step, and only they *)
LEMMA LockStagesStep ==
  ASSUME SyncInv, PlanShape, PerNode, DkgStages, LockStages, [Next]_vars
  PROVE  LockStages'
<1>0. Correct' = Correct /\ UNCHANGED plan /\ Correct \subseteq Node
  BY PlanStays DEF Correct, SyncInv, SyncType
<1> DEFINE Stage(m) ==
      /\ lock[m] # NoLock => step[m] >= 2 /\ Remains(m) /\ "validators" \in DOMAIN lock[m]
      /\ (step[m] >= 3 /\ Remains(m)) => lock[m] # NoLock
      /\ written[m] => step[m] >= 5 /\ Remains(m)
      /\ loaded[m] => written[m]
<1>1. ASSUME NEW m \in Correct
      PROVE  Stage(m) /\ step[m] \in Nat
  BY <1>0, <1>1 DEF LockStages, SyncInv, SyncType
<1>2. SUFFICES ASSUME NEW m \in Correct
               PROVE  Stage(m)'
  BY <1>0 DEF LockStages
<1>3. Remains(m)' <=> Remains(m)
  BY <1>0 DEF Remains
<1>n. "validators" \notin DOMAIN NoLock
  BY DEF NoLock
<1>4. CASE Quiet
  BY <1>1, <1>3, <1>4 DEF Quiet, lock_vars
<1>5. ASSUME NEW n \in Node, Works(n)
      PROVE  Stage(m)'
  <2>1. CASE Connect(n)
    <3>1. Advance(n) /\ step[n] \notin 1 .. 4 /\ UNCHANGED lock_vars
      BY <2>1 DEF Connect
    <3>2. step[n] \in Nat /\ step'[m] = (IF m = n THEN step[n] + 1 ELSE step[m])
      BY <3>1, AdvanceByOne
    <3> QED
      BY <1>1, <1>3, <3>1, <3>2 DEF lock_vars
  <2>2. CASE FrostRound1(n) \/ FrostRound2(n) \/ Deal(n)
    <3>1. UNCHANGED <<step, lock_vars>>
      BY <2>2 DEF FrostRound1, FrostRound2, Deal
    <3> QED
      BY <1>1, <1>3, <3>1 DEF lock_vars
  <2>3. CASE FrostFinish(n) \/ Reshare(n)
    <3>1. progress[n] \in {"round2", "dealt"} /\ Advance(n) /\ UNCHANGED lock_vars
      BY <2>3 DEF FrostFinish, Reshare
    <3>2. n \in Correct /\ step'[m] = (IF m = n THEN step[n] + 1 ELSE step[m])
      BY <3>1, AdvanceByOne
    <3>3. step[n] = 1
      BY <3>1, <3>2 DEF DkgStages
    <3> QED
      BY <1>1, <1>3, <3>1, <3>2, <3>3 DEF lock_vars
  <2>4. CASE UpdateLock(n)
    <3>1. /\ Working(n, "update_lock") /\ UNCHANGED <<step, written, loaded>>
          /\ \E made : lock' = [lock EXCEPT ![n] = made] /\ "validators" \in DOMAIN made
      BY <2>4, LocksAreLocks DEF UpdateLock
    <3>2. step[n] = 2 /\ Remains(n)
      BY <3>1, WorkSteps
    <3> QED
      BY <1>1, <1>3, <1>n, <3>1, <3>2 DEF PerNode
  <2>5. CASE AggregateLock(n)
    <3>1. /\ Working(n, "update_lock") /\ Advance(n) /\ UNCHANGED <<written, loaded>>
          /\ lock[n] # NoLock
          /\ \E sigs : lock' = [lock EXCEPT ![n] = [lock[n] EXCEPT !.signature_aggregate = sigs]]
      BY <2>5 DEF AggregateLock
    <3>2. step[n] = 2 /\ Remains(n)
      BY <3>1, WorkSteps
    <3>3. n \in Correct /\ step'[m] = (IF m = n THEN step[n] + 1 ELSE step[m])
      BY <3>1, AdvanceByOne
    <3>4. PICK sigs : lock' = [lock EXCEPT ![n] = [lock[n] EXCEPT !.signature_aggregate = sigs]]
      BY <3>1
    <3>5. "validators" \in DOMAIN [lock[n] EXCEPT !.signature_aggregate = sigs]
      BY <1>1, <3>1, <3>3 DEF LockStages
    <3>6. lock'[m] = IF m = n THEN [lock[n] EXCEPT !.signature_aggregate = sigs] ELSE lock[m]
      BY <1>0, <3>4 DEF PerNode
    <3> QED
      BY <1>1, <1>3, <1>n, <3>1, <3>2, <3>3, <3>5, <3>6
  <2>6. CASE FinishNodeSignatures(n)
    <3>1. /\ Working(n, "update_node_signatures") \/ Working(n, "ignore_node_signatures")
          /\ Advance(n) /\ UNCHANGED <<written, loaded>>
          /\ \/ UNCHANGED lock
             \/ /\ lock[n] # NoLock
                /\ \E sigs :
                     lock' = [lock EXCEPT ![n] = [lock[n] EXCEPT !.node_signatures = sigs]]
      BY <2>6 DEF FinishNodeSignatures
    <3>2. step[n] = 3
      BY <3>1, WorkSteps
    <3>3. n \in Correct /\ step'[m] = (IF m = n THEN step[n] + 1 ELSE step[m])
      BY <3>1, AdvanceByOne
    <3>4. CASE UNCHANGED lock
      BY <1>1, <1>3, <3>1, <3>2, <3>3, <3>4
    <3>5. ASSUME NEW sigs, lock[n] # NoLock,
                 lock' = [lock EXCEPT ![n] = [lock[n] EXCEPT !.node_signatures = sigs]]
          PROVE  Stage(m)'
      <4>1. "validators" \in DOMAIN [lock[n] EXCEPT !.node_signatures = sigs]
        BY <1>1, <3>3, <3>5 DEF LockStages
      <4>2. lock'[m] = IF m = n THEN [lock[n] EXCEPT !.node_signatures = sigs] ELSE lock[m]
        BY <1>0, <3>5 DEF PerNode
      <4> QED
        BY <1>1, <1>3, <1>n, <3>1, <3>2, <3>3, <3>5, <4>1, <4>2
    <3> QED
      BY <3>1, <3>4, <3>5
  <2>7. CASE WriteArtifacts(n)
    <3>1. /\ Working(n, "write_artifacts") /\ Advance(n) /\ UNCHANGED <<lock, loaded>>
          /\ written' = [written EXCEPT ![n] = TRUE]
      BY <2>7 DEF WriteArtifacts
    <3>2. step[n] = 4 /\ Remains(n)
      BY <3>1, WorkSteps
    <3>3. n \in Correct /\ step'[m] = (IF m = n THEN step[n] + 1 ELSE step[m])
      BY <3>1, AdvanceByOne
    <3>4. IF m = n THEN written'[m] ELSE written'[m] = written[m]
      BY <1>0, <3>1 DEF PerNode
    <3> QED
      BY <1>1, <1>3, <3>1, <3>2, <3>3, <3>4
  <2>8. CASE Noop(n)
    <3>1. Working(n, "noop") /\ Advance(n) /\ UNCHANGED lock_vars
      BY <2>8 DEF Noop
    <3>2. step[n] \in {2, 4} /\ ~Remains(n)
      BY <3>1, WorkSteps
    <3>3. n \in Correct /\ step'[m] = (IF m = n THEN step[n] + 1 ELSE step[m])
      BY <3>1, AdvanceByOne
    <3> QED
      BY <1>1, <1>3, <3>1, <3>2, <3>3 DEF lock_vars
  <2>9. CASE Load(n)
    <3>1. /\ written[n] /\ UNCHANGED <<step, lock, written>>
          /\ loaded' = [loaded EXCEPT ![n] = TRUE]
      BY <2>9 DEF Load
    <3> QED
      BY <1>1, <1>3, <3>1 DEF PerNode
  <2> QED
    BY <1>5, <2>1, <2>2, <2>3, <2>4, <2>5, <2>6, <2>7, <2>8, <2>9 DEF Works
<1> QED
  BY <1>4, <1>5, StepKinds

-----------------------------------------------------------------------------
(* No operator takes part twice *)
NobodyTwice ==
  \A i, j \in 1 .. NumPeers : plan.participants[i] = plan.participants[j] => i = j

(* Both rounds of key generation, at the end of each *)
Round1Heard(n) == \A r \in peers : Round1Casts(n, r) # {}
(* Everyone's casts of round 2 have come *)
Round2Heard(n) == \A r \in peers : Round2Casts(n, r) # {}

(* The share of validator v that n makes of what it has heard *)
OwnShare(n, v) == ShareOf(GroupKey(n, v), 0, share_idx_by_peer(n))

(* All of them *)
OwnShares(n) == [v \in Validators |-> OwnShare(n, v)]

(* The bundle in which n broadcasts these *)
Round2Message(n) == FrostRound2Casts(share_idx_by_peer(n), OwnShares(n))

(* Nobody goes on before it has heard everyone *)
RoundsHeard ==
  \A n \in Correct : plan.kind = "keygen" =>
    /\ progress[n] \in {"round2", "done"} => Round1Heard(n) /\ NobodyTwice
    /\ progress[n] = "done" => Round2Heard(n)

(* What is broadcast in round 2: by a correct node its shares of what it has heard, by anyone
   shares of one version *)
CorrectRound2 ==
  \A s \in signed :
    (s.requester \in Correct /\ s.message_id = "round2/cast") =>
      /\ plan.kind = "keygen" /\ progress[s.requester] \in {"round2", "done"}
      /\ s.message = Round2Message(s.requester)

(* With as many peers heard from as there are participants, all are, and none is listed twice *)
LEMMA AllHeard ==
  ASSUME PlanShape, NEW heard \in SUBSET peers, Cardinality(heard) = NumPeers
  PROVE  heard = peers /\ NobodyTwice
<1> DEFINE p == [i \in 1 .. NumPeers |-> plan.participants[i]]
<1>1. NumPeers \in Nat /\ DOMAIN plan.participants = 1 .. NumPeers
  BY DEF PlanShape, NumPeers
<1>2. p \in Surjection(1 .. NumPeers, peers)
  BY <1>1 DEF PlanShape, Operators, Surjection
<1>3. IsFiniteSet(1 .. NumPeers) /\ Cardinality(1 .. NumPeers) = NumPeers
  BY <1>1, FS_Interval
<1>4. /\ IsFiniteSet(peers) /\ Cardinality(peers) <= NumPeers
      /\ Cardinality(peers) = NumPeers => p \in Injection(1 .. NumPeers, peers)
  BY <1>2, <1>3, FS_Surjection
<1>5. /\ Cardinality(heard) <= Cardinality(peers)
      /\ Cardinality(peers) = Cardinality(heard) => peers = heard
  BY <1>4, FS_Subset
<1>6. Cardinality(peers) \in Nat
  BY <1>4, FS_CardinalityType
<1>7. Cardinality(peers) = NumPeers
  BY <1>1, <1>4, <1>5, <1>6
<1>8. NobodyTwice
  BY <1>4, <1>7 DEF Injection, IsInjective, NobodyTwice
<1> QED
  BY <1>5, <1>7, <1>8

(* What a peer has committed to for a validator *)
Committed(casts, v) == The(EntryFor(The(casts), v)).commitments[1]

(* The group key is fixed with the last bundle of round 1 *)
LEMMA GroupKeyStays ==
  ASSUME PlanShape, Growth, NEW n \in Correct, Round1Heard(n), NEW v
  PROVE  GroupKey(n, v)' = GroupKey(n, v)
<1>1. \A i \in 1 .. NumPeers :
        Round1Casts(n, plan.participants[i])' = Round1Casts(n, plan.participants[i])
  <2>1. \A i \in 1 .. NumPeers : plan.participants[i] \in peers
    BY DEF PlanShape, NumPeers, Operators
  <2>2. \A r \in peers : Round1Casts(n, r)' = Round1Casts(n, r)
    BY CastsStay DEF Round1Heard
  <2>3. UNCHANGED plan
    BY DEF Growth
  <2> QED
    BY <2>1, <2>2, <2>3
<1>2. GroupKey(n, v) = <<v, [i \in 1 .. NumPeers |->
                             Committed(Round1Casts(n, plan.participants[i]), v)]>>
  BY DEF GroupKey, Committed
<1>3. GroupKey(n, v)' = <<v, [i \in 1 .. NumPeers |->
                              Committed(Round1Casts(n, plan.participants[i])', v)]>>
  BY DEF GroupKey, Committed, Growth, NumPeers
<1> QED
  BY <1>1, <1>2, <1>3

(* It is the same for all nodes that have heard everyone *)
LEMMA GroupKeySame ==
  ASSUME PlanShape, OneMessage, NEW m \in Correct, NEW n \in Correct,
         Round1Heard(m), Round1Heard(n), NEW v
  PROVE  GroupKey(m, v) = GroupKey(n, v)
<1>1. \A i \in 1 .. NumPeers :
        Round1Casts(m, plan.participants[i]) = Round1Casts(n, plan.participants[i])
  <2>1. \A i \in 1 .. NumPeers : plan.participants[i] \in peers
    BY DEF PlanShape, NumPeers, Operators
  <2> QED
    BY <2>1, CastsSame DEF Round1Heard
<1>2. /\ GroupKey(m, v) = <<v, [i \in 1 .. NumPeers |->
                             Committed(Round1Casts(m, plan.participants[i]), v)]>>
      /\ GroupKey(n, v) = <<v, [i \in 1 .. NumPeers |->
                             Committed(Round1Casts(n, plan.participants[i]), v)]>>
  BY DEF GroupKey, Committed
<1> QED
  BY <1>1, <1>2

(* And so are the shares *)
LEMMA OwnSharesStay ==
  ASSUME PlanShape, Growth, NEW n \in Correct, Round1Heard(n)
  PROVE  OwnShares(n)' = OwnShares(n) /\ Round2Message(n)' = Round2Message(n)
<1>1. UNCHANGED plan
  BY DEF Growth
<1>2. share_idx_by_peer(n)' = share_idx_by_peer(n) /\ Validators' = Validators
  BY <1>1 DEF share_idx_by_peer, Validators
<1>3. \A v : OwnShare(n, v)' = OwnShare(n, v)
  <2> SUFFICES ASSUME NEW v
               PROVE  OwnShare(n, v)' = OwnShare(n, v)
    OBVIOUS
  <2> QED
    BY <1>2, GroupKeyStays DEF OwnShare
<1>4. OwnShares(n)' = OwnShares(n)
  BY <1>2, <1>3 DEF OwnShares
<1> QED
  BY <1>2, <1>4 DEF Round2Message

(* Where messages come from *)
LEMMA SignedBy ==
  ASSUME NEW r, NEW id, NEW m, Request(r, id, m), NEW s \in signed', s \notin signed
  PROVE  s.requester = r /\ s.message_id = id /\ s.message = m
BY BCastFields DEF Request

(* Where a broadcast comes from: FROST, the node signatures, or a faulty peer *)
LEMMA MessageSources ==
  ASSUME [Next]_vars, NEW s \in signed', s \notin signed
  PROVE  \/ s.message_id \in {"round1/cast", "node_sig"} /\ s.requester \in Correct
         \/ \E n \in Node : /\ FrostRound2(n) /\ n \in Correct /\ s.requester = n
                            /\ s.message_id = "round2/cast" /\ s.message = Round2Message(n)
         \/ s.requester \in Faulty /\ s.message \in FaultyMessages(s.requester, s.message_id)
<1>1. Next
  BY DEF vars
<1> PICK n \in Node :
    \/ Connect(n) \/ FrostRound1(n) \/ FrostRound2(n) \/ FrostFinish(n)
    \/ Deal(n) \/ Reshare(n)
    \/ UpdateLock(n) \/ AggregateLock(n)
    \/ UpdateNodeSignatures(n) \/ IgnoreNodeSignatures(n) \/ FinishNodeSignatures(n)
    \/ WriteArtifacts(n) \/ Noop(n) \/ Load(n)
    \/ ReceiveSent(n)
    \/ \E r \in Node : \E id \in MessageId : ReceiveBroadcast(n, r, id) \/ FaultySign(n, r, id)
    \/ \E r \in Node : \E type \in {"round1/p2p", "sigLock"} : FaultyReceive(n, r, type)
  BY <1>1 DEF Next
<1>2. CASE FrostRound1(n)
  <2>1. \E m : Request(n, "round1/cast", m)
    BY <1>2 DEF FrostRound1
  <2> QED
    BY <2>1, SignedBy DEF Request
<1>3. CASE UpdateNodeSignatures(n) \/ IgnoreNodeSignatures(n)
  <2>1. \E m : Request(n, "node_sig", m)
    BY <1>3 DEF UpdateNodeSignatures, IgnoreNodeSignatures
  <2> QED
    BY <2>1, SignedBy DEF Request
<1>4. CASE FrostRound2(n)
  <2>1. Request(n, "round2/cast", Round2Message(n))
    BY <1>4 DEF FrostRound2, Round2Message, OwnShares, OwnShare
  <2> QED
    BY <1>4, <2>1, SignedBy DEF Request
<1>5. ASSUME NEW r \in Node, NEW id \in MessageId, FaultySign(n, r, id)
      PROVE  s.requester \in Faulty /\ s.message \in FaultyMessages(s.requester, s.message_id)
  <2>1. PICK m \in FaultyMessages(r, id) : Sign(n, r, id, m)
    BY <1>5 DEF FaultySign
  <2>2. s = BCast(n, r, id, m) /\ r \in Faulty
    BY <2>1 DEF Sign
  <2> QED
    BY <2>1, <2>2, BCastFields
<1>6. ASSUME NEW r \in Node, NEW id \in MessageId, ReceiveBroadcast(n, r, id)
      PROVE  FALSE
  BY <1>6 DEF ReceiveBroadcast, Deliver
<1>7. CASE Connect(n) \/ FrostFinish(n) \/ Deal(n) \/ Reshare(n) \/ AggregateLock(n)
           \/ FinishNodeSignatures(n) \/ WriteArtifacts(n) \/ Noop(n)
  BY <1>7 DEF Connect, FrostFinish, Deal, Reshare, AggregateLock, FinishNodeSignatures,
              WriteArtifacts, Noop, bcast_vars
<1>8. CASE UpdateLock(n) \/ Load(n)
  BY <1>8 DEF UpdateLock, Load, bcast_vars
<1>9. CASE ReceiveSent(n)
  BY <1>9 DEF ReceiveSent, Receive, bcast_vars
<1>10. ASSUME NEW r \in Node, NEW type \in {"round1/p2p", "sigLock"}, FaultyReceive(n, r, type)
       PROVE  FALSE
  BY <1>10 DEF FaultyReceive, Receive, bcast_vars
<1> QED
  BY <1>2, <1>3, <1>4, <1>5, <1>6, <1>7, <1>8, <1>9, <1>10

(* A node goes on with its DKG, and never back *)
GoesOn(m) ==
  \/ progress'[m] = progress[m] /\ keys'[m] = keys[m]
  \/ /\ progress[m] = "idle" /\ progress'[m] \in {"round1", "dealt"}
     /\ keys'[m] = keys[m]
  \/ FrostRound2(m) /\ progress'[m] = "round2" /\ keys'[m] = keys[m]
  \/ FrostFinish(m) /\ progress'[m] = "done"
  \/ Reshare(m) /\ progress'[m] = "done"

(* Every step does one of these *)
LEMMA ProgressStep ==
  ASSUME PerNode, DkgStages, [Next]_vars, NEW m \in Correct, m \in Node
  PROVE  GoesOn(m)
<1>1. CASE Quiet
  BY <1>1 DEF Quiet, dkg_vars, GoesOn
<1>2. ASSUME NEW n \in Node, Works(n)
      PROVE  GoesOn(m)
  <2>1. CASE Connect(n) \/ WriteArtifacts(n) \/ Noop(n) \/ Load(n)
             \/ UpdateLock(n) \/ AggregateLock(n) \/ FinishNodeSignatures(n)
    <3>1. UNCHANGED <<progress, keys>>
      BY <2>1 DEF Connect, WriteArtifacts, Noop, Load, UpdateLock, AggregateLock,
        FinishNodeSignatures, dkg_vars
    <3> QED
      BY <3>1 DEF GoesOn
  <2>2. CASE FrostRound1(n) \/ Deal(n)
    <3>1. /\ progress[n] = "idle" /\ UNCHANGED keys
          /\ \E p \in {"round1", "dealt"} : progress' = [progress EXCEPT ![n] = p]
      BY <2>2 DEF FrostRound1, Deal
    <3> QED
      BY <3>1 DEF PerNode, GoesOn
  <2>3. CASE FrostRound2(n)
    <3>1. progress' = [progress EXCEPT ![n] = "round2"] /\ UNCHANGED keys
      BY <2>3 DEF FrostRound2
    <3> QED
      BY <2>3, <3>1 DEF PerNode, GoesOn
  <2>4. CASE FrostFinish(n)
    <3>1. /\ progress' = [progress EXCEPT ![n] = "done"] /\ progress[n] = "round2"
          /\ \E k : keys' = [keys EXCEPT ![n] = k]
      BY <2>4 DEF FrostFinish
    <3> QED
      BY <2>4, <3>1 DEF PerNode, GoesOn
  <2>5. CASE Reshare(n)
    <3>1. /\ progress' = [progress EXCEPT ![n] = "done"] /\ progress[n] = "dealt"
          /\ \E k : keys' = [keys EXCEPT ![n] = k]
      BY <2>5 DEF Reshare
    <3> QED
      BY <2>5, <3>1 DEF PerNode, GoesOn
  <2> QED
    BY <1>2, <2>1, <2>2, <2>3, <2>4, <2>5 DEF Works
<1> QED
  BY <1>1, <1>2, StepKinds

(* The guards of round 2 and of the end count the bundles, of as many peers as take part *)
LEMMA RoundsHeardStep ==
  ASSUME SyncInv, PlanShape, PerNode, DkgStages, RoundsHeard, Growth, [Next]_vars
  PROVE  RoundsHeard'
<1>0. Correct' = Correct /\ UNCHANGED <<peers, plan>> /\ Correct \subseteq Node
  BY DEF Growth, Correct, SyncInv, SyncType
<1> SUFFICES ASSUME NEW n \in Correct, plan.kind = "keygen"
             PROVE  /\ progress'[n] \in {"round2", "done"} => (Round1Heard(n) /\ NobodyTwice)'
                    /\ progress'[n] = "done" => Round2Heard(n)'
  BY <1>0 DEF RoundsHeard
<1>1. Round1Heard(n) => Round1Heard(n)'
  BY <1>0, CastsGrow DEF Round1Heard
<1>2. Round2Heard(n) => Round2Heard(n)'
  BY <1>0, CastsGrow DEF Round2Heard
<1>3. NobodyTwice' <=> NobodyTwice
  BY <1>0 DEF NobodyTwice, NumPeers
<1>4. CASE FrostRound2(n) /\ progress'[n] = "round2"
  <2> DEFINE heard == {r \in peers : Round1Casts(n, r) # {}}
  <2>1. Cardinality(heard) = NumPeers
    BY <1>4 DEF FrostRound2, round1_complete, HeardFrom
  <2>2. heard = peers /\ NobodyTwice
    BY <2>1, AllHeard
  <2> QED
    BY <1>1, <1>3, <1>4, <2>2 DEF Round1Heard
<1>5. CASE FrostFinish(n) /\ progress'[n] = "done"
  <2> DEFINE heard == {r \in peers : Round2Casts(n, r) # {}}
  <2>1. Cardinality(heard) = NumPeers /\ progress[n] = "round2"
    BY <1>5 DEF FrostFinish, round2_complete, HeardFrom
  <2>2. heard = peers
    BY <2>1, AllHeard
  <2>3. Round2Heard(n)
    BY <2>2 DEF Round2Heard
  <2> QED
    BY <1>1, <1>2, <1>3, <2>1, <2>3 DEF RoundsHeard
<1>6. CASE Reshare(n)
  <2>1. progress[n] = "dealt"
    BY <1>6 DEF Reshare
  <2> QED
    BY <2>1 DEF DkgStages
<1>7. CASE progress'[n] = progress[n] \/ progress'[n] \in {"round1", "dealt"}
  BY <1>1, <1>2, <1>3, <1>7 DEF RoundsHeard
<1> QED
  BY <1>0, <1>4, <1>5, <1>6, <1>7, ProgressStep DEF GoesOn

(* A correct node broadcasts its own shares, and what they are made of stays *)
LEMMA CorrectRound2Step ==
  ASSUME SyncInv, PlanShape, PerNode, DkgStages, RoundsHeard, CorrectRound2, Growth, [Next]_vars
  PROVE  CorrectRound2'
<1>0. Correct' = Correct /\ UNCHANGED <<peers, plan>> /\ Correct \subseteq Node
  BY DEF Growth, Correct, SyncInv, SyncType
<1> SUFFICES ASSUME NEW s \in signed', s.requester \in Correct, s.message_id = "round2/cast"
             PROVE  /\ plan.kind = "keygen" /\ progress'[s.requester] \in {"round2", "done"}
                    /\ s.message = Round2Message(s.requester)'
  BY <1>0 DEF CorrectRound2
<1>1. CASE s \in signed
  <2>1. /\ plan.kind = "keygen" /\ progress[s.requester] \in {"round2", "done"}
        /\ s.message = Round2Message(s.requester)
    BY <1>1 DEF CorrectRound2
  <2>2. Round2Message(s.requester)' = Round2Message(s.requester)
    BY <2>1, OwnSharesStay DEF RoundsHeard
  <2>3. progress'[s.requester] \in {"round2", "done"}
    BY <1>0, <2>1, ProgressStep DEF GoesOn
  <2> QED
    BY <2>1, <2>2, <2>3
<1>2. CASE s \notin signed
  <2>1. PICK n \in Node : /\ FrostRound2(n) /\ n \in Correct /\ s.requester = n
                          /\ s.message = Round2Message(n)
    BY <1>2, MessageSources DEF Correct
  <2>2. /\ plan.kind = "keygen" /\ progress'[n] = "round2"
        /\ round1_complete(Cardinality(HeardFrom(n, Round1Casts)),
             Cardinality({r \in peers : From(n, r, "round1/p2p") # {}}), NumPeers)
    BY <2>1 DEF FrostRound2, PerNode
  <2>3. Round1Heard(n)
    <3> DEFINE heard == {r \in peers : Round1Casts(n, r) # {}}
    <3>1. Cardinality(heard) = NumPeers
      BY <2>2 DEF round1_complete, HeardFrom
    <3> QED
      BY <3>1, AllHeard DEF Round1Heard
  <2>4. Round2Message(n)' = Round2Message(n)
    BY <2>1, <2>3, OwnSharesStay
  <2> QED
    BY <2>1, <2>2, <2>4
<1> QED
  BY <1>1, <1>2

(* A bundle of round 2: at most one cast for each validator, with some share of version 0 *)
Round2Shape(m) ==
  /\ DOMAIN m \subseteq Validators
  /\ \A v \in DOMAIN m :
       /\ m[v].key.val_idx = v - 1
       /\ \E k, x : m[v].vk_share = ShareOf(k, 0, x)

(* There are no others *)
Round2Shapes == \A s \in signed : s.message_id = "round2/cast" => Round2Shape(s.message)

(* The keys a node has when it is done *)
Round2Bundles(n) ==
  [i \in 1 .. NumPeers |->
    LET casts == Round2Casts(n, plan.participants[i])
    IN  IF casts = {} THEN <<>> ELSE The(casts)]

(* The keys that n assembles of them *)
KeygenKeys(n) ==
  assemble_validator_shares(Round2Bundles(n), [v \in Validators |-> GroupKey(n, v)], OwnShares(n))

(* The keys that n has after a reshare *)
ReshareKeys(n) ==
  IF ~Remains(n) THEN <<>>
  ELSE [v \in Validators |->
         [validator_pubkey |-> CurrentKey(v),
          secret_share |-> ShareOf(CurrentKey(v), 1, NewShareIndex(n)),
          public_shares |->
            [i \in {NewShareIndex(r) : r \in peers \cap Operators(plan.operators)} |->
              ShareOf(CurrentKey(v), 1, i)]]]

(* A node has the keys it made when it was done, as if it made them now *)
KeysKept ==
  \A n \in Correct :
    keys[n] = IF progress[n] # "done" THEN <<>>
              ELSE IF plan.kind = "keygen" THEN KeygenKeys(n) ELSE ReshareKeys(n)

(* The entries of a round 2 bundle *)
LEMMA Round2Entries ==
  ASSUME NEW count \in Nat, NEW id, NEW shares, shares = [v \in 1 .. count |-> shares[v]]
  PROVE  /\ DOMAIN FrostRound2Casts(id, shares) = 1 .. count
         /\ \A v \in 1 .. count :
              /\ FrostRound2Casts(id, shares)[v].key.val_idx = v - 1
              /\ FrostRound2Casts(id, shares)[v].key.source_id = id
              /\ FrostRound2Casts(id, shares)[v].vk_share = shares[v]
<1> DEFINE S == {shares[v] : v \in 1 .. count}
<1>1. shares \in [1 .. count -> S]
  OBVIOUS
<1>2. shares \in Seq(S) /\ Len(shares) = count
  BY <1>1
<1> QED
  BY <1>2 DEF FrostRound2Casts, FrostMsgKey

(* Shares of version 0 make such a bundle *)
LEMMA ShapeOfCasts ==
  ASSUME PlanShape, NEW id, NEW shares, shares = [v \in Validators |-> shares[v]],
         \A v \in Validators : \E k, x : shares[v] = ShareOf(k, 0, x)
  PROVE  Round2Shape(FrostRound2Casts(id, shares))
<1>1. plan.num_validators \in Nat /\ Validators = 1 .. plan.num_validators
  BY DEF PlanShape, Validators
<1> QED
  BY <1>1, Round2Entries DEF Round2Shape

(* A faulty peer has nothing else to send *)
LEMMA FaultyRound2 ==
  ASSUME PlanShape, NEW r, NEW m \in FaultyMessages(r, "round2/cast")
  PROVE  Round2Shape(m)
<1> DEFINE everyone(s) == [v \in Validators |-> s]
<1>1. PICK s \in FaultyShares(r) : m = <<>> \/ \E id : m = FrostRound2Casts(id, everyone(s))
  <2>1. BogusShare(r) \in FaultyShares(r)
    BY DEF FaultyShares
  <2>2. FaultyMessages(r, "round2/cast") =
          {<<>>, FrostRound2Casts(share_idx_by_peer(SomeCorrect), everyone(BogusShare(r)))} \cup
          {FrostRound2Casts(share_idx_by_peer(r), everyone(s)) : s \in FaultyShares(r)}
    BY DEF FaultyMessages
  <2>3. CASE m = <<>>
    BY <2>1, <2>3
  <2>4. CASE m = FrostRound2Casts(share_idx_by_peer(SomeCorrect), everyone(BogusShare(r)))
    BY <2>1, <2>4
  <2>5. CASE \E s \in FaultyShares(r) : m = FrostRound2Casts(share_idx_by_peer(r), everyone(s))
    BY <2>5
  <2> HIDE DEF everyone
  <2> QED
    BY <2>2, <2>3, <2>4, <2>5
<1>2. \E k, x : s = ShareOf(k, 0, x)
  BY DEF FaultyShares, BogusShare
<1>3. CASE m = <<>>
  BY <1>3 DEF Round2Shape
<1>4. ASSUME NEW id, m = FrostRound2Casts(id, everyone(s))
      PROVE  Round2Shape(m)
  <2>1. \A v \in Validators : everyone(s)[v] = s
    OBVIOUS
  <2>2. everyone(s) = [v \in Validators |-> everyone(s)[v]]
    BY <2>1
  <2> HIDE DEF everyone
  <2> QED
    BY <1>2, <1>4, <2>1, <2>2, ShapeOfCasts
<1> QED
  BY <1>1, <1>3, <1>4

(* So no step brings another bundle *)
LEMMA Round2ShapesStep ==
  ASSUME PlanShape, Round2Shapes, Growth, [Next]_vars
  PROVE  Round2Shapes'
<1>1. \A m : Round2Shape(m)' <=> Round2Shape(m)
  BY DEF Growth, Round2Shape, Validators
<1> SUFFICES ASSUME NEW s \in signed', s.message_id = "round2/cast"
             PROVE  Round2Shape(s.message)
  BY <1>1 DEF Round2Shapes
<1>2. CASE s \in signed
  BY <1>2 DEF Round2Shapes
<1>3. CASE \E n \in Node : s.message = Round2Message(n)
  <2>1. PICK n \in Node : s.message = FrostRound2Casts(share_idx_by_peer(n), OwnShares(n))
    BY <1>3 DEF Round2Message
  <2>2. /\ OwnShares(n) = [v \in Validators |-> OwnShares(n)[v]]
        /\ \A v \in Validators : OwnShares(n)[v] = ShareOf(GroupKey(n, v), 0, share_idx_by_peer(n))
    BY DEF OwnShares, OwnShare
  <2> QED
    BY <2>1, <2>2, ShapeOfCasts
<1>4. CASE s.message \in FaultyMessages(s.requester, s.message_id)
  BY <1>4, FaultyRound2
<1> QED
  BY <1>2, <1>3, <1>4, MessageSources

(* With the casts of all peers the keys stay as they are *)
BundleOf(casts) == IF casts = {} THEN <<>> ELSE The(casts)

(* The keys do not depend on when they are assembled *)
LEMMA KeygenKeysStay ==
  ASSUME PlanShape, Growth, NEW n \in Correct, Round1Heard(n), Round2Heard(n)
  PROVE  KeygenKeys(n)' = KeygenKeys(n)
<1>1. UNCHANGED plan /\ Validators' = Validators
  BY DEF Growth, Validators
<1>2. \A i \in 1 .. NumPeers :
        Round2Casts(n, plan.participants[i])' = Round2Casts(n, plan.participants[i])
  <2>1. \A i \in 1 .. NumPeers : plan.participants[i] \in peers
    BY DEF PlanShape, NumPeers, Operators
  <2>2. \A r \in peers : Round2Casts(n, r)' = Round2Casts(n, r)
    BY CastsStay DEF Round2Heard
  <2> QED
    BY <1>1, <2>1, <2>2
<1>3. Round2Bundles(n)' = Round2Bundles(n)
  <2>1. Round2Bundles(n) =
          [i \in 1 .. NumPeers |-> BundleOf(Round2Casts(n, plan.participants[i]))]
    BY DEF Round2Bundles, BundleOf
  <2>2. Round2Bundles(n)' =
          [i \in 1 .. NumPeers |-> BundleOf(Round2Casts(n, plan.participants[i])')]
    BY <1>1 DEF Round2Bundles, BundleOf, NumPeers
  <2> QED
    BY <1>2, <2>1, <2>2
<1>4. [v \in Validators |-> GroupKey(n, v)]' = [v \in Validators |-> GroupKey(n, v)]
  <2>1. \A v : GroupKey(n, v)' = GroupKey(n, v)
    BY GroupKeyStays
  <2> QED
    BY <1>1, <2>1
<1>5. OwnShares(n)' = OwnShares(n)
  BY OwnSharesStay
<1> QED
  BY <1>3, <1>4, <1>5 DEF KeygenKeys

(* Only FrostFinish and Reshare make keys *)
LEMMA KeysKeptStep ==
  ASSUME SyncInv, PlanShape, PerNode, DkgStages, RoundsHeard, KeysKept, Growth, [Next]_vars
  PROVE  KeysKept'
<1>0. Correct' = Correct /\ UNCHANGED <<peers, plan>> /\ Correct \subseteq Node
  BY DEF Growth, Correct, SyncInv, SyncType
<1> SUFFICES ASSUME NEW n \in Correct
             PROVE  keys'[n] = IF progress'[n] # "done" THEN <<>>
                               ELSE IF plan.kind = "keygen" THEN KeygenKeys(n)' ELSE ReshareKeys(n)'
  BY <1>0 DEF KeysKept
<1>1. ReshareKeys(n)' = ReshareKeys(n)
  BY <1>0 DEF ReshareKeys, Remains, Validators, NewShareIndex, CurrentKey
<1>2. CASE progress'[n] = progress[n] /\ keys'[n] = keys[n]
  <2>1. CASE progress[n] = "done" /\ plan.kind = "keygen"
    BY <1>2, <2>1, KeygenKeysStay DEF KeysKept, RoundsHeard
  <2> QED
    BY <1>1, <1>2, <2>1 DEF KeysKept
<1>3. CASE progress[n] # "done" /\ progress'[n] # "done" /\ keys'[n] = keys[n]
  BY <1>3 DEF KeysKept
<1>4. CASE FrostFinish(n) /\ progress'[n] = "done"
  <2>1. progress[n] = "round2" /\ plan.kind = "keygen"
    BY <1>4 DEF FrostFinish, DkgStages
  <2>2. keys'[n] = KeygenKeys(n)
    BY <1>0, <1>4 DEF FrostFinish, KeygenKeys, Round2Bundles, OwnShares, OwnShare, PerNode
  <2>3. Round1Heard(n) /\ Round2Heard(n)
    <3> DEFINE heard == {r \in peers : Round2Casts(n, r) # {}}
    <3>1. Cardinality(heard) = NumPeers
      BY <1>4 DEF FrostFinish, round2_complete, HeardFrom
    <3> QED
      BY <2>1, <3>1, AllHeard DEF Round2Heard, RoundsHeard
  <2> QED
    BY <1>4, <2>1, <2>2, <2>3, KeygenKeysStay
<1>5. CASE Reshare(n) /\ progress'[n] = "done"
  <2>1. progress[n] = "dealt" /\ plan.kind # "keygen"
    BY <1>5 DEF Reshare, DkgStages
  <2>2. keys'[n] = ReshareKeys(n)
    <3> DEFINE remaining == peers \cap Operators(plan.operators)
               shares(v) == [r \in remaining |-> ShareOf(CurrentKey(v), 1, NewShareIndex(r))]
               kept == [v \in Validators |->
                         [validator_pubkey |-> CurrentKey(v),
                          secret_share |-> shares(v)[n],
                          public_shares |->
                            [i \in {NewShareIndex(r) : r \in DOMAIN shares(v)} |->
                              ShareOf(CurrentKey(v), 1, i)]]]
    <3>1. keys'[n] = IF ~Remains(n) THEN <<>> ELSE kept
      BY <1>0, <1>5 DEF Reshare, PerNode
    <3>2. Remains(n) => n \in remaining
      BY DEF Remains, Correct
    <3>3. Remains(n) => \A v \in Validators :
            shares(v)[n] = ShareOf(CurrentKey(v), 1, NewShareIndex(n))
      BY <3>2
    <3>4. \A v \in Validators : DOMAIN shares(v) = remaining
      OBVIOUS
    <3> HIDE DEF shares
    <3>5. Remains(n) => kept = ReshareKeys(n)
      BY <3>3, <3>4 DEF ReshareKeys
    <3> QED
      BY <3>1, <3>5 DEF ReshareKeys
  <2> QED
    BY <1>1, <1>5, <2>1, <2>2
<1>6. CASE FrostRound2(n) /\ progress'[n] = "round2" /\ keys'[n] = keys[n]
  <2>1. progress[n] = "round1"
    BY <1>6 DEF FrostRound2
  <2> QED
    BY <1>3, <1>6, <2>1
<1> QED
  BY <1>0, <1>2, <1>3, <1>4, <1>5, <1>6, ProgressStep DEF GoesOn

-----------------------------------------------------------------------------
(* The shares of a validator in the bundles, by the index of the bundle *)
SharesIn(bundles, count, v) ==
  [s \in {b \in 1 .. count : v \in DOMAIN bundles[b]} |-> bundles[s][v].vk_share]

(* The casts of the b-th bundle have b as their source, and come by validator *)
Sourced(bundles, count) ==
  /\ DOMAIN bundles = 1 .. count
  /\ \A b \in 1 .. count :
       /\ DOMAIN bundles[b] \subseteq Nat
       /\ \A j \in DOMAIN bundles[b] :
            bundles[b][j].key.val_idx = j - 1 /\ bundles[b][j].key.source_id = b

(* What comes out of such bundles for a validator *)
Assembled(bundles, count, pubkeys, secrets, v) ==
  assemble_validator_shares(bundles, pubkeys, secrets)[v] =
    [validator_pubkey |-> pubkeys[v],
     secret_share |-> secrets[v],
     public_shares |-> SharesIn(bundles, count, v)]

(* assemble_validator_shares of such bundles *)
LEMMA AssembledShares ==
  ASSUME NEW count \in Nat, NEW bundles, Sourced(bundles, count),
         NEW pubkeys, NEW secrets, NEW v \in DOMAIN pubkeys, v \in Nat
  PROVE  Assembled(bundles, count, pubkeys, secrets, v)
<1> DEFINE all == UNION {{b} \X DOMAIN bundles[b] : b \in DOMAIN bundles}
           casts(w) == {c \in all : bundles[c[1]][c[2]].key.val_idx = w - 1}
           source(c) == bundles[c[1]][c[2]].key.source_id
           latest(c, w, s) == source(c) = s
             /\ \A d \in casts(w) : source(d) = s => d[1] < c[1] \/ (d[1] = c[1] /\ d[2] <= c[2])
           last(w, s) == CHOOSE c \in casts(w) : latest(c, w, s)
           sources == {a \in 1 .. count : v \in DOMAIN bundles[a]}
<1>0. /\ DOMAIN bundles = 1 .. count
      /\ \A b \in 1 .. count : DOMAIN bundles[b] \subseteq Nat
      /\ \A b \in 1 .. count : \A j \in DOMAIN bundles[b] :
           bundles[b][j].key.val_idx = j - 1 /\ bundles[b][j].key.source_id = b
  BY DEF Sourced
<1>1. \A c : c \in all <=> \E b \in 1 .. count : \E j \in DOMAIN bundles[b] : c = <<b, j>>
  BY <1>0
<1>2. \A c : c \in casts(v) <=> \E b \in sources : c = <<b, v>>
  <2>1. ASSUME NEW c \in casts(v)
        PROVE  \E b \in sources : c = <<b, v>>
    <3>0. PICK b \in 1 .. count : \E j \in DOMAIN bundles[b] : c = <<b, j>>
      BY <1>1
    <3>1. PICK j \in DOMAIN bundles[b] : c = <<b, j>>
      BY <3>0
    <3>2. bundles[b][j].key.val_idx = v - 1
      BY <3>1
    <3>3. j = v
      BY <1>0, <3>1, <3>2
    <3> QED
      BY <3>1, <3>3
  <2>2. ASSUME NEW b \in sources
        PROVE  <<b, v>> \in casts(v)
    <3>1. <<b, v>> \in all
      BY <1>1
    <3>2. bundles[b][v].key.val_idx = v - 1
      BY <1>0
    <3> QED
      BY <3>1, <3>2
  <2> QED
    BY <2>1, <2>2
<1>3. \A b \in sources : source(<<b, v>>) = b
  BY <1>0
<1> HIDE DEF all, casts, source
<1>4. {source(c) : c \in casts(v)} = sources
  <2>1. \A c \in casts(v) : source(c) \in sources
    BY <1>2, <1>3
  <2>2. \A b \in sources : \E c \in casts(v) : source(c) = b
    BY <1>2, <1>3
  <2> HIDE DEF sources
  <2> QED
    BY <2>1, <2>2
<1>5. ASSUME NEW b \in sources
      PROVE  last(v, b) = <<b, v>>
  <2>1. <<b, v>> \in casts(v) /\ latest(<<b, v>>, v, b)
    BY <1>2, <1>3
  <2>2. \A c \in casts(v) : latest(c, v, b) => c = <<b, v>>
    BY <1>2, <1>3
  <2> HIDE DEF latest
  <2> QED
    BY <2>1, <2>2
<1>6. assemble_validator_shares(bundles, pubkeys, secrets)[v] =
        [validator_pubkey |-> pubkeys[v],
         secret_share |-> secrets[v],
         public_shares |-> [s \in {source(c) : c \in casts(v)} |->
                              bundles[last(v, s)[1]][last(v, s)[2]].vk_share]]
  BY DEF assemble_validator_shares, all, casts, source
<1> HIDE DEF last, sources
<1>7. [s \in {source(c) : c \in casts(v)} |-> bundles[last(v, s)[1]][last(v, s)[2]].vk_share] =
        [s \in sources |-> bundles[s][v].vk_share]
  <2>1. \A s \in sources : bundles[last(v, s)[1]][last(v, s)[2]].vk_share = bundles[s][v].vk_share
    BY <1>5
  <2> QED
    BY <1>4, <2>1
<1> QED
  BY <1>6, <1>7 DEF sources, SharesIn, Assembled

(* What holds of the DKG of a ceremony in every state *)
DkgInv ==
  /\ BcastInv /\ OneMessage /\ SyncInv
  /\ PlanShape /\ PerNode
  /\ DkgStages /\ RoundsHeard /\ CorrectRound2 /\ Round2Shapes /\ KeysKept

(* A participant's place in the list of participants *)
LEMMA Places ==
  ASSUME NEW list, NEW n \in Operators(list)
  PROVE  PositionOf(list, n) \in DOMAIN list /\ list[PositionOf(list, n)] = n
<1>1. \E i \in DOMAIN list : list[i] = n
  BY DEF Operators
<1> QED
  BY <1>1 DEF PositionOf

(* In key generation the share indices are the places in the lock to come *)
LEMMA KeygenIndices ==
  ASSUME PlanShape, plan.kind = "keygen", NEW n \in peers
  PROVE  /\ share_idx_by_peer(n) = PositionOf(plan.participants, n)
         /\ share_idx_by_peer(n) = NewShareIndex(n)
         /\ share_idx_by_peer(n) \in 1 .. NumPeers
         /\ plan.participants[share_idx_by_peer(n)] = n
<1>1. share_idx_by_peer(n) = PositionOf(plan.participants, n)
  BY DEF share_idx_by_peer, ceremony_share_index
<1>2. NewShareIndex(n) = PositionOf(plan.participants, n)
  BY DEF NewShareIndex, new_lock_share_index, PlanShape
<1>3. DOMAIN plan.participants = 1 .. NumPeers /\ n \in Operators(plan.participants)
  BY DEF PlanShape, NumPeers
<1> QED
  BY <1>1, <1>2, <1>3, Places

(* The round 2 bundle that a node has accepted of a peer names that peer as its source *)
LEMMA AcceptedRound2 ==
  ASSUME DkgInv, NEW n \in Correct, NEW r \in peers, NEW m \in Round2Casts(n, r)
  PROVE  /\ Round2Shape(m)
         /\ \A v \in DOMAIN m : m[v].key.source_id = share_idx_by_peer(r)
         /\ r \in Correct => m = Round2Message(r)
<1>1. PICK s \in signed : s.requester = r /\ s.message_id = "round2/cast" /\ s.message = m
  BY MessageSigned, Round2CastsAreMessages DEF DkgInv
<1>2. Round2Shape(m)
  BY <1>1 DEF DkgInv, Round2Shapes
<1>3. r \in Correct => m = Round2Message(r)
  BY <1>1 DEF DkgInv, CorrectRound2
<1>4. CASE r = n
  <2>1. m = FrostRound2Casts(share_idx_by_peer(r), OwnShares(r))
    BY <1>3, <1>4 DEF Round2Message
  <2>2. /\ plan.num_validators \in Nat
        /\ OwnShares(r) = [v \in 1 .. plan.num_validators |-> OwnShares(r)[v]]
    BY DEF DkgInv, PlanShape, OwnShares, Validators
  <2>3. /\ DOMAIN m = 1 .. plan.num_validators
        /\ \A v \in 1 .. plan.num_validators : m[v].key.source_id = share_idx_by_peer(r)
    BY <2>1, <2>2, Round2Entries
  <2> QED
    BY <1>2, <1>3, <2>3
<1>5. CASE r # n
  <2>1. verify_round2_casts(m, share_idx_by_peer(r), plan.num_validators)
    BY <1>5 DEF Round2Casts
  <2> QED
    BY <1>2, <1>3, <2>1 DEF verify_round2_casts, _verify_cast_key
<1> QED
  BY <1>4, <1>5

(* A node that is done has a bundle of every participant, at the index of the participant *)
LEMMA BundlesOfAll ==
  ASSUME DkgInv, NEW n \in Correct, plan.kind = "keygen", progress[n] = "done",
         NEW r \in peers
  PROVE  Round2Bundles(n)[share_idx_by_peer(r)] \in Round2Casts(n, r)
<1>1. share_idx_by_peer(r) \in 1 .. NumPeers /\ plan.participants[share_idx_by_peer(r)] = r
  BY KeygenIndices DEF DkgInv
<1>2. Round2Casts(n, r) # {}
  BY DEF DkgInv, RoundsHeard, Round2Heard
<1> QED
  BY <1>1, <1>2 DEF Round2Bundles, The

(* Such a bundle is one of round 2, with the casts of that participant *)
LEMMA BundleShape ==
  ASSUME DkgInv, NEW n \in Correct, plan.kind = "keygen", progress[n] = "done",
         NEW b \in 1 .. NumPeers
  PROVE  /\ Round2Shape(Round2Bundles(n)[b])
         /\ \A j \in DOMAIN Round2Bundles(n)[b] : Round2Bundles(n)[b][j].key.source_id = b
<1> DEFINE r == plan.participants[b]
<1>1. r \in peers
  BY DEF DkgInv, PlanShape, NumPeers, Operators
<1>2. share_idx_by_peer(r) = b
  <2>1. /\ share_idx_by_peer(r) \in 1 .. NumPeers
        /\ plan.participants[share_idx_by_peer(r)] = r
    BY <1>1, KeygenIndices DEF DkgInv
  <2> QED
    BY <2>1 DEF DkgInv, RoundsHeard, NobodyTwice
<1>3. Round2Bundles(n)[b] \in Round2Casts(n, r)
  BY <1>1, <1>2, BundlesOfAll
<1> QED
  BY <1>1, <1>2, <1>3, AcceptedRound2

(* The public shares of a validator that n has heard of *)
PublicShares(n, v) == SharesIn(Round2Bundles(n), NumPeers, v)

(* The keys that come out of a key generation *)
LEMMA KeygenKeysFormed ==
  ASSUME DkgInv, NEW n \in Correct, plan.kind = "keygen", progress[n] = "done"
  PROVE  /\ DOMAIN keys[n] = Validators
         /\ \A v \in Validators :
              keys[n][v] = [validator_pubkey |-> GroupKey(n, v),
                            secret_share |-> OwnShare(n, v),
                            public_shares |-> PublicShares(n, v)]
<1> DEFINE bundles == Round2Bundles(n)
           pubkeys == [v \in Validators |-> GroupKey(n, v)]
<1>1. keys[n] = assemble_validator_shares(bundles, pubkeys, OwnShares(n))
  BY DEF DkgInv, KeysKept, KeygenKeys
<1>2. DOMAIN keys[n] = Validators
  BY <1>1 DEF assemble_validator_shares
<1>3. NumPeers \in Nat /\ DOMAIN bundles = 1 .. NumPeers
  BY DEF DkgInv, PlanShape, NumPeers, Round2Bundles
<1>4. ASSUME NEW b \in 1 .. NumPeers
      PROVE  /\ DOMAIN bundles[b] \subseteq Nat
             /\ \A j \in DOMAIN bundles[b] :
                  bundles[b][j].key.val_idx = j - 1 /\ bundles[b][j].key.source_id = b
  <2>1. /\ Round2Shape(bundles[b])
        /\ \A j \in DOMAIN bundles[b] : bundles[b][j].key.source_id = b
    BY BundleShape
  <2>2. Validators \subseteq Nat
    BY DEF Validators
  <2> QED
    BY <2>1, <2>2 DEF Round2Shape
<1>5. ASSUME NEW v \in Validators
      PROVE  keys[n][v] = [validator_pubkey |-> GroupKey(n, v),
                           secret_share |-> OwnShare(n, v),
                           public_shares |-> PublicShares(n, v)]
  <2>1. v \in DOMAIN pubkeys /\ v \in Nat /\ pubkeys[v] = GroupKey(n, v)
    BY DEF Validators
  <2>2. OwnShares(n)[v] = OwnShare(n, v)
    BY DEF OwnShares
  <2> HIDE DEF bundles, pubkeys
  <2>4. Sourced(bundles, NumPeers)
    BY <1>3, <1>4 DEF Sourced
  <2>3. Assembled(bundles, NumPeers, pubkeys, OwnShares(n), v)
    BY <1>3, <2>1, <2>4, AssembledShares
  <2> QED
    BY <1>1, <2>1, <2>2, <2>3 DEF PublicShares, bundles, Assembled
<1> QED
  BY <1>2, <1>5

-----------------------------------------------------------------------------
(* A node that has a key is done *)
LEMMA KeysMeanDone ==
  ASSUME DkgInv, NEW n \in Correct, NEW v \in DOMAIN keys[n]
  PROVE  progress[n] = "done" /\ v \in Validators
<1>1. progress[n] = "done"
  <2>1. progress[n] # "done" => DOMAIN keys[n] = {}
    BY DEF DkgInv, KeysKept
  <2> QED
    BY <2>1
<1>2. CASE plan.kind = "keygen"
  BY <1>1, <1>2, KeygenKeysFormed
<1>3. CASE plan.kind # "keygen"
  <2>1. keys[n] = ReshareKeys(n)
    BY <1>1, <1>3 DEF DkgInv, KeysKept
  <2>2. Remains(n)
    BY <2>1 DEF ReshareKeys
  <2> QED
    BY <1>1, <2>1, <2>2 DEF ReshareKeys
<1> QED
  BY <1>1, <1>2, <1>3

(* A key that comes out of a reshare *)
NewIndices == {NewShareIndex(r) : r \in peers \cap Operators(plan.operators)}

(* The key of n for validator v *)
ReshareKey(n, v) ==
  [validator_pubkey |-> CurrentKey(v),
   secret_share |-> ShareOf(CurrentKey(v), 1, NewShareIndex(n)),
   public_shares |-> [i \in NewIndices |-> ShareOf(CurrentKey(v), 1, i)]]

(* The keys that come out of a reshare *)
LEMMA ReshareKeysFormed ==
  ASSUME DkgInv, NEW n \in Correct, plan.kind # "keygen", NEW v \in DOMAIN keys[n]
  PROVE  /\ Remains(n)
         /\ keys[n] = ReshareKeys(n)
         /\ keys[n][v] = ReshareKey(n, v)
<1>1. keys[n] = ReshareKeys(n) /\ v \in Validators
  BY KeysMeanDone DEF DkgInv, KeysKept
<1>2. Remains(n)
  BY <1>1 DEF ReshareKeys
<1> QED
  BY <1>1, <1>2 DEF ReshareKeys, ReshareKey, NewIndices

(* A correct node's share is at its place among the public shares of another *)
LEMMA ShareInPlace ==
  ASSUME DkgInv, NEW m \in Correct, NEW n \in Correct, plan.kind = "keygen",
         progress[m] = "done", progress[n] = "done", NEW v \in Validators
  PROVE  /\ share_idx_by_peer(m) \in DOMAIN PublicShares(n, v)
         /\ PublicShares(n, v)[share_idx_by_peer(m)] = OwnShare(m, v)
<1> DEFINE x == share_idx_by_peer(m)
<1>1. m \in peers /\ x \in 1 .. NumPeers
  BY KeygenIndices DEF DkgInv, Correct
<1>2. Round2Bundles(n)[x] = Round2Message(m)
  BY <1>1, BundlesOfAll, AcceptedRound2
<1>3. v \in DOMAIN Round2Message(m) /\ Round2Message(m)[v].vk_share = OwnShare(m, v)
  <2>1. /\ plan.num_validators \in Nat
        /\ OwnShares(m) = [w \in 1 .. plan.num_validators |-> OwnShares(m)[w]]
        /\ OwnShares(m)[v] = OwnShare(m, v)
    BY DEF DkgInv, PlanShape, OwnShares, Validators
  <2> QED
    BY <2>1, Round2Entries DEF Round2Message, Validators
<1> HIDE DEF x
<1> QED
  BY <1>1, <1>2, <1>3 DEF PublicShares, SharesIn, x

(* KeysAgree follows *)
LEMMA DkgKeysAgree ==
  DkgInv => KeysAgree
<1> SUFFICES ASSUME DkgInv, NEW m \in Correct, NEW n \in Correct,
                    NEW v \in DOMAIN keys[m] \cap DOMAIN keys[n]
             PROVE  /\ keys[m][v].validator_pubkey = keys[n][v].validator_pubkey
                    /\ NewShareIndex(m) \in DOMAIN keys[n][v].public_shares
                    /\ keys[n][v].public_shares[NewShareIndex(m)] = keys[m][v].secret_share
  BY DEF KeysAgree
<1>1. progress[m] = "done" /\ progress[n] = "done" /\ v \in Validators
  BY KeysMeanDone
<1>2. m \in peers
  BY DEF Correct
<1>3. CASE plan.kind = "keygen"
  <2>1. GroupKey(m, v) = GroupKey(n, v)
    BY <1>1, <1>3, GroupKeySame DEF DkgInv, RoundsHeard
  <2>2. NewShareIndex(m) = share_idx_by_peer(m)
    BY <1>2, <1>3, KeygenIndices DEF DkgInv
  <2>3. /\ keys[m][v].validator_pubkey = GroupKey(m, v)
        /\ keys[m][v].secret_share = OwnShare(m, v)
        /\ keys[n][v].validator_pubkey = GroupKey(n, v)
        /\ keys[n][v].public_shares = PublicShares(n, v)
    <3>1. keys[m][v] = [validator_pubkey |-> GroupKey(m, v),
                        secret_share |-> OwnShare(m, v),
                        public_shares |-> PublicShares(m, v)]
      BY <1>1, <1>3, KeygenKeysFormed
    <3>2. keys[n][v] = [validator_pubkey |-> GroupKey(n, v),
                        secret_share |-> OwnShare(n, v),
                        public_shares |-> PublicShares(n, v)]
      BY <1>1, <1>3, KeygenKeysFormed
    <3> QED
      BY <3>1, <3>2
  <2> QED
    BY <1>1, <1>3, <2>1, <2>2, <2>3, ShareInPlace
<1>4. CASE plan.kind # "keygen"
  <2>1. Remains(m)
    BY <1>4, ReshareKeysFormed
  <2>2. NewShareIndex(m) \in NewIndices
    BY <1>2, <2>1 DEF Remains, NewIndices
  <2>3. keys[m][v] = ReshareKey(m, v) /\ keys[n][v] = ReshareKey(n, v)
    BY <1>4, ReshareKeysFormed
  <2> QED
    BY <2>2, <2>3 DEF ReshareKey
<1> QED
  BY <1>3, <1>4

(* DkgInv holds at the start *)
LEMMA DkgInvInitial ==
  Init => DkgInv
<1> SUFFICES ASSUME Init
             PROVE  DkgInv
  OBVIOUS
<1>1. PlanShape /\ peers \subseteq Node
  BY PlanShapeInitial DEF PlanShape, Operators
<1>2. BcastInv /\ OneMessage
  BY BcastInitial, OneMessageEach DEF Init
<1>3. SyncInv
  BY <1>1, SyncInitial DEF Init
<1>4. PerNode
  BY DEF Init, PerNode
<1>5. DkgStages /\ RoundsHeard /\ KeysKept
  BY <1>1 DEF Init, SyncInit, Correct, DkgStages, RoundsHeard, KeysKept
<1>6. CorrectRound2 /\ Round2Shapes
  BY DEF Init, BcastInit, CorrectRound2, Round2Shapes
<1> QED
  BY <1>1, <1>2, <1>3, <1>4, <1>5, <1>6 DEF DkgInv

(* Every step of a ceremony keeps it *)
LEMMA DkgInvStep ==
  DkgInv /\ [Next]_vars => DkgInv'
<1> SUFFICES ASSUME DkgInv, [Next]_vars
             PROVE  DkgInv'
  OBVIOUS
<1>1. BcastInv' /\ Growth
  BY CeremonyGrows DEF DkgInv
<1>2. OneMessage'
  BY <1>1 DEF Growth
<1>3. SyncInv'
  BY CeremonySyncStep, SyncStep DEF DkgInv
<1>4. PlanShape'
  BY PlanStays, PlanShapeStays DEF DkgInv
<1>5. PerNode'
  BY PerNodeStep DEF DkgInv
<1>6. DkgStages'
  BY DkgStagesStep DEF DkgInv
<1>7. RoundsHeard' /\ CorrectRound2'
  BY <1>1, RoundsHeardStep, CorrectRound2Step DEF DkgInv
<1>8. Round2Shapes' /\ KeysKept'
  BY <1>1, Round2ShapesStep, KeysKeptStep DEF DkgInv
<1> QED
  BY <1>1, <1>2, <1>3, <1>4, <1>5, <1>6, <1>7, <1>8 DEF DkgInv

(* Correct nodes come out of every ceremony with keys that fit together, whatever faulty peers
   broadcast: the group keys are the same, and each node's secret share is at its place among
   the public shares of the others (frost.py:360) *)
THEOREM CeremonyKeysAgree == Spec => []KeysAgree
<1>1. Spec => []DkgInv
  BY DkgInvInitial, DkgInvStep, PTL DEF Spec
<1> QED
  BY <1>1, DkgKeysAgree, PTL

-----------------------------------------------------------------------------
(* The lock that a node makes of its keys, with its signatures *)
NewValidators(n) ==
  [v \in DOMAIN keys[n] |->
    DistValidator(keys[n][v].validator_pubkey, PublicShareList(keys[n][v].public_shares))]

(* The lock with these validators *)
Made(n, aggregate, signatures) ==
  [definition |-> [operators |-> plan.operators, threshold |-> plan.threshold,
                   num_validators |-> Len(NewValidators(n))],
   validators |-> NewValidators(n),
   signature_aggregate |-> aggregate,
   node_signatures |-> signatures]

(* The lock of a node is the one its keys make, whatever is signed by then *)
LockMade ==
  \A n \in Correct : lock[n] # NoLock =>
    lock[n] = Made(n, lock[n].signature_aggregate, lock[n].node_signatures)

(* The signatures do not change what is hashed *)
LEMMA MadeParts ==
  ASSUME NEW n, NEW aggregate, NEW signatures
  PROVE  /\ Made(n, aggregate, signatures).definition.operators = plan.operators
         /\ Made(n, aggregate, signatures).definition.threshold = plan.threshold
         /\ Made(n, aggregate, signatures).validators = NewValidators(n)
         /\ Made(n, aggregate, signatures).signature_aggregate = aggregate
         /\ Made(n, aggregate, signatures).node_signatures = signatures
         /\ Made(n, aggregate, signatures) # NoLock
         /\ lock_hash(Made(n, aggregate, signatures)) = lock_hash(Made(n, {}, <<>>))
  BY DEF Made, NoLock, lock_hash

(* Signatures are added to such a lock *)
LEMMA MadeAgain ==
  ASSUME NEW n, NEW aggregate, NEW signatures, NEW x
  PROVE  /\ [Made(n, aggregate, signatures) EXCEPT !.signature_aggregate = x] =
              Made(n, x, signatures)
         /\ [Made(n, aggregate, signatures) EXCEPT !.node_signatures = x] =
              Made(n, aggregate, x)
  BY DEF Made

(* It is first made without any *)
LEMMA FirstMade ==
  ASSUME NEW n
  PROVE  Lock(plan.operators, plan.threshold, NewValidators(n)) = Made(n, {}, <<>>)
  BY DEF Made, Lock

(* What a step does to the lock of a node *)
LockKept(m) ==
  /\ lock'[m] = lock[m]
  /\ step'[m] = step[m] \/ step[m] \notin {2, 3} \/ ~Remains(m)
  /\ step'[m] \in {step[m], step[m] + 1}

(* It is made *)
LockFirstMade(m) ==
  /\ step[m] = 2 /\ step'[m] = 2 /\ lock[m] = NoLock
  /\ lock'[m] = Made(m, {}, <<>>)

(* Its aggregate is added, and verified *)
LockAggregated(m) ==
  /\ step[m] = 2 /\ step'[m] = 3 /\ lock[m] # NoLock
  /\ \E x : lock'[m] = [lock[m] EXCEPT !.signature_aggregate = x]
  /\ verify_signature_aggregate(lock'[m])

(* Its node signatures are added, and verified *)
LockSigned(m) ==
  /\ step[m] = 3 /\ step'[m] = 4 /\ lock[m] # NoLock
  /\ FinishNodeSignatures(m)

(* One of these *)
LockGoesOn(m) == LockKept(m) \/ LockFirstMade(m) \/ LockAggregated(m) \/ LockSigned(m)

(* Every step does one of these to the lock of a correct node *)
LEMMA LockGoes ==
  ASSUME SyncInv, PlanShape, PerNode, DkgStages, LockStages, [Next]_vars, NEW m \in Correct
  PROVE  LockGoesOn(m)
<1>0. Correct \subseteq Node /\ step[m] \in Nat /\ (step[m] >= 3 /\ Remains(m) => lock[m] # NoLock)
  BY DEF Correct, SyncInv, SyncType, LockStages
<1>1. CASE Quiet
  BY <1>1 DEF Quiet, lock_vars, LockGoesOn, LockKept
<1>2. ASSUME NEW n \in Node, Works(n)
      PROVE  LockGoesOn(m)
  <2>1. CASE Connect(n)
    <3>1. Advance(n) /\ step[n] \notin 1 .. 4 /\ UNCHANGED lock
      BY <2>1 DEF Connect, lock_vars
    <3> QED
      BY <1>0, <3>1, AdvanceByOne DEF LockGoesOn, LockKept
  <2>2. CASE FrostRound1(n) \/ FrostRound2(n) \/ Deal(n) \/ Load(n)
    <3>1. UNCHANGED <<lock, step>>
      BY <2>2 DEF FrostRound1, FrostRound2, Deal, Load, lock_vars
    <3> QED
      BY <3>1 DEF LockGoesOn, LockKept
  <2>3. CASE WriteArtifacts(n) \/ Noop(n)
    <3>1. /\ \E work \in {"write_artifacts", "noop"} : Working(n, work)
          /\ Advance(n) /\ UNCHANGED lock
      BY <2>3 DEF WriteArtifacts, Noop, lock_vars
    <3>2. step[n] = 4 \/ ~Remains(n)
      BY <3>1, WorkSteps
    <3> QED
      BY <1>0, <3>1, <3>2, AdvanceByOne DEF LockGoesOn, LockKept
  <2>4. CASE FrostFinish(n) \/ Reshare(n)
    <3>1. Advance(n) /\ UNCHANGED lock /\ progress[n] \in {"round2", "dealt"}
      BY <2>4 DEF FrostFinish, Reshare, lock_vars
    <3>2. n \in Correct /\ step[n] = 1
      BY <3>1, AdvanceByOne DEF DkgStages
    <3> QED
      BY <1>0, <3>1, <3>2, AdvanceByOne DEF LockGoesOn, LockKept
  <2>5. CASE UpdateLock(n)
    <3>1. /\ Working(n, "update_lock") /\ lock[n] = NoLock /\ UNCHANGED step
          /\ lock' = [lock EXCEPT ![n] =
               Lock(plan.operators, plan.threshold, NewValidators(n))]
      BY <2>5 DEF UpdateLock, NewValidators
    <3> QED
      BY <3>1, WorkSteps, FirstMade DEF PerNode, LockGoesOn, LockKept, LockFirstMade
  <2>6. CASE AggregateLock(n)
    <3>1. /\ Working(n, "update_lock") /\ lock[n] # NoLock /\ Advance(n)
      BY <2>6 DEF AggregateLock
    <3>2. PICK x : /\ lock' = [lock EXCEPT ![n] = [lock[n] EXCEPT !.signature_aggregate = x]]
                   /\ verify_signature_aggregate([lock[n] EXCEPT !.signature_aggregate = x])
      BY <2>6 DEF AggregateLock
    <3>3. n \in Correct /\ step[n] = 2
      BY <3>1, WorkSteps
    <3>4. /\ lock'[n] = [lock[n] EXCEPT !.signature_aggregate = x]
          /\ m # n => lock'[m] = lock[m]
      BY <1>0, <3>2, <3>3 DEF PerNode
    <3>5. CASE m = n
      <4>1. step[m] = 2 /\ step'[m] = 3
        BY <1>0, <3>1, <3>3, <3>5, AdvanceByOne
      <4>2. \E y : lock'[m] = [lock[m] EXCEPT !.signature_aggregate = y]
        BY <3>4, <3>5
      <4>3. verify_signature_aggregate(lock'[m])
        BY <3>2, <3>4, <3>5
      <4> QED
        BY <3>1, <3>5, <4>1, <4>2, <4>3 DEF LockGoesOn, LockAggregated
    <3>6. CASE m # n
      BY <1>0, <3>1, <3>3, <3>4, <3>6, AdvanceByOne DEF LockGoesOn, LockKept
    <3> QED
      BY <3>5, <3>6
  <2>7. CASE FinishNodeSignatures(n)
    <3>1. /\ Working(n, "update_node_signatures") \/ Working(n, "ignore_node_signatures")
          /\ Advance(n)
      BY <2>7 DEF FinishNodeSignatures
    <3>2. lock[n] = NoLock => UNCHANGED lock
      BY <2>7 DEF FinishNodeSignatures
    <3>3. lock[n] # NoLock => \E x : lock' = [lock EXCEPT ![n] = x]
      BY <2>7 DEF FinishNodeSignatures
    <3>4. m # n => lock'[m] = lock[m]
      BY <1>0, <3>2, <3>3 DEF PerNode
    <3>5. n \in Correct /\ step[n] = 3
      BY <3>1, WorkSteps
    <3>6. lock[n] = NoLock => ~Remains(n)
      BY <1>0, <3>5 DEF LockStages
    <3> QED
      BY <1>0, <2>7, <3>1, <3>2, <3>4, <3>5, <3>6, AdvanceByOne
        DEF LockGoesOn, LockKept, LockSigned, LockStages
  <2> QED
    BY <1>2, <2>1, <2>2, <2>3, <2>4, <2>5, <2>6, <2>7 DEF Works
<1> QED
  BY <1>1, <1>2, StepKinds

(* Who remains has a verified aggregate when it leaves its second step *)
Aggregated ==
  \A n \in Correct : (step[n] >= 3 /\ Remains(n)) => verify_signature_aggregate(lock[n])

(* From its second step on the keys of a node stay *)
LEMMA DoneAtTwo ==
  ASSUME SyncInv, DkgStages, NEW m \in Correct, step[m] >= 2
  PROVE  progress[m] = "done"
<1>1. step[m] \in Nat
  BY DEF SyncInv, SyncType, Correct
<1> QED
  BY <1>1 DEF DkgStages

(* The keys it has then are those its lock is made of *)
LEMMA KeysStay ==
  ASSUME SyncInv, PlanShape, PerNode, DkgStages, [Next]_vars, NEW m \in Correct, step[m] >= 2
  PROVE  keys'[m] = keys[m] /\ NewValidators(m)' = NewValidators(m)
<1>1. progress[m] = "done" /\ m \in Node
  BY DoneAtTwo DEF SyncInv, SyncType, Correct
<1>2. keys'[m] = keys[m]
  BY <1>1, ProgressStep DEF GoesOn, FrostRound2, FrostFinish, Reshare
<1> QED
  BY <1>2 DEF NewValidators

(* A lock that is made of the same keys *)
LEMMA MadeStays ==
  ASSUME UNCHANGED plan, NEW m, NewValidators(m)' = NewValidators(m), NEW x, NEW y,
         lock'[m] = Made(m, x, y)
  PROVE  /\ (lock[m] = Made(m, lock[m].signature_aggregate, lock[m].node_signatures))'
         /\ lock'[m].signature_aggregate = x
         /\ lock'[m].node_signatures = y
<1>1. Made(m, x, y)' = Made(m, x, y)
  BY DEF Made
<1>2. lock'[m].signature_aggregate = x /\ lock'[m].node_signatures = y
  BY MadeParts
<1>3. Made(m, lock[m].signature_aggregate, lock[m].node_signatures)' = Made(m, x, y)
  BY <1>2 DEF Made
<1> QED
  BY <1>2, <1>3

(* The verified node signatures that n has collected *)
LEMMA SignedLock ==
  ASSUME NEW m, FinishNodeSignatures(m), lock[m] # NoLock, m \in DOMAIN lock
  PROVE  /\ \E y : lock'[m] = [lock[m] EXCEPT !.node_signatures = y]
         /\ verify_signature_aggregate(lock'[m])
<1> DEFINE heard == {r \in peers : NodeSignatures(m, r) # {}}
           sigs == [i \in {PeerIndex(r) : r \in heard} |->
                     The(NodeSignatures(m, plan.participants[i + 1]))]
           complete == [lock[m] EXCEPT !.node_signatures = collect_node_sigs(sigs, NumPeers)]
<1>1. verify_signature_aggregate(complete) /\ lock' = [lock EXCEPT ![m] = complete]
  BY DEF FinishNodeSignatures
<1> HIDE DEF sigs
<1>2. lock'[m] = complete
  BY <1>1
<1>3. verify_signature_aggregate(lock'[m])
  <2> HIDE DEF complete
  <2> QED
    BY <1>1, <1>2
<1> QED
  BY <1>2, <1>3

(* Every change of a lock leaves its definition and its validators alone *)
LEMMA LockMadeStep ==
  ASSUME SyncInv, PlanShape, PerNode, DkgStages, LockStages, LockMade, [Next]_vars
  PROVE  LockMade'
<1>0. Correct' = Correct /\ UNCHANGED plan /\ Correct \subseteq Node
  BY PlanStays DEF Correct, SyncInv, SyncType
<1> SUFFICES ASSUME NEW m \in Correct, lock'[m] # NoLock
             PROVE  (lock[m] = Made(m, lock[m].signature_aggregate, lock[m].node_signatures))'
  BY <1>0 DEF LockMade
<1> DEFINE a == lock[m].signature_aggregate
           s == lock[m].node_signatures
<1>1. step[m] \in Nat /\ m \in DOMAIN lock
  BY <1>0 DEF SyncInv, SyncType, PerNode
<1>2. lock[m] # NoLock => lock[m] = Made(m, a, s) /\ step[m] >= 2
  BY DEF LockMade, LockStages
<1>3. step[m] >= 2 => NewValidators(m)' = NewValidators(m)
  BY KeysStay
<1> HIDE DEF a, s
<1>4. CASE LockKept(m)
  <2>1. lock'[m] = Made(m, a, s) /\ NewValidators(m)' = NewValidators(m)
    BY <1>2, <1>3, <1>4 DEF LockKept
  <2> QED
    BY <1>0, <2>1, MadeStays
<1>5. CASE LockFirstMade(m)
  <2>1. lock'[m] = Made(m, {}, <<>>) /\ NewValidators(m)' = NewValidators(m)
    BY <1>3, <1>5 DEF LockFirstMade
  <2> QED
    BY <1>0, <2>1, MadeStays
<1>6. CASE LockAggregated(m)
  <2>1. PICK x : lock'[m] = [lock[m] EXCEPT !.signature_aggregate = x]
    BY <1>6 DEF LockAggregated
  <2>2. lock'[m] = Made(m, x, s) /\ NewValidators(m)' = NewValidators(m)
    BY <1>2, <1>3, <1>6, <2>1, MadeAgain DEF LockAggregated
  <2> QED
    BY <1>0, <2>2, MadeStays
<1>7. CASE LockSigned(m)
  <2>1. PICK y : lock'[m] = [lock[m] EXCEPT !.node_signatures = y]
    BY <1>1, <1>7, SignedLock DEF LockSigned
  <2>2. lock'[m] = Made(m, a, y) /\ NewValidators(m)' = NewValidators(m)
    BY <1>2, <1>3, <1>7, <2>1, MadeAgain DEF LockSigned
  <2> QED
    BY <1>0, <2>2, MadeStays
<1> QED
  BY <1>4, <1>5, <1>6, <1>7, LockGoes DEF LockGoesOn

(* The aggregate is verified when it is added, and again with the node signatures *)
LEMMA AggregatedStep ==
  ASSUME SyncInv, PlanShape, PerNode, DkgStages, LockStages, Aggregated, [Next]_vars
  PROVE  Aggregated'
<1>0. Correct' = Correct /\ UNCHANGED plan /\ Correct \subseteq Node
  BY PlanStays DEF Correct, SyncInv, SyncType
<1> SUFFICES ASSUME NEW m \in Correct, step'[m] >= 3, Remains(m)
             PROVE  verify_signature_aggregate(lock'[m])
  BY <1>0 DEF Aggregated, Remains
<1>1. step[m] \in Nat /\ m \in DOMAIN lock
  BY <1>0 DEF SyncInv, SyncType, PerNode
<1>2. CASE LockKept(m)
  <2>1. step[m] >= 3
    BY <1>1, <1>2 DEF LockKept
  <2> QED
    BY <1>2, <2>1 DEF LockKept, Aggregated
<1>3. CASE LockSigned(m)
  BY <1>1, <1>3, SignedLock DEF LockSigned
<1> QED
  BY <1>2, <1>3, LockGoes DEF LockGoesOn, LockFirstMade, LockAggregated

-----------------------------------------------------------------------------
(* All signatures of a node that has a lock come from one message *)
LEMMA SignatureOfMessage ==
  ASSUME NEW n, lock[n] # NoLock, NEW r, NEW x \in NodeSignatures(n, r)
  PROVE  /\ \E k \in Messages(n, r, "node_sig") : x = k[1].signature
         /\ x = NONE_DATA \/ x = [key |-> r, digest |-> lock_hash(lock[n])]
  BY DEF NodeSignatures, Messages

(* Nodes with locks have the same signature of a peer *)
OneNodeSignature ==
  \A m, n \in Correct : \A r :
    (lock[m] # NoLock /\ lock[n] # NoLock) =>
      \A x \in NodeSignatures(m, r), y \in NodeSignatures(n, r) : x = y

(* Reliable broadcast sees to that *)
LEMMA OneSignature ==
  OneMessage => OneNodeSignature
<1> SUFFICES ASSUME OneMessage, NEW m \in Correct, NEW n \in Correct, NEW r,
                    lock[m] # NoLock, lock[n] # NoLock,
                    NEW x \in NodeSignatures(m, r), NEW y \in NodeSignatures(n, r)
             PROVE  x = y
  BY DEF OneNodeSignature
<1>1. PICK k \in Messages(m, r, "node_sig") : x = k[1].signature
  BY SignatureOfMessage
<1>2. PICK l \in Messages(n, r, "node_sig") : y = l[1].signature
  BY SignatureOfMessage
<1> QED
  BY <1>1, <1>2 DEF OneMessage

(* The signature a node has of a peer stays *)
LEMMA SignatureStays ==
  ASSUME Growth, NEW n \in Correct, lock[n] # NoLock, lock'[n] # NoLock,
         lock_hash(lock'[n]) = lock_hash(lock[n]), NEW r, NodeSignatures(n, r) # {}
  PROVE  NodeSignatures(n, r)' = NodeSignatures(n, r)
<1>1. NodeSignatures(n, r) \subseteq NodeSignatures(n, r)'
  BY DEF Growth, NodeSignatures, Own, Bundle, PeerIndex, NumPeers
<1>2. OneMessage' => OneNodeSignature'
  BY OneSignature, PTL
<1>3. \A x, y \in NodeSignatures(n, r)' : x = y
  BY <1>2 DEF Growth, Correct, OneNodeSignature
<1> QED
  BY <1>1, <1>3

(* What a node hashes does not change once it has a lock *)
LEMMA HashStays ==
  ASSUME SyncInv, PlanShape, PerNode, DkgStages, LockStages, LockMade, [Next]_vars,
         NEW m \in Correct, lock[m] # NoLock
  PROVE  lock'[m] # NoLock /\ lock_hash(lock'[m]) = lock_hash(lock[m])
<1> DEFINE a == lock[m].signature_aggregate
           s == lock[m].node_signatures
<1>1. m \in DOMAIN lock /\ lock[m] = Made(m, a, s)
  BY DEF LockMade, PerNode, SyncInv, SyncType, Correct
<1> HIDE DEF a, s
<1>2. \E x, y : lock'[m] = Made(m, x, y)
  <2>1. CASE LockKept(m)
    BY <1>1, <2>1 DEF LockKept
  <2>2. CASE LockAggregated(m)
    <3>1. PICK x : lock'[m] = [lock[m] EXCEPT !.signature_aggregate = x]
      BY <2>2 DEF LockAggregated
    <3>2. lock'[m] = Made(m, x, s)
      <4>1. lock'[m] = [Made(m, a, s) EXCEPT !.signature_aggregate = x]
        BY <1>1, <3>1
      <4> QED
        BY <4>1, MadeAgain
    <3> QED
      BY <3>2
  <2>3. CASE LockSigned(m)
    <3>1. PICK y : lock'[m] = [lock[m] EXCEPT !.node_signatures = y]
      BY <1>1, <2>3, SignedLock DEF LockSigned
    <3>2. lock'[m] = Made(m, a, y)
      BY <1>1, <3>1, MadeAgain
    <3> QED
      BY <3>2
  <2> QED
    BY <2>1, <2>2, <2>3, LockGoes DEF LockGoesOn, LockFirstMade
<1>3. PICK x : \E y : lock'[m] = Made(m, x, y)
  BY <1>2
<1>4. PICK y : lock'[m] = Made(m, x, y)
  BY <1>3
<1>5. /\ lock_hash(lock[m]) = lock_hash(Made(m, {}, <<>>))
      /\ lock_hash(lock'[m]) = lock_hash(Made(m, {}, <<>>))
      /\ lock'[m] # NoLock
  BY <1>1, <1>4, MadeParts
<1> QED
  BY <1>5

(* The signatures of all participants, by peer index *)
AllNodeSignatures(n) ==
  [index \in 0 .. NumPeers - 1 |-> The(NodeSignatures(n, plan.participants[index + 1]))]

(* n has a signature or a sentinel of everyone, and keeps the signatures in its lock, where it
   has verified them *)
Signed(n) ==
  /\ NobodyTwice
  /\ \A r \in peers : NodeSignatures(n, r) # {}
  /\ lock[n].node_signatures = collect_node_sigs(AllNodeSignatures(n), NumPeers)
  /\ verify_node_signatures(lock[n], plan.operators)

(* Who remains has them when it leaves its third step *)
NodesSigned == \A n \in Correct : (step[n] >= 4 /\ Remains(n)) => Signed(n)

(* The peer indices of some of the participants *)
PeerIndices(heard) == {PeerIndex(r) : r \in heard}

(* When every peer index is taken, every participant has sent a signature, under an index of
   its own *)
LEMMA AllIndicesTaken ==
  ASSUME PlanShape, NEW heard \in SUBSET peers,
         NEW sigs, DOMAIN sigs = PeerIndices(heard), Collected(sigs, NumPeers)
  PROVE  NobodyTwice /\ heard = peers /\ DOMAIN sigs = 0 .. NumPeers - 1
<1>0. DOMAIN plan.participants = 1 .. NumPeers /\ NumPeers \in Nat
      /\ peers = Operators(plan.participants)
  BY DEF PlanShape, NumPeers
<1>1. \A r \in peers : PeerIndex(r) \in 0 .. NumPeers - 1 /\ plan.participants[PeerIndex(r) + 1] = r
  <2> TAKE r \in peers
  <2>1. PositionOf(plan.participants, r) \in 1 .. NumPeers
        /\ plan.participants[PositionOf(plan.participants, r)] = r
    BY <1>0, Places
  <2> QED
    BY <1>0, <2>1 DEF PeerIndex
<1>2. \A i \in 0 .. NumPeers - 1 : \E r \in heard : i = PeerIndex(r)
  BY DEF Collected, PeerIndices
<1>3. DOMAIN sigs = 0 .. NumPeers - 1
  BY <1>1, <1>2 DEF PeerIndices
<1>4. ASSUME NEW j \in 1 .. NumPeers
      PROVE  plan.participants[j] \in heard /\ PeerIndex(plan.participants[j]) = j - 1
  <2>1. PICK r \in heard : j - 1 = PeerIndex(r)
    BY <1>0, <1>2
  <2>2. plan.participants[PeerIndex(r) + 1] = r
    BY <1>1
  <2>3. PeerIndex(r) + 1 = j
    BY <1>0, <2>1
  <2> QED
    BY <2>1, <2>2, <2>3
<1>5. NobodyTwice
  <2> SUFFICES ASSUME NEW i \in 1 .. NumPeers, NEW j \in 1 .. NumPeers,
                      plan.participants[i] = plan.participants[j]
               PROVE  i = j
    BY DEF NobodyTwice
  <2> QED
    BY <1>0, <1>4
<1>6. heard = peers
  BY <1>0, <1>4 DEF Operators
<1> QED
  BY <1>3, <1>5, <1>6

(* What is collected and verified at the end of the exchange *)
LEMMA CollectedLock ==
  ASSUME PlanShape, NEW m, FinishNodeSignatures(m), lock[m] # NoLock, m \in DOMAIN lock,
         "node_signatures" \in DOMAIN lock[m]
  PROVE  /\ NobodyTwice
         /\ \A r \in peers : NodeSignatures(m, r) # {}
         /\ lock'[m].node_signatures = collect_node_sigs(AllNodeSignatures(m), NumPeers)
         /\ verify_node_signatures(lock'[m], plan.operators)
<1> DEFINE heard == {r \in peers : NodeSignatures(m, r) # {}}
           sigs == [i \in PeerIndices(heard) |-> The(NodeSignatures(m, plan.participants[i + 1]))]
           collected == collect_node_sigs(sigs, NumPeers)
           complete == [lock[m] EXCEPT !.node_signatures = collected]
<1>1. /\ lock' = [lock EXCEPT ![m] = complete]
      /\ Collected(sigs, NumPeers)
      /\ verify_node_signatures(complete, plan.operators)
  BY DEF FinishNodeSignatures, PeerIndices
<1>2. NobodyTwice /\ heard = peers /\ DOMAIN sigs = 0 .. NumPeers - 1
  <2>1. DOMAIN sigs = PeerIndices(heard) /\ heard \in SUBSET peers
    OBVIOUS
  <2> HIDE DEF heard, sigs
  <2> QED
    BY <1>1, <2>1, AllIndicesTaken
<1>3. \A r \in peers : NodeSignatures(m, r) # {}
  BY <1>2
<1>4. sigs = AllNodeSignatures(m)
  <2>1. DOMAIN sigs = PeerIndices(heard)
    OBVIOUS
  <2>2. PeerIndices(heard) = 0 .. NumPeers - 1
    BY <1>2, <2>1
  <2> HIDE DEF heard
  <2> QED
    BY <2>2 DEF AllNodeSignatures
<1> HIDE DEF collected
<1>5. lock'[m] = complete /\ lock'[m].node_signatures = collected
  BY <1>1
<1> HIDE DEF complete
<1>6. verify_node_signatures(lock'[m], plan.operators)
  BY <1>1, <1>5
<1> QED
  BY <1>2, <1>3, <1>4, <1>5, <1>6 DEF collected

(* The signatures that a node has of all stay *)
LEMMA AllStay ==
  ASSUME PlanShape, Growth, NEW n \in Correct, lock[n] # NoLock, lock'[n] # NoLock,
         lock_hash(lock'[n]) = lock_hash(lock[n]), \A r \in peers : NodeSignatures(n, r) # {}
  PROVE  /\ \A r \in peers : NodeSignatures(n, r)' # {}
         /\ AllNodeSignatures(n)' = AllNodeSignatures(n)
<1>1. \A r \in peers : NodeSignatures(n, r)' = NodeSignatures(n, r)
  BY SignatureStays
<1>2. NumPeers' = NumPeers /\ plan' = plan
  BY DEF Growth, NumPeers
<1>3. \A i \in 0 .. NumPeers - 1 : plan.participants[i + 1] \in peers
  BY DEF PlanShape, NumPeers, Operators
<1>4. \A i \in 0 .. NumPeers - 1 :
        The(NodeSignatures(n, plan.participants[i + 1])') =
          The(NodeSignatures(n, plan.participants[i + 1]))
  BY <1>1, <1>2, <1>3
<1>5. AllNodeSignatures(n)' = AllNodeSignatures(n)
  BY <1>2, <1>4 DEF AllNodeSignatures
<1> QED
  BY <1>1, <1>5

(* Only FinishNodeSignatures ends the third step; what it collects stays *)
LEMMA NodesSignedStep ==
  ASSUME SyncInv, PlanShape, PerNode, DkgStages, LockStages, LockMade, NodesSigned, Growth,
         [Next]_vars
  PROVE  NodesSigned'
<1>0. /\ Correct' = Correct /\ UNCHANGED plan /\ Correct \subseteq Node
      /\ peers' = peers /\ NumPeers' = NumPeers
  BY DEF Growth, Correct, SyncInv, SyncType, NumPeers
<1>1. SUFFICES ASSUME NEW m \in Correct, step'[m] >= 4, Remains(m)
               PROVE  Signed(m)'
  BY <1>0 DEF NodesSigned, Remains
<1>2. step[m] \in Nat /\ m \in DOMAIN lock
  BY <1>0 DEF SyncInv, SyncType, PerNode
<1>3. (step[m] >= 4 /\ lock'[m] = lock[m]) \/ LockSigned(m)
  BY <1>1, <1>2, LockGoes DEF LockGoesOn, LockKept, LockFirstMade, LockAggregated
<1>4. lock[m] # NoLock
  BY <1>1, <1>2, <1>3 DEF LockStages, LockSigned
<1>5. lock'[m] # NoLock /\ lock_hash(lock'[m]) = lock_hash(lock[m])
  BY <1>4, HashStays
<1>6. /\ NobodyTwice
      /\ \A r \in peers : NodeSignatures(m, r) # {}
      /\ lock'[m].node_signatures = collect_node_sigs(AllNodeSignatures(m), NumPeers)
      /\ verify_node_signatures(lock'[m], plan.operators)
  <2>1. CASE step[m] >= 4 /\ lock'[m] = lock[m]
    BY <1>1, <2>1 DEF NodesSigned, Signed
  <2>2. CASE LockSigned(m)
    <3>1. "node_signatures" \in DOMAIN lock[m]
      <4>1. lock[m] = Made(m, lock[m].signature_aggregate, lock[m].node_signatures)
        BY <1>4 DEF LockMade
      <4>2. \A x, y : "node_signatures" \in DOMAIN Made(m, x, y)
        BY DEF Made
      <4> QED
        BY <4>1, <4>2
    <3> QED
      BY <1>2, <2>2, <3>1, CollectedLock DEF LockSigned
  <2> QED
    BY <1>3, <2>1, <2>2
<1>7. NobodyTwice'
  BY <1>0, <1>6 DEF NobodyTwice
<1>8. /\ \A r \in peers : NodeSignatures(m, r)' # {}
      /\ AllNodeSignatures(m)' = AllNodeSignatures(m)
  BY <1>4, <1>5, <1>6, AllStay
<1> QED
  BY <1>0, <1>6, <1>7, <1>8 DEF Signed

-----------------------------------------------------------------------------
(* A loaded lock was verified, and has not changed since *)
LoadedVerified == \A n \in Correct : loaded[n] => Verifies(n)

(* Locks are loaded by Load only *)
LEMMA LoadedByLoad ==
  ASSUME PerNode, [Next]_vars, NEW m, loaded'[m], ~loaded[m], m \in Node
  PROVE  Load(m)
<1>1. CASE Quiet
  BY <1>1 DEF Quiet, lock_vars
<1>2. ASSUME NEW n \in Node, Works(n)
      PROVE  Load(m)
  <2>1. CASE Connect(n) \/ FrostRound1(n) \/ FrostRound2(n) \/ FrostFinish(n)
             \/ Deal(n) \/ Reshare(n)
    BY <2>1 DEF Connect, FrostRound1, FrostRound2, FrostFinish, Deal, Reshare, lock_vars
  <2>2. CASE UpdateLock(n) \/ AggregateLock(n) \/ FinishNodeSignatures(n) \/ WriteArtifacts(n)
             \/ Noop(n)
    BY <2>2 DEF UpdateLock, AggregateLock, FinishNodeSignatures, WriteArtifacts, Noop, lock_vars
  <2>3. CASE Load(n)
    <3>1. loaded' = [loaded EXCEPT ![n] = TRUE]
      BY <2>3 DEF Load
    <3>2. m = n
      BY <3>1 DEF PerNode
    <3> QED
      BY <2>3, <3>2
  <2> QED
    BY <1>2, <2>1, <2>2, <2>3 DEF Works
<1> QED
  BY <1>1, <1>2, StepKinds

(* A lock that is written never changes *)
LEMMA LoadedVerifiedStep ==
  ASSUME SyncInv, PlanShape, PerNode, DkgStages, LockStages, LoadedVerified, [Next]_vars
  PROVE  LoadedVerified'
<1>0. Correct' = Correct /\ UNCHANGED plan /\ Correct \subseteq Node
  BY PlanStays DEF Correct, SyncInv, SyncType
<1> SUFFICES ASSUME NEW m \in Correct, loaded'[m]
             PROVE  Verifies(m)'
  BY <1>0 DEF LoadedVerified
<1>1. Verifies(m) /\ lock'[m] = lock[m]
  <2>1. CASE loaded[m]
    <3>1. step[m] >= 5 /\ step[m] \in Nat
      BY <1>0, <2>1 DEF LockStages, SyncInv, SyncType
    <3>2. lock'[m] = lock[m]
      BY <3>1, LockGoes DEF LockGoesOn, LockKept, LockFirstMade, LockAggregated, LockSigned
    <3> QED
      BY <2>1, <3>2 DEF LoadedVerified
  <2>2. CASE ~loaded[m]
    <3>1. Load(m)
      BY <1>0, <2>2, LoadedByLoad
    <3> QED
      BY <3>1 DEF Load
  <2> QED
    BY <2>1, <2>2
<1> QED
  BY <1>0, <1>1 DEF Verifies

(* What holds of a ceremony in every state *)
CeremonyInv ==
  DkgInv /\ LockStages /\ LockMade /\ Aggregated /\ NodesSigned /\ LoadedVerified

(* At the start there are no locks *)
LEMMA CeremonyInvInitial ==
  Init => CeremonyInv
<1> SUFFICES ASSUME Init
             PROVE  CeremonyInv
  OBVIOUS
<1>1. DkgInv
  BY DkgInvInitial
<1>2. Correct \subseteq Node
  BY <1>1 DEF DkgInv, SyncInv, SyncType, Correct
<1>3. \A n \in Correct : step[n] = 0 /\ lock[n] = NoLock /\ ~written[n] /\ ~loaded[n]
  BY <1>2 DEF Init, SyncInit
<1> QED
  BY <1>1, <1>3 DEF CeremonyInv, LockStages, LockMade, Aggregated, NodesSigned, LoadedVerified

(* Every step of a ceremony keeps the invariant *)
LEMMA CeremonyInvStep ==
  CeremonyInv /\ [Next]_vars => CeremonyInv'
<1> SUFFICES ASSUME CeremonyInv, [Next]_vars
             PROVE  CeremonyInv'
  OBVIOUS
<1>1. DkgInv'
  BY DkgInvStep DEF CeremonyInv
<1>2. /\ SyncInv /\ PlanShape /\ PerNode /\ DkgStages /\ LockStages /\ LockMade
      /\ Aggregated /\ NodesSigned /\ LoadedVerified
  BY DEF CeremonyInv, DkgInv
<1>3. Growth
  BY CeremonyGrows DEF CeremonyInv, DkgInv
<1>4. LockStages' /\ LockMade' /\ Aggregated'
  BY <1>2, LockStagesStep, LockMadeStep, AggregatedStep
<1>5. NodesSigned' /\ LoadedVerified'
  BY <1>2, <1>3, NodesSignedStep, LoadedVerifiedStep
<1> QED
  BY <1>1, <1>4, <1>5 DEF CeremonyInv

-----------------------------------------------------------------------------
(* The keys of two nodes that are done make the same lock *)
LEMMA SameValidators ==
  ASSUME DkgInv, NEW m \in Correct, NEW n \in Correct, Remains(m), Remains(n),
         progress[m] = "done", progress[n] = "done"
  PROVE  NewValidators(m) = NewValidators(n)
<1>1. /\ DOMAIN keys[m] = DOMAIN keys[n]
      /\ \A v \in DOMAIN keys[m] :
           /\ keys[m][v].validator_pubkey = keys[n][v].validator_pubkey
           /\ keys[m][v].public_shares = keys[n][v].public_shares
  <2>1. CASE plan.kind = "keygen"
    <3>1. DOMAIN keys[m] = Validators /\ DOMAIN keys[n] = Validators
      BY <2>1, KeygenKeysFormed
    <3>2. Round2Bundles(m) = Round2Bundles(n)
      <4>1. \A i \in 1 .. NumPeers :
              Round2Casts(m, plan.participants[i]) = Round2Casts(n, plan.participants[i])
        <5>1. \A i \in 1 .. NumPeers : plan.participants[i] \in peers
          BY DEF DkgInv, PlanShape, NumPeers, Operators
        <5> QED
          BY <2>1, <5>1, CastsSame DEF DkgInv, RoundsHeard, Round2Heard
      <4> QED
        BY <4>1 DEF Round2Bundles
    <3>3. ASSUME NEW v \in Validators
          PROVE  /\ keys[m][v].validator_pubkey = keys[n][v].validator_pubkey
                 /\ keys[m][v].public_shares = keys[n][v].public_shares
      <4>1. GroupKey(m, v) = GroupKey(n, v)
        BY <2>1, GroupKeySame DEF DkgInv, RoundsHeard
      <4>2. PublicShares(m, v) = PublicShares(n, v)
        BY <3>2 DEF PublicShares
      <4>3. keys[m][v] = [validator_pubkey |-> GroupKey(m, v),
                          secret_share |-> OwnShare(m, v),
                          public_shares |-> PublicShares(m, v)]
        BY <2>1, KeygenKeysFormed
      <4>4. keys[n][v] = [validator_pubkey |-> GroupKey(n, v),
                          secret_share |-> OwnShare(n, v),
                          public_shares |-> PublicShares(n, v)]
        BY <2>1, KeygenKeysFormed
      <4> QED
        BY <4>1, <4>2, <4>3, <4>4
    <3> QED
      BY <3>1, <3>3
  <2>2. CASE plan.kind # "keygen"
    <3>1. DOMAIN keys[m] = Validators /\ DOMAIN keys[n] = Validators
      BY <2>2 DEF DkgInv, KeysKept, ReshareKeys
    <3>2. \A v \in Validators : keys[m][v] = ReshareKey(m, v) /\ keys[n][v] = ReshareKey(n, v)
      BY <2>2, <3>1, ReshareKeysFormed
    <3>3. \A v \in Validators :
            /\ ReshareKey(m, v).validator_pubkey = ReshareKey(n, v).validator_pubkey
            /\ ReshareKey(m, v).public_shares = ReshareKey(n, v).public_shares
      BY DEF ReshareKey
    <3> QED
      BY <3>1, <3>2, <3>3
  <2> QED
    BY <2>1, <2>2
<1> QED
  BY <1>1 DEF NewValidators

(* The barrier makes all who remain sign and verify before anyone writes; they have made the
   same lock, and every signature in it is determined by that lock or by reliable broadcast *)
LEMMA LocksAgree ==
  CeremonyInv => SameArtifacts
<1> SUFFICES ASSUME CeremonyInv, NEW m \in Correct, NEW n \in Correct, written[n], Remains(m)
             PROVE  lock[m] = lock[n]
  BY DEF SameArtifacts
<1>1. DkgInv /\ SyncInv /\ PlanShape /\ DkgStages /\ OneMessage
  BY DEF CeremonyInv, DkgInv
<1>2. step[m] \in Nat /\ step[n] \in Nat /\ step[n] >= 5 /\ Remains(n)
  BY <1>1 DEF CeremonyInv, LockStages, SyncInv, SyncType, Correct
<1>3. step[m] >= 4
  BY <1>1, <1>2 DEF SyncInv, Barrier
<1>4. lock[m] # NoLock /\ lock[n] # NoLock
  BY <1>2, <1>3 DEF CeremonyInv, LockStages
<1>5. /\ lock[m] = Made(m, lock[m].signature_aggregate, lock[m].node_signatures)
      /\ lock[n] = Made(n, lock[n].signature_aggregate, lock[n].node_signatures)
  BY <1>4 DEF CeremonyInv, LockMade
<1>6. NewValidators(m) = NewValidators(n)
  BY <1>1, <1>2, <1>3, DoneAtTwo, SameValidators
<1>7. \A x, y : Made(m, x, y) = Made(n, x, y)
  BY <1>6 DEF Made
<1>8. lock_hash(lock[m]) = lock_hash(lock[n]) /\ lock[m].validators = lock[n].validators
  <2>1. /\ lock_hash(lock[m]) = lock_hash(Made(m, {}, <<>>))
        /\ lock_hash(lock[n]) = lock_hash(Made(n, {}, <<>>))
        /\ lock[m].validators = NewValidators(m)
        /\ lock[n].validators = NewValidators(n)
    BY <1>5, MadeParts
  <2> QED
    BY <1>6, <1>7, <2>1
<1>9. lock[m].signature_aggregate = lock[n].signature_aggregate
  <2>1. verify_signature_aggregate(lock[m]) /\ verify_signature_aggregate(lock[n])
    BY <1>2, <1>3 DEF CeremonyInv, Aggregated
  <2> QED
    BY <1>8, <2>1 DEF verify_signature_aggregate
<1>10. lock[m].node_signatures = lock[n].node_signatures
  <2>1. Signed(m) /\ Signed(n)
    BY <1>2, <1>3 DEF CeremonyInv, NodesSigned
  <2>2. \A r \in peers : NodeSignatures(m, r) = NodeSignatures(n, r)
    <3>1. OneNodeSignature
      BY <1>1, OneSignature
    <3> QED
      BY <1>4, <2>1, <3>1 DEF OneNodeSignature, Signed
  <2>3. \A i \in 0 .. NumPeers - 1 : plan.participants[i + 1] \in peers
    BY <1>1 DEF PlanShape, NumPeers, Operators
  <2>4. AllNodeSignatures(m) = AllNodeSignatures(n)
    BY <2>2, <2>3 DEF AllNodeSignatures
  <2> QED
    BY <2>1, <2>4 DEF Signed
<1> QED
  BY <1>5, <1>7, <1>9, <1>10

-----------------------------------------------------------------------------
(* The indices from 0 of a list, and those from 1 *)
Shifted(K, J) == (\A i \in K : i + 1 \in J) /\ (\A j \in J : j - 1 \in K)

(* There are as many *)
LEMMA ShiftedCount ==
  ASSUME NEW K \in SUBSET Nat, IsFiniteSet(K), NEW J \in SUBSET Nat, Shifted(K, J)
  PROVE  IsFiniteSet(J) /\ Cardinality(J) = Cardinality(K)
<1> DEFINE f == [i \in K |-> i + 1]
<1>1. f \in [K -> J]
  BY DEF Shifted
<1>2. \A a, b \in K : f[a] = f[b] => a = b
  OBVIOUS
<1>3. \A j \in J : \E i \in K : f[i] = j
  <2> TAKE j \in J
  <2>1. j - 1 \in K /\ j \in Nat
    BY DEF Shifted
  <2>2. f[j - 1] = j
    BY <2>1
  <2> QED
    BY <2>1, <2>2
<1> HIDE DEF f
<1>4. f \in Bijection(K, J)
  BY <1>1, <1>2, <1>3 DEF Bijection, Injection, Surjection, IsInjective
<1> QED
  BY <1>4, FS_Bijection DEF ExistsBijection

(* They come in the same order *)
LEMMA ShiftedNth ==
  ASSUME NEW K \in SUBSET Nat, IsFiniteSet(K), NEW J \in SUBSET Nat, Shifted(K, J),
         NEW position \in 1 .. Cardinality(K)
  PROVE  Nth(J, position) = Nth(K, position) + 1
<1> DEFINE i == Nth(K, position)
           j == Nth(J, position)
<1>1. IsFiniteSet(J) /\ Cardinality(J) = Cardinality(K)
  BY ShiftedCount
<1>2. i \in K /\ Cardinality(Below(K, i)) = position - 1
  <2>1. \E k \in K : Cardinality({l \in K : l < k}) = position - 1
    BY PlaceTaken DEF Below
  <2> QED
    BY <2>1 DEF Nth, Below
<1>3. j \in J /\ Cardinality(Below(J, j)) = position - 1
  <2>1. \E k \in J : Cardinality({l \in J : l < k}) = position - 1
    BY <1>1, PlaceTaken DEF Below
  <2> QED
    BY <2>1 DEF Nth, Below
<1> HIDE DEF i, j
<1>4. i + 1 \in J /\ i \in Nat
  BY <1>2 DEF Shifted
<1>5. Cardinality(Below(J, i + 1)) = Cardinality(Below(K, i))
  <2>1. Shifted(Below(K, i), Below(J, i + 1))
    BY <1>4 DEF Shifted, Below
  <2>2. Below(K, i) \in SUBSET Nat /\ Below(J, i + 1) \in SUBSET Nat
    BY DEF Below
  <2> QED
    BY <1>2, <2>1, <2>2, BelowFinite, ShiftedCount
<1>6. j = i + 1
  BY <1>1, <1>2, <1>3, <1>4, <1>5, PlaceUnique
<1> QED
  BY <1>6 DEF i, j

(* The signatures that are collected are, in their order, those of the participants that have
   signed the hash; when they are the ones of the operators, so are the participants *)
LEMMA SignedInOrder ==
  ASSUME CeremonyInv, NEW n \in Correct, written[n]
  PROVE  InOrder
<1> DEFINE p == plan.participants
           sigs == AllNodeSignatures(n)
           K == {i \in 0 .. NumPeers - 1 : sigs[i] # NONE_DATA}
           J == {i \in DOMAIN p : Remains(p[i])}
           hash == lock_hash(lock[n])
           list == lock[n].node_signatures
<1>1. PlanShape /\ NumPeers \in Nat /\ DOMAIN p = 1 .. NumPeers /\ plan.operators \in Seq(Node)
  BY DEF CeremonyInv, DkgInv, PlanShape, NumPeers
<1>2. step[n] \in Nat /\ step[n] >= 5 /\ Remains(n)
  BY DEF CeremonyInv, DkgInv, LockStages, SyncInv, SyncType, Correct
<1>3. /\ lock[n] # NoLock /\ Signed(n)
      /\ verify_node_signatures(lock[n], plan.operators)
  BY <1>2 DEF CeremonyInv, LockStages, NodesSigned, Signed
<1>4. NobodyTwice /\ list = ByAscendingIndex(sigs, K)
  BY <1>3 DEF Signed, collect_node_sigs
<1>5. /\ Len(list) = Len(plan.operators)
      /\ \A k \in DOMAIN plan.operators : list[k] = [key |-> plan.operators[k], digest |-> hash]
  <2>1. lock[n] = Made(n, lock[n].signature_aggregate, lock[n].node_signatures)
    BY <1>3 DEF CeremonyInv, LockMade
  <2>2. lock[n].definition.operators = plan.operators
    BY <2>1, MadeParts
  <2> QED
    BY <1>3, <2>2 DEF verify_node_signatures, num_operators
<1>6. \A i \in K : sigs[i] = [key |-> p[i + 1], digest |-> hash]
  <2> TAKE i \in K
  <2>1. i \in 0 .. NumPeers - 1 /\ sigs[i] # NONE_DATA
    OBVIOUS
  <2>2. p[i + 1] \in peers
    BY <1>1, <2>1 DEF PlanShape, Operators
  <2>3. sigs[i] = The(NodeSignatures(n, p[i + 1]))
    BY <2>1 DEF AllNodeSignatures
  <2>4. sigs[i] \in NodeSignatures(n, p[i + 1])
    BY <1>3, <2>2, <2>3 DEF Signed, The
  <2> QED
    BY <1>3, <2>1, <2>4, SignatureOfMessage
<1>7. K \in SUBSET Nat /\ IsFiniteSet(K) /\ J \in SUBSET Nat
  <2>1. IsFiniteSet(0 .. NumPeers - 1)
    BY <1>1, FS_Interval
  <2>2. K \in SUBSET (0 .. NumPeers - 1)
    OBVIOUS
  <2>3. J \in SUBSET Nat
    BY <1>1
  <2> HIDE DEF K
  <2>4. IsFiniteSet(K)
    BY <2>1, <2>2, FS_Subset
  <2>5. K \in SUBSET Nat
    BY <2>2
  <2> QED
    BY <2>3, <2>4, <2>5
<1>8. J = {i \in 1 .. NumPeers : p[i] \in Operators(plan.operators)}
  BY <1>1 DEF Remains
<1>9. \A i \in 1 .. NumPeers, j \in 1 .. NumPeers : p[i] = p[j] => i = j
  BY <1>4 DEF NobodyTwice
<1>10. \A i \in K : i \in 0 .. NumPeers - 1
  OBVIOUS
<1> HIDE DEF p, sigs, K, hash, list
<1>11. Len(plan.operators) = Cardinality(K) /\ DOMAIN plan.operators = 1 .. Cardinality(K)
  <2>1. DOMAIN list = 1 .. Cardinality(K) /\ Cardinality(K) \in Nat
    BY <1>4, <1>7, FS_CardinalityType DEF ByAscendingIndex
  <2>2. Len(list) = Cardinality(K)
    BY <1>4, <2>1 DEF ByAscendingIndex
  <2> QED
    <3>1. Len(plan.operators) = Cardinality(K)
      BY <1>5, <2>2
    <3>2. DOMAIN plan.operators = 1 .. Len(plan.operators)
      BY <1>1
    <3> QED
      BY <3>1, <3>2
<1>12. \A k \in 1 .. Cardinality(K) : Nth(K, k) \in K /\ plan.operators[k] = p[Nth(K, k) + 1]
  <2> TAKE k \in 1 .. Cardinality(K)
  <2>1. Nth(K, k) \in K
    BY <1>7, NthInIndices
  <2>2. list[k] = sigs[Nth(K, k)]
    BY <1>4 DEF ByAscendingIndex
  <2>3. [key |-> plan.operators[k], digest |-> hash] = [key |-> p[Nth(K, k) + 1], digest |-> hash]
    BY <1>5, <1>6, <1>11, <2>1, <2>2
  <2> QED
    BY <2>1, <2>3
<1>13. Shifted(K, J)
  <2>1. ASSUME NEW i \in K
        PROVE  i + 1 \in J
    <3>1. PICK k \in 1 .. Cardinality(K) : Nth(K, k) = i
      BY <1>7, NthOfEach
    <3>2. p[i + 1] = plan.operators[k]
      BY <1>12, <3>1
    <3> QED
      BY <1>1, <1>8, <1>10, <1>11, <3>2 DEF Operators
  <2>2. ASSUME NEW j \in J
        PROVE  j - 1 \in K
    <3>1. PICK k \in 1 .. Cardinality(K) : p[j] = plan.operators[k]
      BY <1>8, <1>11 DEF Operators
    <3>2. Nth(K, k) \in K /\ p[j] = p[Nth(K, k) + 1]
      BY <1>12, <3>1
    <3>3. j \in 1 .. NumPeers /\ Nth(K, k) + 1 \in 1 .. NumPeers /\ Nth(K, k) \in Nat
      BY <1>1, <1>8, <1>10, <3>2
    <3>4. j = Nth(K, k) + 1
      BY <1>9, <3>2, <3>3
    <3> QED
      BY <3>2, <3>3, <3>4
  <2> QED
    BY <2>1, <2>2 DEF Shifted
<1> HIDE DEF J
<1>14. Cardinality(J) = Cardinality(K)
  BY <1>7, <1>13, ShiftedCount
<1>15. \A k \in 1 .. Cardinality(J) : plan.operators[k] = p[Nth(J, k)]
  <2> TAKE k \in 1 .. Cardinality(J)
  <2>1. Nth(J, k) = Nth(K, k) + 1
    BY <1>7, <1>13, <1>14, ShiftedNth
  <2> QED
    BY <1>12, <1>14, <2>1
<1>16. plan.operators = ByAscendingIndex(p, J)
  BY <1>1, <1>11, <1>14, <1>15 DEF ByAscendingIndex
<1> QED
  BY <1>16 DEF InOrder, p, J

-----------------------------------------------------------------------------
(* A key that recovers is that of every share, each of which is read at its own index if there
   is more than one *)
LEMMA Recovered ==
  ASSUME NEW shares, IsFiniteSet(DOMAIN shares), NEW key, recover_pubkey(shares) = key,
         key # UnknownKey
  PROVE  \A i \in DOMAIN shares :
           /\ shares[i].polynomial.key = key
           /\ shares[i].x = i \/ DOMAIN shares = {i}
<1> DEFINE known == {shares[i] : i \in DOMAIN shares}
           polynomials == {s.polynomial : s \in known}
           f == [i \in DOMAIN shares |-> shares[i].polynomial]
<1>1. /\ \A i \in DOMAIN shares : shares[i].x = i \/ DOMAIN shares = {i}
      /\ Cardinality(polynomials) = 1
      /\ (CHOOSE s \in known : TRUE).polynomial.key = key
  BY DEF recover_pubkey
<1>2. IsFiniteSet(polynomials)
  <2>1. /\ f \in [DOMAIN shares -> polynomials]
        /\ \A t \in polynomials : \E i \in DOMAIN shares : f[i] = t
    OBVIOUS
  <2> HIDE DEF polynomials, f
  <2>2. f \in Surjection(DOMAIN shares, polynomials)
    BY <2>1 DEF Surjection
  <2> QED
    BY <2>2, FS_Surjection
<1>3. PICK t : polynomials = {t}
  <2> HIDE DEF polynomials
  <2> QED
    BY <1>1, <1>2, FS_Singleton
<1>4. \A s \in known : s.polynomial = t
  BY <1>3
<1> SUFFICES ASSUME NEW i \in DOMAIN shares
             PROVE  shares[i].polynomial.key = key
  BY <1>1
<1>5. shares[i] \in known
  OBVIOUS
<1> HIDE DEF known
<1> QED
  BY <1>1, <1>4, <1>5

(* Indices up to some count *)
LEMMA FiniteIndices ==
  ASSUME NEW count \in Nat, NEW S \in SUBSET (1 .. count)
  PROVE  IsFiniteSet(S) /\ S \in SUBSET Nat
<1>1. IsFiniteSet(1 .. count)
  BY FS_Interval
<1>2. IsFiniteSet(S)
  BY <1>1, FS_Subset
<1> QED
  BY <1>2

(* All shares are points of polynomials of one version, and the own one of the group key *)
OfVersion(n, v, version) ==
  /\ \A i \in DOMAIN keys[n][v].public_shares : \E k, x :
       keys[n][v].public_shares[i] = ShareOf(k, version, x)
  /\ keys[n][v].secret_share = ShareOf(keys[n][v].validator_pubkey, version, NewShareIndex(n))

(* Key generation makes version 0, and a reshare version 1 *)
LEMMA SharesOfVersion ==
  ASSUME DkgInv, NEW n \in Correct, Remains(n), progress[n] = "done", NEW v \in Validators
  PROVE  /\ DOMAIN keys[n] = Validators
         /\ keys[n][v].validator_pubkey # UnknownKey
         /\ DOMAIN keys[n][v].public_shares \in SUBSET Nat
         /\ IsFiniteSet(DOMAIN keys[n][v].public_shares)
         /\ \E version : OfVersion(n, v, version)
<1>0. v # 0 /\ n \in peers /\ PlanShape
  BY DEF Validators, Correct, DkgInv
<1>1. CASE plan.kind = "keygen"
  <2>1. DOMAIN keys[n] = Validators
    BY <1>1, KeygenKeysFormed
  <2>2. keys[n][v] = [validator_pubkey |-> GroupKey(n, v),
                      secret_share |-> OwnShare(n, v),
                      public_shares |-> PublicShares(n, v)]
    BY <1>1, KeygenKeysFormed
  <2>3. GroupKey(n, v) # UnknownKey
    BY <1>0 DEF GroupKey, UnknownKey
  <2>4. DOMAIN PublicShares(n, v) \in SUBSET (1 .. NumPeers)
    BY DEF PublicShares, SharesIn
  <2>5. IsFiniteSet(DOMAIN PublicShares(n, v)) /\ DOMAIN PublicShares(n, v) \in SUBSET Nat
    <3>1. NumPeers \in Nat
      BY <1>0 DEF PlanShape, NumPeers
    <3> QED
      BY <2>4, <3>1, FiniteIndices
  <2>6. OfVersion(n, v, 0)
    <3>1. \A i \in DOMAIN PublicShares(n, v) : \E k, x : PublicShares(n, v)[i] = ShareOf(k, 0, x)
      <4> TAKE i \in DOMAIN PublicShares(n, v)
      <4>1. /\ i \in 1 .. NumPeers /\ v \in DOMAIN Round2Bundles(n)[i]
            /\ PublicShares(n, v)[i] = Round2Bundles(n)[i][v].vk_share
        BY DEF PublicShares, SharesIn
      <4> QED
        BY <1>1, <4>1, BundleShape DEF Round2Shape
    <3>2. OwnShare(n, v) = ShareOf(GroupKey(n, v), 0, NewShareIndex(n))
      BY <1>0, <1>1, KeygenIndices DEF OwnShare
    <3> QED
      BY <2>2, <3>1, <3>2 DEF OfVersion
  <2>7. \E version : OfVersion(n, v, version)
    BY <2>6
  <2> QED
    BY <2>1, <2>2, <2>3, <2>5, <2>7
<1>2. CASE plan.kind # "keygen"
  <2>1. DOMAIN keys[n] = Validators
    BY <1>2 DEF DkgInv, KeysKept, ReshareKeys
  <2>2. keys[n][v] = ReshareKey(n, v)
    BY <1>2, <2>1, ReshareKeysFormed
  <2>3. /\ keys[n][v].validator_pubkey = CurrentKey(v)
        /\ keys[n][v].secret_share = ShareOf(CurrentKey(v), 1, NewShareIndex(n))
        /\ keys[n][v].public_shares = [i \in NewIndices |-> ShareOf(CurrentKey(v), 1, i)]
    BY <2>2 DEF ReshareKey
  <2>4. CurrentKey(v) # UnknownKey
    BY <1>0 DEF CurrentKey, UnknownKey
  <2>5. IsFiniteSet(NewIndices) /\ NewIndices \in SUBSET Nat
    <3>1. DOMAIN plan.operators = 1 .. Len(plan.operators) /\ Len(plan.operators) \in Nat
      BY <1>0 DEF PlanShape
    <3>2. \A r \in Operators(plan.operators) : NewShareIndex(r) \in 1 .. Len(plan.operators)
      BY <3>1, Places DEF NewShareIndex, new_lock_share_index
    <3>3. NewIndices \in SUBSET (1 .. Len(plan.operators))
      BY <3>2 DEF NewIndices
    <3> QED
      BY <3>1, <3>3, FiniteIndices
  <2>6. OfVersion(n, v, 1)
    BY <2>3 DEF OfVersion
  <2>7. \E version : OfVersion(n, v, version)
    BY <2>6
  <2> QED
    BY <2>1, <2>3, <2>4, <2>5, <2>7
<1> QED
  BY <1>1, <1>2

(* The sets of shares that verify_shares_reconstruct recovers the key from *)
FirstShares(list, threshold) == [p \in 1 .. threshold |-> list[p]]

(* The first quorum with another share in place of its last one *)
WithShare(list, threshold, position) ==
  [p \in 1 .. threshold - 1 \cup {position} |-> list[p]]

(* All of these recover the key of the validator *)
LEMMA Reconstructs ==
  ASSUME NEW made, verify_shares_reconstruct(made), NEW v \in DOMAIN made.validators,
         NEW list, list = made.validators[v].pubshares,
         NEW threshold, threshold = made.definition.threshold
  PROVE  /\ threshold \in 1 .. Len(list)
         /\ recover_pubkey(FirstShares(list, threshold)) = made.validators[v].pubkey
         /\ \A position \in threshold + 1 .. Len(list) :
              recover_pubkey(WithShare(list, threshold, position)) = made.validators[v].pubkey
  BY DEF verify_shares_reconstruct, FirstShares, WithShare

(* Every share is in one of these sets, so all of them are on polynomials of the group key,
   at their own indices; of one version, these are one polynomial *)
LEMMA LoadedShares ==
  CeremonyInv => SharesOnPolynomial
<1> SUFFICES ASSUME CeremonyInv, NEW n \in Correct, loaded[n], NEW v \in Validators
             PROVE  LET validator == lock[n].validators[v]
                        polynomial == validator.pubshares[1].polynomial
                    IN  /\ polynomial.key = validator.pubkey
                        /\ validator.pubshares = [i \in 1 .. Len(plan.operators) |->
                                                  [polynomial |-> polynomial, x |-> i]]
                        /\ validator.pubshares[NewShareIndex(n)] = keys[n][v].secret_share
  BY DEF SharesOnPolynomial
<1> DEFINE pubkey == keys[n][v].validator_pubkey
           shares == keys[n][v].public_shares
           list == PublicShareList(shares)
           count == Len(plan.operators)
           threshold == plan.threshold
<1>1. DkgInv /\ SyncInv /\ PlanShape /\ DkgStages
  BY DEF CeremonyInv, DkgInv
<1>2. step[n] \in Nat /\ step[n] >= 5 /\ Remains(n)
  BY <1>1 DEF CeremonyInv, LockStages, SyncInv, SyncType, Correct
<1>3. lock[n] # NoLock /\ Verifies(n) /\ progress[n] = "done"
  BY <1>1, <1>2, DoneAtTwo DEF CeremonyInv, LockStages, LoadedVerified
<1>4. /\ DOMAIN keys[n] = Validators
      /\ pubkey # UnknownKey
      /\ DOMAIN shares \in SUBSET Nat
      /\ IsFiniteSet(DOMAIN shares)
      /\ \E version : OfVersion(n, v, version)
  BY <1>1, <1>2, <1>3, SharesOfVersion
<1>5. PICK version : OfVersion(n, v, version)
  BY <1>4
<1>6. /\ lock[n].validators = NewValidators(n)
      /\ lock[n].definition.operators = plan.operators
      /\ lock[n].definition.threshold = threshold
  <2>1. lock[n] = Made(n, lock[n].signature_aggregate, lock[n].node_signatures)
    BY <1>3 DEF CeremonyInv, LockMade
  <2> QED
    BY <2>1, MadeParts
<1>7. /\ v \in DOMAIN lock[n].validators
      /\ lock[n].validators[v].pubkey = pubkey
      /\ lock[n].validators[v].pubshares = list
  BY <1>4, <1>6 DEF NewValidators, DistValidator
<1>8. OfVersion(n, v, version) =>
        /\ \A i \in DOMAIN shares : \E k, x : shares[i] = ShareOf(k, version, x)
        /\ keys[n][v].secret_share = ShareOf(pubkey, version, NewShareIndex(n))
  BY DEF OfVersion
<1>9. count \in Nat /\ NewShareIndex(n) \in 1 .. count
  <2>1. plan.operators \in Seq(Node)
    BY <1>1 DEF PlanShape
  <2>2. n \in Operators(plan.operators)
    BY <1>2 DEF Remains
  <2> QED
    BY <2>1, <2>2, Places DEF NewShareIndex, new_lock_share_index
<1>10. /\ Len(list) = count
       /\ \A i \in DOMAIN list : \A j \in 1 .. i - 1 : ~SameShare(threshold, list[i], list[j])
  BY <1>3, <1>6, <1>7 DEF Verifies, verify_pubshare_counts, num_operators
<1>11. /\ threshold \in 1 .. Len(list)
       /\ recover_pubkey(FirstShares(list, threshold)) = pubkey
       /\ \A position \in threshold + 1 .. Len(list) :
            recover_pubkey(WithShare(list, threshold, position)) = pubkey
  <2> HIDE DEF list, pubkey, threshold
  <2> QED
    BY <1>3, <1>6, <1>7, Reconstructs DEF Verifies
<1> HIDE DEF pubkey, shares, threshold, count
<1>12. /\ DOMAIN list = 1 .. count
       /\ list = [i \in 1 .. count |-> shares[Nth(DOMAIN shares, i)]]
       /\ count = Cardinality(DOMAIN shares)
  <2>1. list = [i \in 1 .. Cardinality(DOMAIN shares) |-> shares[Nth(DOMAIN shares, i)]]
    BY DEF PublicShareList, ByAscendingIndex
  <2>2. Cardinality(DOMAIN shares) \in Nat
    BY <1>4, FS_CardinalityType
  <2>3. Len(list) = Cardinality(DOMAIN shares)
    BY <2>1, <2>2
  <2> QED
    BY <1>10, <2>1, <2>3
<1> HIDE DEF list
<1>13. ASSUME NEW i \in 1 .. count
       PROVE  list[i].polynomial.key = pubkey /\ (threshold # 1 => list[i].x = i)
  <2>1. CASE i <= threshold
    <3> DEFINE some == FirstShares(list, threshold)
    <3>1. DOMAIN some = 1 .. threshold /\ i \in 1 .. threshold /\ some[i] = list[i]
      BY <1>9, <1>10, <1>11, <2>1 DEF FirstShares
    <3>2. IsFiniteSet(DOMAIN some)
      BY <1>9, <1>10, <1>11, <3>1, FS_Interval
    <3> HIDE DEF some
    <3>3. \A j \in DOMAIN some : /\ some[j].polynomial.key = pubkey
                                 /\ some[j].x = j \/ DOMAIN some = {j}
      BY <1>4, <1>11, <3>2, Recovered DEF some
    <3>4. threshold # 1 => 1 \in DOMAIN some /\ 2 \in DOMAIN some
      BY <1>9, <1>10, <1>11, <3>1
    <3> QED
      BY <3>1, <3>3, <3>4
  <2>2. CASE i > threshold
    <3> DEFINE some == WithShare(list, threshold, i)
    <3>1. i \in DOMAIN some /\ some[i] = list[i] /\ DOMAIN some \in SUBSET (1 .. count)
      BY <1>9, <1>10, <1>11, <2>2 DEF WithShare
    <3>2. IsFiniteSet(DOMAIN some)
      BY <1>9, <3>1, FiniteIndices
    <3>3. recover_pubkey(some) = pubkey
      BY <1>9, <1>10, <1>11, <2>2
    <3> HIDE DEF some
    <3>4. \A j \in DOMAIN some : /\ some[j].polynomial.key = pubkey
                                 /\ some[j].x = j \/ DOMAIN some = {j}
      BY <1>4, <3>2, <3>3, Recovered
    <3>5. threshold # 1 => 1 \in DOMAIN some /\ i # 1
      BY <1>9, <1>10, <1>11, <2>2 DEF some, WithShare
    <3> QED
      BY <3>1, <3>4, <3>5
  <2> QED
    BY <1>9, <1>10, <1>11, <2>1, <2>2
<1>13a. ASSUME threshold = 1
        PROVE  count = 1 /\ list[1] = ShareOf(pubkey, version, 1)
  <2>1. count = 1
    <3> SUFFICES ASSUME count # 1
                 PROVE  FALSE
      OBVIOUS
    <3>1. 1 \in 1 .. count /\ 2 \in 1 .. count /\ 1 \in 1 .. 2 - 1
      BY <1>9
    <3>2. list[2].polynomial.key = list[1].polynomial.key
      BY <1>13, <3>1
    <3>3. ~SameShare(threshold, list[2], list[1])
      BY <1>10, <1>12, <3>1
    <3> QED
      BY <1>13a, <3>2, <3>3 DEF SameShare
  <2>2. 1 \in DOMAIN shares /\ shares[1] = ShareOf(pubkey, version, 1)
    <3>1. KeysAgree
      BY <1>1, DkgKeysAgree
    <3>2. NewShareIndex(n) = 1
      BY <1>9, <2>1
    <3> QED
      BY <1>4, <1>5, <1>8, <3>1, <3>2 DEF KeysAgree, shares, pubkey
  <2>3. PICK s : DOMAIN shares = {s}
    BY <1>4, <1>12, <2>1, FS_Singleton
  <2>4. Nth(DOMAIN shares, 1) = 1
    <3>1. Nth(DOMAIN shares, 1) \in DOMAIN shares
      BY <1>4, <1>12, <2>1, NthInIndices
    <3> QED
      BY <2>2, <2>3, <3>1
  <2> QED
    BY <1>12, <2>1, <2>2, <2>4
<1>14. ASSUME NEW i \in 1 .. count
       PROVE  list[i] = ShareOf(pubkey, version, i)
  <2> SUFFICES ASSUME threshold # 1
               PROVE  list[i] = ShareOf(pubkey, version, i)
    BY <1>13a
  <2>1. Nth(DOMAIN shares, i) \in DOMAIN shares
    BY <1>4, <1>12, NthInIndices
  <2>2. list[i] = shares[Nth(DOMAIN shares, i)]
    BY <1>12
  <2>3. PICK k : \E x : list[i] = ShareOf(k, version, x)
    BY <1>5, <1>8, <2>1, <2>2
  <2>4. PICK x : list[i] = ShareOf(k, version, x)
    BY <2>3
  <2>5. k = pubkey /\ x = i
    BY <1>13, <2>4 DEF ShareOf
  <2> QED
    BY <2>4, <2>5
<1>15. 1 \in 1 .. count
  BY <1>9, <1>10, <1>11
<1>16. list[1].polynomial = [key |-> pubkey, version |-> version]
  <2>1. list[1] = ShareOf(pubkey, version, 1)
    BY <1>14, <1>15
  <2> QED
    BY <2>1 DEF ShareOf
<1>17. list = [i \in 1 .. count |-> [polynomial |-> list[1].polynomial, x |-> i]]
  <2>1. \A i \in 1 .. count : list[i] = [polynomial |-> list[1].polynomial, x |-> i]
    BY <1>14, <1>16 DEF ShareOf
  <2>2. list = [i \in 1 .. count |-> list[i]]
    BY <1>12
  <2> QED
    BY <2>1, <2>2
<1>18. list[NewShareIndex(n)] = keys[n][v].secret_share
  BY <1>5, <1>8, <1>9, <1>14
<1>19. list[1].polynomial.key = pubkey
  BY <1>16
<1> QED
  BY <1>7, <1>17, <1>18, <1>19 DEF count

(* When a node has written its artifacts, every correct node that remains has the same lock,
   complete with its signatures, and those who leave do not keep anyone from that *)
THEOREM CeremonySameArtifacts == Spec => []SameArtifacts
<1>1. Spec => []CeremonyInv
  BY CeremonyInvInitial, CeremonyInvStep, PTL DEF Spec
<1> QED
  BY <1>1, LocksAgree, PTL

(* A lock that a node runs with has, at every position, the point of one polynomial of the
   group key, and the node's own share at its own position *)
THEOREM CeremonySharesOnPolynomial == Spec => []SharesOnPolynomial
<1>1. Spec => []CeremonyInv
  BY CeremonyInvInitial, CeremonyInvStep, PTL DEF Spec
<1> QED
  BY <1>1, LoadedShares, PTL

(* No node ever runs with a lock whose operators took part in another order *)
THEOREM CeremonyLoadedInOrder == Spec => []LoadedInOrder
<1>1. CeremonyInv => LoadedInOrder
  BY SignedInOrder DEF LoadedInOrder, CeremonyInv, LockStages
<1>2. Spec => []CeremonyInv
  BY CeremonyInvInitial, CeremonyInvStep, PTL DEF Spec
<1> QED
  BY <1>1, <1>2, PTL

-----------------------------------------------------------------------------
(* The index in the k-th place is the one with k - 1 before it *)
LEMMA NthPlace ==
  ASSUME NEW indices \in SUBSET Nat, IsFiniteSet(indices), NEW k \in 1 .. Cardinality(indices)
  PROVE  Nth(indices, k) \in indices /\ Cardinality(Below(indices, Nth(indices, k))) = k - 1
<1>1. \E i \in indices : Cardinality({j \in indices : j < i}) = k - 1
  BY PlaceTaken DEF Below
<1> QED
  BY <1>1 DEF Nth, Below

(* Of the first numbers, that is k itself *)
LEMMA NthOfFirst ==
  ASSUME NEW count \in Nat, NEW k \in 1 .. count
  PROVE  Cardinality(1 .. count) = count /\ Nth(1 .. count, k) = k
<1> DEFINE first == 1 .. count
<1>1. IsFiniteSet(first) /\ Cardinality(first) = count /\ first \in SUBSET Nat /\ k \in first
  BY FS_Interval
<1>2. Below(first, k) = 1 .. k - 1
  BY DEF Below
<1>3. Cardinality(1 .. k - 1) = k - 1
  BY FS_Interval
<1> HIDE DEF first
<1>4. Nth(first, k) \in first /\ Cardinality(Below(first, Nth(first, k))) = k - 1
  BY <1>1, NthPlace
<1>5. Nth(first, k) = k
  <2>1. PICK i \in first : i = Nth(first, k)
    BY <1>4
  <2>2. Cardinality(Below(first, i)) = Cardinality(Below(first, k))
    BY <1>2, <1>3, <1>4, <2>1
  <2>3. i = k
    BY <1>1, <2>2, PlaceUnique
  <2> QED
    BY <2>1, <2>3
<1> QED
  BY <1>1, <1>5 DEF first

(* The points of one polynomial at the first places *)
Points(key, version, count) == [i \in 1 .. count |-> ShareOf(key, version, i)]

(* They are listed as they are *)
LEMMA PointsListed ==
  ASSUME NEW key, NEW version, NEW count \in Nat
  PROVE  PublicShareList(Points(key, version, count)) = Points(key, version, count)
<1> DEFINE points == Points(key, version, count)
<1>1. DOMAIN points = 1 .. count
  BY DEF Points
<1>2. Cardinality(1 .. count) = count
  BY FS_Interval
<1> HIDE DEF points
<1>3. PublicShareList(points) = [i \in 1 .. count |-> points[Nth(1 .. count, i)]]
  BY <1>1, <1>2 DEF PublicShareList, ByAscendingIndex
<1>4. \A i \in 1 .. count : points[Nth(1 .. count, i)] = ShareOf(key, version, i)
  <2> TAKE i \in 1 .. count
  <2>1. Nth(1 .. count, i) = i
    BY NthOfFirst
  <2> QED
    BY <2>1 DEF points, Points
<1>5. PublicShareList(points) = [i \in 1 .. count |-> ShareOf(key, version, i)]
  BY <1>3, <1>4
<1> QED
  BY <1>5 DEF points, Points

(* Some of these points *)
SomePoints(shares, key, version) ==
  DOMAIN shares # {} /\ \A i \in DOMAIN shares : shares[i] = ShareOf(key, version, i)

(* Any of them recover the key *)
LEMMA PointsRecover ==
  ASSUME NEW shares, NEW key, NEW version, SomePoints(shares, key, version)
  PROVE  recover_pubkey(shares) = key
<1> DEFINE known == {shares[i] : i \in DOMAIN shares}
           polynomial == [key |-> key, version |-> version]
           polynomials == {s.polynomial : s \in known}
<1>1. /\ \A i \in DOMAIN shares : shares[i].x = i /\ shares[i].polynomial = polynomial
      /\ polynomial.key = key
  BY DEF SomePoints, ShareOf
<1>2. known # {} /\ \A s \in known : s.polynomial = polynomial
  BY <1>1 DEF SomePoints
<1> HIDE DEF known, polynomial
<1>3. polynomials = {polynomial}
  BY <1>2
<1>4. Cardinality(polynomials) = 1
  BY <1>3, FS_Singleton
<1>5. (CHOOSE s \in known : TRUE).polynomial.key = key
  BY <1>1, <1>2
<1> QED
  BY <1>1, <1>4, <1>5 DEF recover_pubkey, known

(* What a lock needs for its shares to pass: the keys differ, and all shares of a key are its
   points, as many as there are operators, of whom the threshold asks for no more; and for two
   at least, unless there is one only *)
SharesFit(made, count, amount) ==
  /\ num_operators(made) = count
  /\ made.definition.threshold \in 1 .. count
  /\ made.definition.threshold = 1 => count = 1
  /\ DOMAIN made.validators = 1 .. amount
  /\ \A v \in 1 .. amount : \E version :
       made.validators[v].pubshares = Points(made.validators[v].pubkey, version, count)
  /\ \A v, w \in 1 .. amount : made.validators[v].pubkey = made.validators[w].pubkey => v = w

(* Such a lock passes *)
LEMMA PointsVerify ==
  ASSUME NEW made, NEW count \in Nat, NEW amount \in Nat, SharesFit(made, count, amount)
  PROVE  verify_pubshare_counts(made) /\ verify_shares_reconstruct(made)
<1> DEFINE threshold == made.definition.threshold
<1> USE DEF SharesFit
<1>1. ASSUME NEW v \in 1 .. amount
      PROVE  /\ Len(made.validators[v].pubshares) = count
             /\ \A j \in 1 .. v - 1 : made.validators[j].pubkey # made.validators[v].pubkey
             /\ \A p \in DOMAIN made.validators[v].pubshares : \A q \in 1 .. p - 1 :
                  ~SameShare(threshold, made.validators[v].pubshares[p],
                             made.validators[v].pubshares[q])
             /\ threshold \in 1 .. Len(made.validators[v].pubshares)
             /\ recover_pubkey(FirstShares(made.validators[v].pubshares, threshold)) =
                  made.validators[v].pubkey
             /\ \A position \in threshold + 1 .. Len(made.validators[v].pubshares) :
                  recover_pubkey(WithShare(made.validators[v].pubshares, threshold, position)) =
                    made.validators[v].pubkey
  <2> DEFINE list == made.validators[v].pubshares
             key == made.validators[v].pubkey
  <2>1. PICK version : list = Points(key, version, count)
    OBVIOUS
  <2>2. \A j \in 1 .. v - 1 : made.validators[j].pubkey # key
    <3> SUFFICES ASSUME NEW j \in 1 .. v - 1
                 PROVE  made.validators[j].pubkey # key
      OBVIOUS
    <3>1. j \in 1 .. amount /\ j # v
      OBVIOUS
    <3> QED
      BY <3>1
  <2> HIDE DEF list, key
  <2>3. /\ DOMAIN list = 1 .. count /\ Len(list) = count
        /\ \A i \in 1 .. count : list[i] = ShareOf(key, version, i)
    BY <2>1 DEF Points
  <2>4. \A i \in 1 .. count : list[i].x = i
    BY <2>3 DEF ShareOf
  <2>5. \A p \in 1 .. count : \A q \in 1 .. p - 1 : ~SameShare(threshold, list[p], list[q])
    <3> SUFFICES ASSUME NEW p \in 1 .. count, NEW q \in 1 .. p - 1
                 PROVE  ~SameShare(threshold, list[p], list[q])
      OBVIOUS
    <3>1. list[p].x = p /\ list[q].x = q /\ p # q
      BY <2>4
    <3>2. threshold # 1
      OBVIOUS
    <3> QED
      BY <3>1, <3>2 DEF SameShare
  <2>6. recover_pubkey(FirstShares(list, threshold)) = key
    <3> DEFINE some == FirstShares(list, threshold)
    <3>1. DOMAIN some = 1 .. threshold /\ \A i \in 1 .. threshold : some[i] = list[i]
      BY DEF FirstShares
    <3>2. 1 \in 1 .. threshold /\ \A i \in 1 .. threshold : i \in 1 .. count
      OBVIOUS
    <3> HIDE DEF some
    <3>3. SomePoints(some, key, version)
      BY <2>3, <3>1, <3>2 DEF SomePoints
    <3>4. recover_pubkey(some) = key
      BY <3>3, PointsRecover
    <3> QED
      BY <3>4 DEF some
  <2>7. ASSUME NEW position \in threshold + 1 .. count
        PROVE  recover_pubkey(WithShare(list, threshold, position)) = key
    <3> DEFINE some == WithShare(list, threshold, position)
               places == 1 .. threshold - 1 \cup {position}
    <3>1. DOMAIN some = places /\ \A i \in places : some[i] = list[i]
      BY DEF WithShare
    <3>2. position \in places /\ \A i \in places : i \in 1 .. count
      OBVIOUS
    <3> HIDE DEF some, places
    <3>3. SomePoints(some, key, version)
      BY <2>3, <3>1, <3>2 DEF SomePoints
    <3>4. recover_pubkey(some) = key
      BY <3>3, PointsRecover
    <3> QED
      BY <3>4 DEF some
  <2> QED
    BY <2>2, <2>3, <2>5, <2>6, <2>7 DEF list, key
<1>2. verify_pubshare_counts(made)
  BY <1>1 DEF verify_pubshare_counts
<1> HIDE DEF threshold
<1>3. verify_shares_reconstruct(made)
  <2> SUFFICES ASSUME NEW v \in 1 .. amount
               PROVE  LET shares == made.validators[v].pubshares
                          pubkey == made.validators[v].pubkey
                      IN  /\ threshold \in 1 .. Len(shares)
                          /\ recover_pubkey([p \in 1 .. threshold |-> shares[p]]) = pubkey
                          /\ \A position \in threshold + 1 .. Len(shares) :
                               recover_pubkey([p \in 1 .. threshold - 1 \cup {position} |->
                                                shares[p]]) = pubkey
    BY DEF verify_shares_reconstruct, threshold
  <2> QED
    BY <1>1 DEF FirstShares, WithShare
<1> QED
  BY <1>2, <1>3

(* Operators that take part in their order, nobody twice, have the places of their new shares *)
LEMMA OperatorsTakePart ==
  ASSUME PlanShape, NobodyTwice, InOrder, NEW k \in 1 .. Len(plan.operators)
  PROVE  plan.operators[k] \in peers /\ NewShareIndex(plan.operators[k]) = k
<1> DEFINE p == plan.participants
           J == {i \in DOMAIN p : Remains(p[i])}
<1>1. /\ plan.operators \in Seq(Node) /\ Len(plan.operators) \in Nat
      /\ DOMAIN plan.operators = 1 .. Len(plan.operators)
      /\ DOMAIN p = 1 .. NumPeers /\ NumPeers \in Nat
      /\ peers = {p[i] : i \in DOMAIN p}
  BY DEF PlanShape, NumPeers, Operators
<1>2. J \in SUBSET (1 .. NumPeers)
  BY <1>1
<1>3. plan.operators = ByAscendingIndex(p, J)
  BY DEF InOrder
<1>4. \A i, j \in 1 .. NumPeers : p[i] = p[j] => i = j
  BY DEF NobodyTwice
<1> HIDE DEF J
<1>5. IsFiniteSet(J) /\ J \in SUBSET Nat
  BY <1>1, <1>2, FiniteIndices
<1>6. Cardinality(J) \in Nat
  BY <1>5, FS_CardinalityType
<1>7. Len(plan.operators) = Cardinality(J)
      /\ \A i \in 1 .. Cardinality(J) : plan.operators[i] = p[Nth(J, i)]
  BY <1>3, <1>6 DEF ByAscendingIndex
<1>8. \A i \in 1 .. Cardinality(J) :
        Nth(J, i) \in J /\ Cardinality(Below(J, Nth(J, i))) = i - 1
  BY <1>5, NthPlace
<1>9. plan.operators[k] \in peers
  BY <1>1, <1>2, <1>7, <1>8
<1>10. PICK l : l = PositionOf(plan.operators, plan.operators[k])
  OBVIOUS
<1>11. l \in 1 .. Cardinality(J) /\ plan.operators[l] = plan.operators[k]
  <2>1. plan.operators[k] \in Operators(plan.operators)
    BY <1>1 DEF Operators
  <2> QED
    BY <1>1, <1>7, <1>10, <2>1, Places
<1>12. p[Nth(J, l)] = p[Nth(J, k)] /\ Nth(J, l) \in J /\ Nth(J, k) \in J
  BY <1>7, <1>8, <1>11
<1> HIDE DEF p
<1>13. Nth(J, l) = Nth(J, k)
  BY <1>2, <1>4, <1>12
<1>14. l - 1 = k - 1
  BY <1>7, <1>8, <1>11, <1>13
<1>15. l = k
  BY <1>6, <1>7, <1>11, <1>14
<1> QED
  BY <1>9, <1>10, <1>15 DEF NewShareIndex, new_lock_share_index

(* Without faulty peers, key generation gives every operator its point of the group key *)
LEMMA KeygenPoints ==
  ASSUME DkgInv, peers \cap Faulty = {}, plan.kind = "keygen",
         \A r \in peers : progress[r] = "done", NEW n \in peers, NEW v \in Validators
  PROVE  /\ DOMAIN keys[n] = Validators
         /\ keys[n][v].validator_pubkey = GroupKey(n, v)
         /\ keys[n][v].public_shares = Points(GroupKey(n, v), 0, Len(plan.operators))
<1>1. n \in Correct /\ progress[n] = "done" /\ PlanShape /\ OneMessage /\ Correct = peers
  BY DEF Correct, DkgInv
<1>2. /\ Len(plan.operators) = NumPeers /\ NumPeers \in Nat
      /\ DOMAIN plan.participants = 1 .. NumPeers
      /\ \A i \in 1 .. NumPeers : plan.participants[i] \in peers
  BY <1>1 DEF PlanShape, NumPeers, Operators
<1>3. NobodyTwice /\ \A r \in peers : Round1Heard(r)
  BY <1>1 DEF DkgInv, RoundsHeard
<1>4. /\ DOMAIN keys[n] = Validators
      /\ keys[n][v] = [validator_pubkey |-> GroupKey(n, v),
                       secret_share |-> OwnShare(n, v),
                       public_shares |-> PublicShares(n, v)]
  BY <1>1, KeygenKeysFormed
<1>5. ASSUME NEW i \in 1 .. NumPeers
      PROVE  /\ i \in DOMAIN PublicShares(n, v)
             /\ PublicShares(n, v)[i] = ShareOf(GroupKey(n, v), 0, i)
  <2> DEFINE r == plan.participants[i]
  <2>1. r \in Correct /\ progress[r] = "done" /\ Round1Heard(r)
    BY <1>1, <1>2, <1>3
  <2>2. share_idx_by_peer(r) = i
    <3>1. /\ share_idx_by_peer(r) \in 1 .. NumPeers
          /\ plan.participants[share_idx_by_peer(r)] = r
      BY <1>1, <1>2, KeygenIndices
    <3> QED
      BY <1>3, <3>1 DEF NobodyTwice
  <2> HIDE DEF r
  <2>3. GroupKey(r, v) = GroupKey(n, v)
    BY <1>1, <1>3, <2>1, GroupKeySame
  <2>4. /\ i \in DOMAIN PublicShares(n, v)
        /\ PublicShares(n, v)[i] = OwnShare(r, v)
    BY <1>1, <2>1, <2>2, ShareInPlace
  <2> QED
    BY <2>2, <2>3, <2>4 DEF OwnShare
<1>6. DOMAIN PublicShares(n, v) \in SUBSET (1 .. NumPeers)
  BY DEF PublicShares, SharesIn
<1>7. PublicShares(n, v) = [i \in DOMAIN PublicShares(n, v) |-> PublicShares(n, v)[i]]
  BY DEF PublicShares, SharesIn
<1>8. DOMAIN PublicShares(n, v) = 1 .. NumPeers
  BY <1>5, <1>6
<1>9. PublicShares(n, v) = Points(GroupKey(n, v), 0, NumPeers)
  BY <1>5, <1>7, <1>8 DEF Points
<1> QED
  BY <1>2, <1>4, <1>9

(* A reshare gives them their points, whoever dealt *)
LEMMA ResharePoints ==
  ASSUME DkgInv, NobodyTwice, InOrder, plan.kind # "keygen", NEW n \in Correct, Remains(n),
         progress[n] = "done", NEW v \in Validators
  PROVE  /\ DOMAIN keys[n] = Validators
         /\ keys[n][v].validator_pubkey = CurrentKey(v)
         /\ keys[n][v].public_shares = Points(CurrentKey(v), 1, Len(plan.operators))
<1>1. DOMAIN keys[n] = Validators /\ PlanShape
  BY DEF DkgInv, KeysKept, ReshareKeys
<1>2. keys[n][v] = ReshareKey(n, v)
  BY <1>1, ReshareKeysFormed
<1>3. /\ keys[n][v].validator_pubkey = CurrentKey(v)
      /\ keys[n][v].public_shares = [i \in NewIndices |-> ShareOf(CurrentKey(v), 1, i)]
  BY <1>2 DEF ReshareKey
<1>4. NewIndices = 1 .. Len(plan.operators)
  <2>1. DOMAIN plan.operators = 1 .. Len(plan.operators) /\ Len(plan.operators) \in Nat
    BY <1>1 DEF PlanShape
  <2>2. \A r \in Operators(plan.operators) : NewShareIndex(r) \in 1 .. Len(plan.operators)
    BY <2>1, Places DEF NewShareIndex, new_lock_share_index
  <2>3. \A k \in 1 .. Len(plan.operators) :
          /\ plan.operators[k] \in peers /\ plan.operators[k] \in Operators(plan.operators)
          /\ NewShareIndex(plan.operators[k]) = k
    BY <1>1, <2>1, OperatorsTakePart DEF Operators
  <2>4. \A k \in 1 .. Len(plan.operators) : k \in NewIndices
    <3> TAKE k \in 1 .. Len(plan.operators)
    <3> QED
      BY <2>3 DEF NewIndices
  <2>5. \A k \in NewIndices : k \in 1 .. Len(plan.operators)
    BY <2>2 DEF NewIndices
  <2> QED
    BY <2>4, <2>5
<1> QED
  BY <1>1, <1>3, <1>4 DEF Points

(* By the barrier, all are done when one writes; the signatures in a written lock are verified
   and prove the order of the operators; and then the shares are at the places they belong *)
LEMMA WrittenVerified ==
  CeremonyInv => WrittenLoads
<1> SUFFICES ASSUME CeremonyInv, peers \cap Faulty = {}, UsableThreshold,
                    NEW n \in Correct, written[n]
             PROVE  Verifies(n)
  BY DEF WrittenLoads
<1> DEFINE count == Len(plan.operators)
<1>1. DkgInv /\ SyncInv /\ PlanShape /\ DkgStages /\ Correct = peers
  BY DEF CeremonyInv, DkgInv, Correct
<1>2. step[n] \in Nat /\ step[n] >= 5 /\ Remains(n) /\ lock[n] # NoLock
  BY <1>1 DEF CeremonyInv, LockStages, SyncInv, SyncType, Correct
<1>3. \A r \in peers : progress[r] = "done"
  <2> TAKE r \in peers
  <2>1. step[r] \in Nat /\ step[n] <= step[r] + 1
    BY <1>1 DEF SyncInv, SyncType, Barrier
  <2> QED
    BY <1>1, <1>2, <2>1, DoneAtTwo
<1>4. /\ verify_signature_aggregate(lock[n])
      /\ verify_node_signatures(lock[n], plan.operators)
      /\ NobodyTwice
  BY <1>2 DEF CeremonyInv, Aggregated, NodesSigned, Signed
<1>5. InOrder
  BY SignedInOrder
<1>6. /\ lock[n].validators = NewValidators(n)
      /\ lock[n].definition.operators = plan.operators
      /\ lock[n].definition.threshold = plan.threshold
  <2>1. lock[n] = Made(n, lock[n].signature_aggregate, lock[n].node_signatures)
    BY <1>2 DEF CeremonyInv, LockMade
  <2> QED
    BY <2>1, MadeParts
<1>7. count \in Nat /\ plan.num_validators \in Nat /\ Validators = 1 .. plan.num_validators
  BY <1>1 DEF PlanShape, Validators
<1>8. ASSUME NEW v \in Validators
      PROVE  /\ \E version : keys[n][v].public_shares =
                               Points(keys[n][v].validator_pubkey, version, count)
             /\ keys[n][v].validator_pubkey[1] = v
  <2>1. CASE plan.kind = "keygen"
    <3>1. /\ keys[n][v].validator_pubkey = GroupKey(n, v)
          /\ keys[n][v].public_shares = Points(GroupKey(n, v), 0, count)
      BY <1>1, <1>3, <2>1, KeygenPoints
    <3>2. GroupKey(n, v)[1] = v
      BY DEF GroupKey
    <3> QED
      BY <3>1, <3>2
  <2>2. CASE plan.kind # "keygen"
    <3>1. /\ keys[n][v].validator_pubkey = CurrentKey(v)
          /\ keys[n][v].public_shares = Points(CurrentKey(v), 1, count)
      BY <1>1, <1>2, <1>3, <1>4, <1>5, <2>2, ResharePoints
    <3>2. CurrentKey(v)[1] = v
      BY DEF CurrentKey
    <3> QED
      BY <3>1, <3>2
  <2> QED
    BY <2>1, <2>2
<1>9. DOMAIN keys[n] = Validators
  <2>1. CASE plan.kind = "keygen"
    BY <1>1, <1>3, <2>1, KeygenKeysFormed
  <2>2. CASE plan.kind # "keygen"
    BY <1>1, <1>2, <1>3, <2>2 DEF DkgInv, KeysKept, ReshareKeys
  <2> QED
    BY <2>1, <2>2
<1>10. /\ DOMAIN lock[n].validators = 1 .. plan.num_validators
       /\ \A v \in Validators :
            /\ lock[n].validators[v].pubkey = keys[n][v].validator_pubkey
            /\ lock[n].validators[v].pubshares = PublicShareList(keys[n][v].public_shares)
  BY <1>6, <1>7, <1>9 DEF NewValidators, DistValidator
<1> HIDE DEF count
<1>11. ASSUME NEW v \in 1 .. plan.num_validators
       PROVE  /\ \E version : lock[n].validators[v].pubshares =
                                Points(lock[n].validators[v].pubkey, version, count)
              /\ lock[n].validators[v].pubkey[1] = v
  <2>1. PICK version : keys[n][v].public_shares =
                         Points(keys[n][v].validator_pubkey, version, count)
    BY <1>7, <1>8
  <2>2. PublicShareList(keys[n][v].public_shares) =
          Points(keys[n][v].validator_pubkey, version, count)
    BY <1>7, <2>1, PointsListed
  <2> QED
    BY <1>7, <1>8, <1>10, <2>2
<1>12. /\ num_operators(lock[n]) = count /\ lock[n].definition.threshold \in 1 .. count
       /\ lock[n].definition.threshold = 1 => count = 1
  BY <1>6 DEF UsableThreshold, num_operators, count
<1>13. ASSUME NEW v \in 1 .. plan.num_validators, NEW w \in 1 .. plan.num_validators,
              lock[n].validators[v].pubkey = lock[n].validators[w].pubkey
       PROVE  v = w
  <2>1. lock[n].validators[v].pubkey[1] = v /\ lock[n].validators[w].pubkey[1] = w
    BY <1>11
  <2> QED
    BY <1>13, <2>1
<1>14. verify_pubshare_counts(lock[n]) /\ verify_shares_reconstruct(lock[n])
  <2> DEFINE made == lock[n]
             amount == plan.num_validators
  <2>1. \A v \in 1 .. amount : \E version :
          made.validators[v].pubshares = Points(made.validators[v].pubkey, version, count)
    BY <1>11
  <2>2. \A v \in 1 .. amount : \A w \in 1 .. amount :
          made.validators[v].pubkey = made.validators[w].pubkey => v = w
    BY <1>13
  <2>3. /\ num_operators(made) = count /\ made.definition.threshold \in 1 .. count
        /\ (made.definition.threshold = 1) => (count = 1)
        /\ amount \in Nat /\ DOMAIN made.validators = 1 .. amount
    BY <1>7, <1>10, <1>12
  <2> HIDE DEF made, amount
  <2>4. SharesFit(made, count, amount)
    BY <2>1, <2>2, <2>3 DEF SharesFit
  <2>5. verify_pubshare_counts(made) /\ verify_shares_reconstruct(made)
    BY <1>7, <2>3, <2>4, PointsVerify
  <2> QED
    BY <2>5 DEF made
<1> QED
  BY <1>4, <1>14 DEF Verifies

(* A ceremony of correct nodes never ends in a lock that is rejected when it is loaded,
   whatever the kind of the ceremony, the gaps in the indices and the order in which its
   operators take part, with a threshold from 2 to the number of operators, or of 1 for a
   single operator.  With 1 for several it does: their shares are equal. *)
THEOREM CeremonyWrittenLoads == Spec => []WrittenLoads
<1>1. Spec => []CeremonyInv
  BY CeremonyInvInitial, CeremonyInvStep, PTL DEF Spec
<1> QED
  BY <1>1, WrittenVerified, PTL
=============================================================================
