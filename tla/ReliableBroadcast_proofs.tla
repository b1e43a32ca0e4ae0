----------------------- MODULE ReliableBroadcast_proofs -----------------------
(***************************************************************************)
(* Reliable broadcast never lets correct peers deliver two messages of one *)
(* requester under one ID.  A correct peer has signed one message at most, *)
(* and a message that is delivered was signed by all correct peers, the    *)
(* one that delivers it among them.                                        *)
(***************************************************************************)
EXTENDS ReliableBroadcast, TLAPS

(* Two signatures of one peer for one requester and ID *)
SameSlot(s, t) ==
  s.peer = t.peer /\ s.requester = t.requester /\ s.message_id = t.message_id

(* The equivocation guard: one message per peer, requester and ID *)
SignedOnce == \A s, t \in signed : SameSlot(s, t) => s.message = t.message

(* Deliveries are of correct peers, and were signed by all of them *)
DeliveredSigned ==
  \A d \in delivered :
    /\ d.peer \in Correct
    /\ \A q \in Correct : BCast(q, d.requester, d.message_id, d.message) \in signed

(* The inductive invariant *)
BcastInv == SignedOnce /\ DeliveredSigned

(* The fields of a signature *)
LEMMA BCastFields ==
  ASSUME NEW p, NEW r, NEW id, NEW m
  PROVE  /\ BCast(p, r, id, m).peer = p
         /\ BCast(p, r, id, m).requester = r
         /\ BCast(p, r, id, m).message_id = id
         /\ BCast(p, r, id, m).message = m
  BY DEF BCast

(* Deliveries stay signed when signatures are only added *)
LEMMA DeliveriesStaySigned ==
  ASSUME DeliveredSigned, UNCHANGED <<peers, delivered>>, signed \subseteq signed'
  PROVE  DeliveredSigned'
  BY DEF DeliveredSigned, Correct

(* A correct node asks for signatures: whoever signed another message under the ID refuses *)
LEMMA RequestStep ==
  ASSUME BcastInv, UNCHANGED peers, NEW r, NEW id, NEW m, Request(r, id, m)
  PROVE  BcastInv'
<1> DEFINE new == {BCast(p, r, id, m) : p \in {q \in Correct : MaySign(q, r, id, m)}}
<1>1. signed' = signed \cup new /\ UNCHANGED delivered
  BY DEF Request
<1>2. ASSUME NEW s \in new
      PROVE  s.message = m /\ \A t \in signed : SameSlot(t, s) => t.message = s.message
  <2>1. PICK p \in Correct : MaySign(p, r, id, m) /\ s = BCast(p, r, id, m)
    BY <1>2
  <2>2. s.peer = p /\ s.requester = r /\ s.message_id = id /\ s.message = m
    BY <2>1, BCastFields
  <2> QED
    BY <2>1, <2>2 DEF MaySign, SameSlot
<1>3. SignedOnce'
  <2> SUFFICES ASSUME NEW s \in signed \cup new, NEW t \in signed \cup new, SameSlot(s, t)
               PROVE  s.message = t.message
    BY <1>1 DEF SignedOnce, SameSlot
  <2>1. SameSlot(t, s)
    BY DEF SameSlot
  <2>2. CASE s \in signed /\ t \in signed
    BY <2>2 DEF BcastInv, SignedOnce
  <2>3. CASE s \in new /\ t \in new
    BY <1>2, <2>3
  <2>4. CASE s \in new /\ t \in signed
    BY <1>2, <2>1, <2>4
  <2>5. CASE s \in signed /\ t \in new
    BY <1>2, <2>5
  <2> QED
    BY <2>2, <2>3, <2>4, <2>5
<1>4. DeliveredSigned'
  <2>1. signed \subseteq signed'
    BY <1>1
  <2> QED
    BY <1>1, <2>1, DeliveriesStaySigned DEF BcastInv
<1> QED
  BY <1>3, <1>4 DEF BcastInv

(* A faulty peer asks for a signature: the guard lets one message through *)
LEMMA SignStep ==
  ASSUME BcastInv, UNCHANGED peers, NEW p, NEW r, NEW id, NEW m, Sign(p, r, id, m)
  PROVE  BcastInv'
<1>1. signed' = signed \cup {BCast(p, r, id, m)} /\ UNCHANGED delivered
  BY DEF Sign
<1>2. \A t \in signed : SameSlot(t, BCast(p, r, id, m)) => t.message = m
  BY BCastFields DEF Sign, MaySign, SameSlot
<1>3. SignedOnce'
  <2> SUFFICES ASSUME NEW s \in signed \cup {BCast(p, r, id, m)},
                      NEW t \in signed \cup {BCast(p, r, id, m)}, SameSlot(s, t)
               PROVE  s.message = t.message
    BY <1>1 DEF SignedOnce, SameSlot
  <2>1. SameSlot(t, s)
    BY DEF SameSlot
  <2>2. CASE s \in signed /\ t \in signed
    BY <2>2 DEF BcastInv, SignedOnce
  <2>3. CASE s = BCast(p, r, id, m)
    BY <1>2, <2>1, <2>3, BCastFields
  <2>4. CASE t = BCast(p, r, id, m)
    BY <1>2, <2>4, BCastFields
  <2> QED
    BY <2>2, <2>3, <2>4
<1>4. DeliveredSigned'
  <2>1. signed \subseteq signed'
    BY <1>1
  <2> QED
    BY <1>1, <2>1, DeliveriesStaySigned DEF BcastInv
<1> QED
  BY <1>3, <1>4 DEF BcastInv

(* What is delivered carries the signatures of all peers *)
LEMMA DeliverStep ==
  ASSUME BcastInv, UNCHANGED peers, NEW p, NEW r, NEW id, NEW m, Deliver(p, r, id, m)
  PROVE  BcastInv'
<1>1. delivered' = delivered \cup {BCast(p, r, id, m)} /\ UNCHANGED signed
  BY DEF Deliver
<1>2. SignedOnce'
  BY <1>1 DEF BcastInv, SignedOnce, SameSlot
<1>3. DeliveredSigned'
  <2> SUFFICES ASSUME NEW d \in delivered \cup {BCast(p, r, id, m)}
               PROVE  /\ d.peer \in Correct
                      /\ \A q \in Correct :
                           BCast(q, d.requester, d.message_id, d.message) \in signed
    BY <1>1 DEF DeliveredSigned, Correct
  <2>1. CASE d \in delivered
    BY <2>1 DEF BcastInv, DeliveredSigned
  <2>2. CASE d = BCast(p, r, id, m)
    BY <2>2, BCastFields DEF Deliver
  <2> QED
    BY <2>1, <2>2
<1> QED
  BY <1>2, <1>3 DEF BcastInv

(* Nothing is signed or delivered at the start *)
LEMMA BcastInitial ==
  ASSUME BcastInit
  PROVE  BcastInv
  BY DEF BcastInit, BcastInv, SignedOnce, DeliveredSigned

(* Every step keeps the invariant *)
LEMMA BcastStep ==
  ASSUME BcastInv, [BcastNext]_<<peers, bcast_vars>>
  PROVE  BcastInv'
<1>1. CASE BcastNext
  <2>1. PICK p \in Node, r \in Node, id \in MessageId :
          \E m : Request(r, id, m) \/ Sign(p, r, id, m) \/ Deliver(p, r, id, m)
    BY <1>1 DEF BcastNext
  <2>2. PICK m : Request(r, id, m) \/ Sign(p, r, id, m) \/ Deliver(p, r, id, m)
    BY <2>1
  <2>3. UNCHANGED peers
    BY <1>1 DEF BcastNext
  <2> QED
    BY <2>2, <2>3, RequestStep, SignStep, DeliverStep
<1>2. CASE UNCHANGED <<peers, bcast_vars>>
  BY <1>2 DEF bcast_vars, BcastInv, SignedOnce, SameSlot, DeliveredSigned, Correct
<1> QED
  BY <1>1, <1>2

(* The peer of one of the two deliveries is correct, and has signed both messages *)
LEMMA AgreementFromInv ==
  ASSUME BcastInv
  PROVE  BroadcastAgreement
<1> SUFFICES ASSUME NEW d \in delivered, NEW e \in delivered,
                    d.requester = e.requester, d.message_id = e.message_id
             PROVE  d.message = e.message
  BY DEF BroadcastAgreement
<1> DEFINE s == BCast(d.peer, d.requester, d.message_id, d.message)
           t == BCast(d.peer, e.requester, e.message_id, e.message)
<1>1. s \in signed /\ t \in signed
  BY DEF BcastInv, DeliveredSigned
<1>2. SameSlot(s, t) /\ s.message = d.message /\ t.message = e.message
  BY BCastFields DEF SameSlot
<1> QED
  BY <1>1, <1>2 DEF BcastInv, SignedOnce

(* Whatever the peers, and however many of them are faulty, no two correct peers deliver
   different messages of one requester under one ID (the guard of reliable_broadcast.py:72) *)
THEOREM BroadcastsAgree == BcastSpec => []BroadcastAgreement
<1>1. BcastSpec => []BcastInv
  BY BcastInitial, BcastStep, PTL DEF BcastSpec
<1> QED
  BY <1>1, AgreementFromInv, PTL
=============================================================================
