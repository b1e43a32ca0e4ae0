-------------------------- MODULE ReliableBroadcast --------------------------
(***************************************************************************)
(* Reliable broadcast (subspecs/reliable_bcast/reliable_broadcast.py): a   *)
(* requester collects the signature of every peer over the hash of one     *)
(* message per ID, and broadcasts the message with all of them.  A hash    *)
(* stands for its message.                                                 *)
(*                                                                         *)
(* The signatures for a correct requester are collected in one step: it    *)
(* asks once, and no peer has a reason to refuse it.  A faulty requester   *)
(* asks every peer for whatever it likes, and a faulty peer signs it all.  *)
(***************************************************************************)
EXTENDS DkgPeers

CONSTANT MessageId     \* the message IDs of the ceremony

VARIABLES
  signed,       \* the guards of the correct peers: what each has signed, for whom
  delivered     \* what the correct peers have delivered

bcast_vars == <<signed, delivered>>

(* A signature, or a delivery, of peer p for the message of requester r under an ID *)
BCast(p, r, id, m) == [peer |-> p, requester |-> r, message_id |-> id, message |-> m]

(* Mutant: the guard is kept per requester and hash *)
MaySignAnything(p, r, id, m) == TRUE

(* EquivocationGuardKey: one hash per requester and message ID *)
MaySign(p, r, id, m) ==
  \A s \in signed :
    (s.peer = p /\ s.requester = r /\ s.message_id = id) => s.message = m

BcastInit ==
  /\ signed = {}
  /\ delivered = {}

(* Correct node r asks every peer to sign m, and signs it itself *)
Request(r, id, m) ==
  /\ r \in Correct
  /\ ~\E s \in signed : s.peer = r /\ s.requester = r /\ s.message_id = id
  /\ signed' = signed \cup {BCast(p, r, id, m) : p \in {q \in Correct : MaySign(q, r, id, m)}}
  /\ UNCHANGED delivered

(* Peer p answers a BCastSigRequest of a faulty requester; a second one for the same hash
   is answered alike, and changes nothing *)
Sign(p, r, id, m) ==
  /\ p \in Correct /\ r \in peers \cap Faulty
  /\ BCast(p, r, id, m) \notin signed
  /\ MaySign(p, r, id, m)
  /\ signed' = signed \cup {BCast(p, r, id, m)}
  /\ UNCHANGED delivered

(* BCastMessage: p delivers a message that carries the signatures of all peers; a second
   copy of it changes nothing *)
Deliver(p, r, id, m) ==
  /\ p \in Correct /\ p # r
  /\ BCast(p, r, id, m) \notin delivered
  /\ \A q \in Correct : BCast(q, r, id, m) \in signed
  /\ delivered' = delivered \cup {BCast(p, r, id, m)}
  /\ UNCHANGED signed

BcastNext ==
  /\ \E p, r \in Node, id \in MessageId : \E m :
       Request(r, id, m) \/ Sign(p, r, id, m) \/ Deliver(p, r, id, m)
  /\ UNCHANGED peers

BcastSpec == (peers \subseteq Node /\ BcastInit) /\ [][BcastNext]_<<peers, bcast_vars>>

-----------------------------------------------------------------------------
(* No requester gets two correct peers to deliver different messages under one ID, however
   many peers sign whatever they are asked to (reliable_broadcast.py:3, "equivocation
   resistance for a single message per ID") *)
BroadcastAgreement ==
  \A d, e \in delivered :
    (d.requester = e.requester /\ d.message_id = e.message_id) => d.message = e.message
=============================================================================
