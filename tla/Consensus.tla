----------------------------- MODULE Consensus ------------------------------
(***************************************************************************)
(* What one QBFT instance promises the duty it runs for: a peer decides    *)
(* once, every other peer that decides takes the same value, and the value *)
(* is one that some peer proposed.                                         *)
(***************************************************************************)
EXTENDS QBFTDefinition

VARIABLE decided   \* decided[p]: the value p has decided, or NoValue

(* The values that enter the instances: each peer's proposal_value *)
Proposed == {Proposal[p] : p \in Peer}

Init == decided = [p \in Peer |-> NoValue]

Decide(p, v) ==
  /\ decided[p] = NoValue
  /\ v \in Proposed
  /\ \A q \in Peer : decided[q] \in {NoValue, v}
  /\ decided' = [decided EXCEPT ![p] = v]

Next == \E p \in Peer, v \in Value : Decide(p, v)

Spec == Init /\ [][Next]_decided
=============================================================================
