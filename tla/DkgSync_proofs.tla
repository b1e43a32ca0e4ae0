---------------------------- MODULE DkgSync_proofs ----------------------------
(***************************************************************************)
(* The barrier between the steps of a ceremony holds for any peers and any *)
(* number of steps.                                                        *)
(***************************************************************************)
EXTENDS DkgSync, TLAPS

(* The types of the peers and their steps *)
SyncType ==
  /\ peers \subseteq Node
  /\ step \in [Node -> Nat]

(* The inductive invariant: given the types, the barrier is inductive as it stands *)
SyncInv == SyncType /\ Barrier

(* A node moves on when all others have reached its step *)
LEMMA AdvanceStep ==
  ASSUME SyncInv, UNCHANGED peers, NEW n \in Node, Advance(n)
  PROVE  SyncInv'
<1>1. step' = [step EXCEPT ![n] = step[n] + 1]
  BY DEF Advance
<1>2. SyncType'
  BY <1>1 DEF SyncInv, SyncType
<1>3. Barrier'
  <2> SUFFICES ASSUME NEW p \in Correct, NEW q \in Correct
               PROVE  step'[p] <= step'[q] + 1
    BY DEF Barrier, Correct
  <2>1. p \in Node /\ q \in Node /\ n \in Correct
    BY DEF SyncInv, SyncType, Correct, Advance
  <2>2. step[p] \in Nat /\ step[q] \in Nat /\ step[n] \in Nat
    BY <2>1 DEF SyncInv, SyncType
  <2>3. step[p] <= step[q] + 1 /\ step[q] >= step[n]
    BY DEF SyncInv, Barrier, Advance, await_all_at_step
  <2>4. /\ step'[p] = IF p = n THEN step[n] + 1 ELSE step[p]
        /\ step'[q] = IF q = n THEN step[n] + 1 ELSE step[q]
    BY <1>1, <2>1 DEF SyncInv, SyncType
  <2> QED
    BY <2>2, <2>3, <2>4
<1> QED
  BY <1>2, <1>3 DEF SyncInv

(* All nodes start at the same step *)
LEMMA SyncInitial ==
  ASSUME peers \subseteq Node, SyncInit
  PROVE  SyncInv
<1>1. SyncType
  BY DEF SyncInit, SyncType
<1>2. Barrier
  BY DEF SyncInit, Barrier, Correct
<1> QED
  BY <1>1, <1>2 DEF SyncInv

(* Every step keeps the invariant *)
LEMMA SyncStep ==
  ASSUME SyncInv, [SyncNext]_<<peers, step>>
  PROVE  SyncInv'
<1>1. CASE SyncNext
  BY <1>1, AdvanceStep DEF SyncNext
<1>2. CASE UNCHANGED <<peers, step>>
  BY <1>2 DEF SyncInv, SyncType, Barrier, Correct
<1> QED
  BY <1>1, <1>2

(* No correct node is ever more than one step ahead of another (message.py:89) *)
THEOREM StepsAreBarriers == SyncSpec => []Barrier
<1>1. SyncSpec => []SyncInv
  BY SyncInitial, SyncStep, PTL DEF SyncSpec
<1>2. SyncInv => Barrier
  BY DEF SyncInv
<1> QED
  BY <1>1, <1>2, PTL
=============================================================================
