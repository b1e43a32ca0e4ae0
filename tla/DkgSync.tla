------------------------------- MODULE DkgSync -------------------------------
(***************************************************************************)
(* The step barrier of a DKG ceremony (subspecs/dkg_sync/message.py): a    *)
(* node reports its step to all others, and starts the work of a step when *)
(* all of them have reached it.  External: the streams that carry the      *)
(* reports.  A report that is late only delays the barrier, so the model   *)
(* reads the steps themselves; faulty nodes report what they like.         *)
(***************************************************************************)
EXTENDS DkgPeers, Integers

CONSTANT LastStep     \* shutdown ready

ASSUME DkgSyncAssumption == LastStep \in Nat

VARIABLE step         \* step[n]: the step n reports

(* Mutant: the barrier lifts when the first peer arrives *)
AnyAtStep(k) == \E p \in Correct : step[p] >= k

(* A peer that is ahead has reached the step, too *)
await_all_at_step(k) == \A p \in Correct : step[p] >= k

SyncInit == step = [n \in Node |-> 0]

(* n has done the work of its step *)
Advance(n) ==
  /\ n \in Correct
  /\ step[n] < LastStep
  /\ await_all_at_step(step[n])
  /\ step' = [step EXCEPT ![n] = @ + 1]

SyncNext == (\E n \in Node : Advance(n)) /\ UNCHANGED peers

SyncSpec == (peers \subseteq Node /\ SyncInit) /\ [][SyncNext]_<<peers, step>>

-----------------------------------------------------------------------------
(* Steps are barriers: no node has finished a step that another has not reached
   (message.py:89, "only when all clients reach the same step does the ceremony progress") *)
Barrier == \A p, q \in Correct : step[p] <= step[q] + 1
=============================================================================
