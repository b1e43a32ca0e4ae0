---------------------------- MODULE MCQBFTVotes -----------------------------
(***************************************************************************)
(* A small cluster for QBFTVotes.  The leader of round 1 is peer 0.        *)
(***************************************************************************)
EXTENDS QBFTVotes

CONSTANTS v0, v1, v2

(* Nobody proposes v2 *)
Values == {v0, v1, v2}

FirstLeader == Nodes - 1

(* The first leader proposes v0, everyone else v1 *)
Proposals == [p \in 0 .. Nodes - 1 |-> IF p = 0 THEN v0 ELSE v1]
=============================================================================
