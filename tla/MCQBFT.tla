------------------------------- MODULE MCQBFT -------------------------------
(***************************************************************************)
(* Small clusters for QBFT.  The leader of round 1 is peer 0.              *)
(***************************************************************************)
EXTENDS QBFT

CONSTANTS v0, v1

Values == {v0, v1}

FirstLeader == Nodes - 1

(* The first leader proposes v0, everyone else v1 *)
Proposals == [p \in 0 .. Nodes - 1 |-> IF p = 0 THEN v0 ELSE v1]

(* Can handling copy c still make a difference to p?  Not a vote of an earlier
   round, nor a PREPARE when the quorum has been found, nor a ROUND_CHANGE of
   the round at a peer that does not lead it or has proposed.  A late PRE_PREPARE
   may. *)
Useful(p, c) ==
  LET b == c[1].msg
  IN \/ b.type \in {"PRE_PREPARE", "DECIDED"}
     \/ b.round > round[p]
     \/ /\ b.round = round[p]
        /\ b.type = "PREPARE" => "QUORUM_PREPARES" \notin dedup_rules[p]
        /\ b.type = "ROUND_CHANGE" =>
             IsLeader(b.round, p) /\ "QUORUM_ROUND_CHANGES" \notin dedup_rules[p]

(* Of some copies, the votes that p has sent to itself come first *)
OwnFirst(p, copies) ==
  LET own == {c \in copies : /\ c[1].msg.peer = p
                             /\ c[1].msg.round = round[p]
                             /\ c[1].msg.type # "PRE_PREPARE"}
  IN IF own = {} THEN copies ELSE own

Driver(p) == Start(p) \/ Timeout(p)

(* Bound: useless copies are lost and a peer handles its own votes first.  (No
   value but v1 is proposed when peer 0 is down: Ignore has no effect.) *)
PromptNext ==
  \/ \E p \in Up : Driver(p)
  \/ \E p \in Up : \E c \in OwnFirst(p, {d \in sent \ buffer[p] : Useful(p, d)}) : Handle(p, c)
  \/ \E p \in Up, c \in sent : ResendDecided(p, c)

FairPromptSpec == Init /\ [][PromptNext]_vars /\ WF_vars(PromptNext)

(* Two peers that are a quorum of three: the leader of round r and the next one *)
Pair(r) == {r - 1, r}

(* Does copy c reach p when, in round r, the PREPAREs travel only within the pair,
   the COMMITs only from it, and the ROUND_CHANGEs only to the leader?  A peer of
   the pair hears its COMMITs after a quorum of PREPAREs. *)
OnPair(p, c) ==
  LET b == c[1].msg
  IN /\ b.type \in {"PREPARE", "COMMIT"} =>
          b.round = round[p] /\ b.peer \in Pair(b.round) \cup {p}
     /\ b.type = "PREPARE" => p \in Pair(b.round) \/ b.peer = p
     /\ b.type = "COMMIT" /\ p \in Pair(b.round) => "QUORUM_PREPARES" \in dedup_rules[p]
     /\ b.type = "ROUND_CHANGE" => IsLeader(b.round, p)

(* Bound: besides, only what OnPair lets through is delivered *)
PairNext ==
  \/ \E p \in Up : Driver(p)
  \/ \E p \in Up :
       \E c \in OwnFirst(p, {d \in sent \ buffer[p] : Useful(p, d) /\ OnPair(p, d)}) : Handle(p, c)

PairSpec == Init /\ [][PairNext]_vars

(* The peer that lags behind: it hears no COMMIT and only its timer fires *)
Laggard == 1

(* Bound: besides, only ROUND_CHANGEs to a decided cluster are duplicated *)
LaggardNext ==
  \/ \E p \in Up : Start(p)
  \/ Timeout(Laggard)
  \/ \E p \in Up :
       \E c \in OwnFirst(p, {d \in sent \ buffer[p] : Useful(p, d)}) :
          /\ c[1].msg.type = "COMMIT" => p # Laggard
          /\ Handle(p, c)
  \/ \E p \in Up, c \in sent : ResendDecided(p, c)
  \/ \E p \in Up, c \in sent : Ignore(p, c)
  \/ \E c \in sent : /\ c[1].msg.type = "ROUND_CHANGE"
                    /\ \E p \in Up : Decided(p)
                    /\ Duplicate(c)

LaggardSpec == Init /\ [][LaggardNext]_vars

(* Bound: besides, the COMMITs and whatever reaches a peer after round 1 are lost, a
   peer hears the PRE_PREPARE first, and gives up its round only when it has prepared *)
CrowdedNext ==
  \/ \E p \in Up : Start(p)
  \/ \E p \in Up : prepared[p].round > 0 /\ Timeout(p)
  \/ \E p \in {q \in Up : round[q] = 1} :
       \E c \in OwnFirst(p, {d \in sent \ buffer[p] : Useful(p, d)}) :
          /\ c[1].msg.type # "COMMIT"
          /\ c[1].msg.type = "PRE_PREPARE" \/ "JUSTIFIED_PRE_PREPARE" \in dedup_rules[p]
          /\ Handle(p, c)

CrowdedSpec == Init /\ [][CrowdedNext]_vars
=============================================================================
