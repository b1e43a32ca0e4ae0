----------------------------- MODULE MCInfoSync -----------------------------
(***************************************************************************)
(* InfoSync in a cluster of three nodes, of which two must support a       *)
(* priority; one is faulty: it repeats a priority, or announces like the   *)
(* others.  Epochs of two slots, three exchanges and histories of fewer     *)
(* than three results, so that one is dropped.                             *)
(***************************************************************************)
EXTENDS InfoSync

MCConsensusName == "abft/1" :> "abft" @@ "leader/1" :> "leader" @@ "qbft/2" :> "qbft"

Old == [versions |-> <<"v1">>, protocols |-> <<"parsigex", "qbft/2", "abft/1">>,
        configured |-> "", builder |-> FALSE, synthetic |-> FALSE]
New == [versions |-> <<"v2", "v1">>, protocols |-> <<"parsigex", "qbft/2", "abft/1">>,
        configured |-> "abft", builder |-> TRUE, synthetic |-> FALSE]

MCConfig == {Old, New}

MCFaultyTopics ==
  { LocalTopics(New),
    << [topic |-> "version", priorities |-> <<"v1">>],
       [topic |-> "protocol", priorities |-> <<"leader/1", "leader/1">>],
       [topic |-> "proposal", priorities |-> <<"builder">>] >> }
=============================================================================
