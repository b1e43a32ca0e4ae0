------------------------------ MODULE DkgPeers ------------------------------
(***************************************************************************)
(* What the parts of a DKG ceremony share: the nodes that take part in it. *)
(***************************************************************************)
CONSTANTS
  Node,      \* every node that may take part
  Faulty     \* those that do not follow the protocol

VARIABLE peers     \* the participants of the ceremony

Correct == peers \ Faulty
=============================================================================
