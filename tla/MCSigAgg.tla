------------------------------ MODULE MCSigAgg ------------------------------
(***************************************************************************)
(* SigAgg in a cluster of four nodes with threshold 3 = ceil(2n/3), one of *)
(* which is faulty; two roots.                                             *)
(***************************************************************************)
EXTENDS SigAgg

MCNode == 1 .. 4
MCThreshold == (2 * Cardinality(MCNode) + 2) \div 3
=============================================================================
