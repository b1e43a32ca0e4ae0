----------------------------- MODULE MCCeremony -----------------------------
(***************************************************************************)
(* Instances of Ceremony: key generation by three nodes, one of them       *)
(* faulty or not, and by two with a threshold of 1; edits of clusters of   *)
(* two to four, down to a single operator.                                 *)
(***************************************************************************)
EXTENDS Ceremony

CONSTANTS a, b, c, d, x, x1, x2

Request_(kind, operators, threshold) ==
  [kind |-> kind, num_validators |-> 1, operators |-> operators, threshold |-> threshold,
   new |-> <<>>, old |-> a, removing |-> <<>>, participating |-> <<>>]

KeygenRequests ==
  {[Request_("keygen", <<a, b, c>>, 2) EXCEPT !.num_validators = 2],
   Request_("keygen", <<a, b, x>>, 2),
   Request_("keygen", <<a, b>>, 1)}

RemoveRequest(operators, removing, participating, threshold) ==
  [Request_("remove", operators, threshold) EXCEPT
    !.removing = removing, !.participating = participating]

EditRequests ==
  {Request_("reshare", <<a, b, c>>, 2),
   [Request_("add", <<a, b>>, 2) EXCEPT !.new = <<c>>],
   [Request_("replace", <<a, b, c>>, 2) EXCEPT !.old = b, !.new = d],
   [Request_("replace", <<a, b, c>>, 2) EXCEPT !.old = d, !.new = d],
   RemoveRequest(<<a, b, c, d>>, <<a>>, <<>>, NoOverride),
   RemoveRequest(<<a, b, c, d>>, <<a>>, <<a, b, c, d>>, NoOverride),
   RemoveRequest(<<a, b, c, d>>, <<b>>, <<d, c, a>>, NoOverride),
   RemoveRequest(<<a, b, c, d>>, <<b>>, <<a, c>>, NoOverride),
   RemoveRequest(<<a, b, c, d>>, <<b>>, <<>>, 3),
   RemoveRequest(<<a, b>>, <<a>>, <<>>, NoOverride),
   RemoveRequest(<<a, b, c>>, <<d>>, <<>>, NoOverride)}

MCRequest == KeygenRequests \cup EditRequests
MCMessageId == {"round1/cast", "round2/cast", "node_sig"}
=============================================================================
