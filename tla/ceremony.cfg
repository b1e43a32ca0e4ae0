SPECIFICATION Spec
CONSTANTS
  a = a  b = b  c = c  d = d  x = x  x1 = x1  x2 = x2
  Node = {a, b, c, d, x}
  Faulty = {x}
  FaultyPolynomial = {x1, x2}
  LastStep = 6
  MessageId <- MCMessageId
  CeremonyRequest <- MCRequest
INVARIANTS BroadcastAgreement Barrier KeysAgree SameArtifacts SharesOnPolynomial LoadedInOrder
  WrittenLoads
 
CHECK_DEADLOCK FALSE
