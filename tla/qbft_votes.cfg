SPECIFICATION Spec
CONSTANTS
  Nodes = 4
  DutyOffset <- FirstLeader
  v0 = v0
  v1 = v1
  v2 = v2
  Value <- Values
  NoValue = NoValue
  Proposal <- Proposals
  Round = {1, 2}
INVARIANTS Inv
PROPERTIES ImplementsConsensus
CHECK_DEADLOCK FALSE
