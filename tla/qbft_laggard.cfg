SPECIFICATION LaggardSpec
CONSTANTS
  Nodes = 3
  DutyOffset <- FirstLeader
  v0 = v0
  v1 = v1
  Value <- Values
  NoValue = NoValue
  Proposal <- Proposals
  Up = {0, 1}
  MaxRound = 4
  MaxDuplicates = 1
  MaxDecidedResends = 2
INVARIANTS TypeOK ResendsBounded DecisionResolvable
CHECK_DEADLOCK FALSE
