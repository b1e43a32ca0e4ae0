SPECIFICATION CrowdedSpec
CONSTANTS
  Nodes = 4
  DutyOffset <- FirstLeader
  v0 = v0
  v1 = v1
  Value <- Values
  NoValue = NoValue
  Proposal <- Proposals
  Up = {0, 1, 2, 3}
  MaxRound = 2
  MaxDuplicates = 0
  MaxDecidedResends = 1
INVARIANTS SentIsAcceptable
CHECK_DEADLOCK FALSE
