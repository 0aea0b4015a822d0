SPECIFICATION Spec
CONSTANTS
  Stages = {m1}
  Disputes = {d1}
  Requests = {gateway, owner, contractor, engineer}
  Amount = 10
  Commission = 1
  None = None
  MaxDeaths = 0
  owner = owner
  gateway = gateway
  contractor = contractor
  engineer = engineer
  supervisor = supervisor
  Role <- OneEach
INVARIANT TamperedMeansChanged
CHECK_DEADLOCK FALSE
