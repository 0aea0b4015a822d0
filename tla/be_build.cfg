SPECIFICATION CastSpec
CONSTANTS
  Stages = {m1, m2}
  Disputes = {d1}
  Requests = {owner, tab, gateway, contractor, crew, engineer, admin, supervisor, deputy}
  Amount = 10
  Commission = 1
  None = None
  MaxDeaths = 1
  owner = owner
  gateway = gateway
  contractor = contractor
  engineer = engineer
  supervisor = supervisor
  tab = tab
  crew = crew
  admin = admin
  deputy = deputy
  Role <- TwoEach
INVARIANTS TypeOK LedgerAddsUp CompleteWhenPaid DecidedOnce SealsHold
PROPERTIES ReleasedForGood FrozenWhileDisputed
SYMMETRY Symmetry
CONSTRAINT Followed
CHECK_DEADLOCK FALSE
