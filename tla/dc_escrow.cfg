SPECIFICATION CastSpec
CONSTANTS
  Requests = {payer, gateway, reviewer, canceller, designer, tab, laptop}
  DesignFee = 10
  DesignCommission = 1
  MaxRevisions = 1
  MaxDeliverables = 2
  MaxDisputes = 1
  None = None
  CanFail = TRUE
  payer = payer
  reviewer = reviewer
  canceller = canceller
  designer = designer
  gateway = gateway
  tab = tab
  laptop = laptop
  Role <- RoleOf
INVARIANTS TypeOK ReleasedWithinDeposits OnePendingReview ProjectFollows
PROPERTY DecisionKeepsDeposit
CHECK_DEADLOCK FALSE
CONSTRAINT Followed
