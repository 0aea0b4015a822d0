SPECIFICATION CastSpec
CONSTANTS
  Requests = {tab, designer}
  DesignFee = 10
  DesignCommission = 1
  MaxRevisions = 1
  MaxDeliverables = 2
  MaxDisputes = 0
  None = None
  CanFail = FALSE
  payer = payer
  reviewer = reviewer
  canceller = canceller
  designer = designer
  gateway = gateway
  tab = tab
  laptop = laptop
  Role <- RoleOf
INVARIANT OpenBriefHasNoContract
CHECK_DEADLOCK FALSE
