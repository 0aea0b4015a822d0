SPECIFICATION FairnessSpec
CONSTANTS
  None = None
  DocCount = 2
  Batch = 1
  Runs = {u1, u2}
  Admins = {a1}
  MaxKeys = 2
  MaxErrors = 1
  MaxEdits = 1
  MaxRestarts = 1
  client = client
  designer = designer
  Requests = {client, designer}
  Role <- RoleOf
  DesignFee = 10
  DesignCommission = 1
  MaxRevisions = 2
  MaxDeliverables = 4
  MaxDisputes = 2
  CanFail = FALSE
INVARIANT SweepsAreSound
PROPERTIES RotationEnds ReleaseReachesProject
CHECK_DEADLOCK FALSE
