SPECIFICATION SessionsSpec
CONSTANTS
  Tabs = {t1, t2}
  Grace = 3
  Delay = 1
  MaxMinted = 2
  None = None
INVARIANT LogoutLeavesNoLogin
CHECK_DEADLOCK FALSE
