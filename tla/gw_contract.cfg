SPECIFICATION Spec
CONSTANTS
  Sessions = {s1, s2}
  Targets = {milestone, order}
  Requests = {r1, r2}
  Manual = Manual
  None = None
  MaxManual = 1
  CanFail = TRUE
  Purpose <- OfEachKind
  Price <- OrderCostsLess
  concept = concept
  escrow = escrow
  engineer = engineer
  milestone = milestone
  order = order
SYMMETRY Symmetry
CONSTRAINT Followed
INVARIANTS TypeOK CreditedOnceIfCharged FundedHasMoney
PROPERTY KeepsPromise
CHECK_DEADLOCK FALSE
