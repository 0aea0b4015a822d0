SPECIFICATION FairSpec
CONSTANTS
  Sessions = {s1}
  Targets = {concept, escrow, engineer, order}
  Requests = {r1, r2}
  Manual = Manual
  None = None
  MaxManual = 1
  CanFail = TRUE
  Purpose <- OfEachKind
  Price <- OrderCostsLess
  concept = concept
  escrow = escrow
  engineer = engineer
  milestone = milestone
  order = order
INVARIANTS PaidMeansSettled NoMoneyStranded
PROPERTY ConfirmedIsSettled
CHECK_DEADLOCK FALSE
