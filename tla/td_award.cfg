SPECIFICATION TwoSpec
CONSTANTS
  Tenders = {t1, t2}
  Bidders = {b1, b2}
  Requests = {desk, tab, board}
  None = None
  MaxEdits = 1
  Budget = 4
  desk = desk
  tab = tab
  board = board
  Role <- TwoSides
INVARIANTS TypeOK SealedWhileOpen BidsPriceTheTender AwardedIsSigned AwardAnswered
CONSTRAINT Followed
SYMMETRY Symmetry
CHECK_DEADLOCK FALSE
