SPECIFICATION PlatformSpec
CONSTANTS
  None = None
  r1 = r1
  r2 = r2
  d1 = d1
  d2 = d2
  d3 = d3
  p1 = p1
  p2 = p2
  c1 = c1
  c2 = c2
  Requests <- DesignParties
  Role <- DesignRole
  DesignFee = 10
  DesignCommission = 1
  MaxRevisions = 2
  MaxDeliverables = 3
  MaxDisputes = 0
  CanFail = TRUE
  Tabs = {r1, r2}
  Grace = 3
  Delay = 1
  MaxMinted = 2
  Logins = {p1, p2}
  Changes = {r1, r2}
  UserRoles = {"client", "architect"}
  MaxPasswords = 2
  Addresses = {"mail", "newMail"}
  Senders = {r1, r2}
  Clickers = {p1, p2}
  MaxLinks = 2
  Movers = {c1}
  MaxMoves = 2
  CallIds = {d1, d2}
  Handlers = {r1, r2}
  MaxCallRestarts = 1
  Submissions = {d1, d2, d3}
  Desks = {r1, r2}
  MaxProfileEdits = 3
  HandoverTabs = {r1, r2}
  Packages = {d1, d2}
  Engagements = {d1, d2}
  StRequests = {r1, r2}
  StDisputes = {p1}
  MaxSets = 2
  Proposals = {d1, d2, d3}
  Architects = {p1, p2}
  MatchRequests = {r1, r2}
  Contracts = {c1, c2}
  MaxEdits = 1
  Orders = {d1, d2, d3}
  VarRequests = {r1, r2}
  Extras = {1, 3}
  Omissions = {2}
  MaxStages = 4
  Products = {d1, d2}
  ShopRequests = {r1, r2}
  MaxAdded = 2
  Meetings = {d1, d2}
  Bookers = {p1, p2}
  Hosts = {c1}
  MeetRequests = {r1, r2}
  OpenHours <- Hours
  LastTime = 1
  LastNow = 1
  Venues = {"OFFICE", "PROPOSE"}
SYMMETRY Symmetry
CONSTRAINT Followed
INVARIANTS PlatformTypes TabsKeepTheirLogin StaleLoginsEnd VerifiedWasProved RecordAndMapAgree BadgeFollowsRequest AcceptedIsKept LedgerFollowsStatus BriefMatchesContract SumFollowsVariations PiecesAccountedFor CalendarHolds NoFreeRevision
CHECK_DEADLOCK FALSE
