SPECIFICATION ContractsSpec
CONSTANTS
  Accounts = {a1, a2, a3}
  NoAdmin = NoAdmin
  NoCarrier = NoCarrier
  MaxShipments = 2
  ShipmentNumbers = {n1, n2}
  Hashes = {h1, h2}
  MaxDocuments = 3
  NoIdentity = NoIdentity
  Scores = {0, 2, 5, 6}
  MaxRatings = 2
  MaxReports = 2
SYMMETRY Symmetry
INVARIANTS ListsMatchRecords RatingsAddUp
PROPERTIES FollowsLifecycle BestRatingNeverHurts IntegrityIsKept
CHECK_DEADLOCK FALSE
