SPECIFICATION OneByOneSpec
CONSTANTS
  Requests = {r1}
  BidRequests = {b1}
  MaxBids = 3
  shipper = shipper
  admin = admin
  MCCarriers = {carrier1, carrier2, carrier3}
  Users <- MCUsers
  Role <- MCRole
  Owner = shipper
  NoCarrier = NoCarrier
  MaxRequests = 8
INVARIANTS WinnerTakesAll HistoryIsTrail NobodyStuck
PROPERTIES FollowsLifecycle ChangesAnnounced
CHECK_DEADLOCK FALSE
