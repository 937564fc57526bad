SPECIFICATION BidsSpec
CONSTANTS
  Requests = {r1, r2}
  BidRequests = {b1}
  MaxBids = 2
  shipper = shipper
  admin = admin
  MCCarriers = {carrier1}
  Users <- MCUsers
  Role <- MCRole
  Owner = shipper
  NoCarrier = NoCarrier
  MaxRequests = 5
SYMMETRY Symmetry
INVARIANTS NoStatusSkipped ReleasedAfterPickup AnnouncedIsRecorded OffersHold
CHECK_DEADLOCK FALSE
