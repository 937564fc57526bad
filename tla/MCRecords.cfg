SPECIFICATION RecordsSpec
CONSTANTS
  Shipments = {s1, s2}
  Callers = {c1, c2, c3}
  Pair = {c1, c2}
  Users = {u1, u2, u3}
  Admins = {u3}
  Ids = {i1, i2}
  MaxReviews = 3
  MaxLog = 2
  Characters <- SomeCharacters
  Texts <- SomeTexts
  MaxRows = 2
  WalkRows = 4
  TableRows = 2
  Limit = 1
  MaxRequests = 2
SYMMETRY Symmetry
INVARIANTS CallersAgree RecordsConsistent ReportsHold WalksShowAll ScreenSettles
