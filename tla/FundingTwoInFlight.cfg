SPECIFICATION FundingSpec
CONSTANTS
  Accounts = {shipper, platform, w1, w2}
  Ids = {s1}
  Amounts = {1}
  InitialBalance = 2
  NoAdmin = NoAdmin
  MaxTx = 2
  Requests = {r1, r2}
  Wallets = {w1, w2}
  Payers = {shipper}
  Platform = platform
  Price = 1
  TestSigning = FALSE
SYMMETRY RequestSymmetry
INVARIANTS SingleFlight
CHECK_DEADLOCK FALSE
