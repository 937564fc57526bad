SPECIFICATION FundingSpec
CONSTANTS
  Accounts = {p1, p2, platform, w1}
  Ids = {s1}
  Amounts = {1}
  InitialBalance = 2
  NoAdmin = NoAdmin
  MaxTx = 2
  Requests = {r1, r2}
  Wallets = {w1}
  Payers = {p1, p2}
  Platform = platform
  Price = 1
  TestSigning = TRUE
SYMMETRY Symmetry
INVARIANTS ChargedOnce
CHECK_DEADLOCK FALSE
