SPECIFICATION ReliableSpec
CONSTANTS
  Accounts = {shipper, platform, w1}
  Ids = {s1, s2}
  Amounts = {1}
  InitialBalance = 1
  NoAdmin = NoAdmin
  MaxTx = 2
  Requests = {r1, r2}
  Wallets = {w1}
  Payers = {shipper}
  Platform = platform
  Price = 1
  TestSigning = FALSE
INVARIANTS SingleFlight FundedNamesTransaction
PROPERTIES FundedIsFinal ClaimEnds
CHECK_DEADLOCK FALSE
