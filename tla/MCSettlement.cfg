SPECIFICATION CarefulSpec
CONSTANTS
  Accounts = {shipper, platform, w1}
  Ids = {s1}
  Amounts = {1}
  InitialBalance = 2
  NoAdmin = NoAdmin
  MaxTx = 3
  Requests = {r1, r2}
  Wallets = {w1}
  Payers = {shipper}
  Platform = platform
  Price = 1
  TestSigning = FALSE
SYMMETRY Symmetry
INVARIANTS SettledReached AgreesOnceApplied
PROPERTIES SettledIsTerminal
CHECK_DEADLOCK FALSE
