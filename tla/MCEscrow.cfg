SPECIFICATION Spec
CONSTANTS
  Accounts = {alice, bob}
  Ids = {s1, s2}
  Amounts <- MCAmounts
  InitialBalance = 2
  NoAdmin = NoAdmin
INVARIANTS Solvent
PROPERTIES SettledIsFinal PaysItsParty PromiseKept
