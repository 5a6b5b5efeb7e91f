\* The default of --accounts-to-fund.
CONSTANTS
  v1 = v1  v2 = v2  k1 = k1  k2 = k2  k3 = k3  a1 = a1  a2 = a2  Empty = Empty
  Operators <- MCOperators
  Keys <- MCKeys
  Accounts <- MCAccounts
  FundLists <- MCFundLists
  CallsMayFail = FALSE
  MaxBlocks = 2
  MaxCommands = 1
SPECIFICATION Spec
INVARIANT StartsWithoutAccounts
CHECK_DEADLOCK FALSE
