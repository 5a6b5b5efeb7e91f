\* The command on a running chain, on one it already changed and after an exit.
CONSTANTS
  v1 = v1  v2 = v2  k1 = k1  k2 = k2  k3 = k3  a1 = a1  a2 = a2  Empty = Empty
  Operators <- MCOperators
  Keys <- MCKeys
  Accounts <- MCAccounts
  FundLists <- MCFundLists
  CallsMayFail = TRUE
  MaxBlocks = 2
  MaxCommands = 2
SPECIFICATION Spec
INVARIANTS TypeOK OldSetRemoved NextBlockPossible GrantsBacked
CHECK_DEADLOCK FALSE
