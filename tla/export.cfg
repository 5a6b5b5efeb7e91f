\* Two validators that both bond.
CONSTANTS
  Unit = 3
  NumValidators = 2
  NumDelegators = 3
  Strangers = {}
  SelfStake = 4
  Reward = 13
  MaxValidators = 2
  MaxBlocks = 4
  MaxExports = 1
  CloseMayFail = FALSE
SPECIFICATION FairSpec
INVARIANTS TypeOK RewardsAccounted NoDistributionPanic FreshAccounting
PROPERTIES PaysWhatWasPending ExportEnds
CHECK_DEADLOCK FALSE
