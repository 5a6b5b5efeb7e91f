\* Two validators for one place in the bonded set, two exports, and an iterator that may fail to close.
CONSTANTS
  Unit = 3
  NumValidators = 2
  NumDelegators = 2
  Strangers = {3}
  SelfStake = 4
  Reward = 13
  MaxValidators = 1
  MaxBlocks = 3
  MaxExports = 2
  CloseMayFail = TRUE
SPECIFICATION Spec
INVARIANTS RecordsUsable BondedSetKept PanicCause
CHECK_DEADLOCK FALSE
