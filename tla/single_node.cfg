\* Bootstraps, restarts, resets and interruptions of one home.
CONSTANTS
  Prices = {2, 3}
  RepoAtWorkspace = TRUE
  MaxRuns = 3
SPECIFICATION Spec
INVARIANTS TypeOK FailsOnlyInterrupted PricesOfThisRun
PROPERTY ExistingHomeKept
CHECK_DEADLOCK FALSE
