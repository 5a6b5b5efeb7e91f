\* Three blocks with few coins and two proposals.
CONSTANTS
  Proposals = {p1, p2}
  UserCoins = 3
  MaxHeight = 3
SPECIFICATION Spec
INVARIANTS TypeOK BooksBalanced HaltCause
PROPERTY SlashedAfterAllocation
CHECK_DEADLOCK FALSE
