\* An amount that is no integer among the stakes.
CONSTANTS
  MaxNodes = 3
  MaxRuns = 1
  Invalid = Invalid
  Texts <- MCSoundTexts
  PortLists <- MCPortLists
SPECIFICATION Spec
INVARIANT InvalidAmountDefaults
CHECK_DEADLOCK FALSE
