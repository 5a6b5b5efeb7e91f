\* Reruns over what earlier runs left behind.
CONSTANTS
  MaxNodes = 2
  MaxRuns = 2
  Invalid = Invalid
  Texts <- MCTexts
  PortLists <- MCSomePorts
SPECIFICATION Spec
INVARIANTS TypeOK OneNetwork CollectFailureCause KeysAnnounced
CHECK_DEADLOCK FALSE
