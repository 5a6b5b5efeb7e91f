\* Concurrent requests, contexts that end and connections that close.
CONSTANTS
  Requests <- MCRequests
  Ways <- MCWays
SPECIFICATION Spec
INVARIANTS TypeOK OneReplyWithCause
PROPERTIES EveryRequestAnswered ConnectionReleased
CHECK_DEADLOCK FALSE
