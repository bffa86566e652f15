SPECIFICATION Spec
CONSTANTS
  Statuses <- MCStatuses
  MAX_RETRIES_PER_CHANNEL = 3
INVARIANTS FallbackIsFirst SentWasTaken DeliveriesBound FinalIsEarned
PROPERTY CallsEnd
CHECK_DEADLOCK FALSE
