SPECIFICATION Spec
CONSTANTS
  email = email
  NumRows = 1
  Dispatchers = {d1}
  Limit = 1
  MaxScheduled <- MCScheduled
  MaxDispatchFaults = 1
  Workers = {w1, w2}
  Channels = {email}
  Priorities <- MCPriorities
  Outcomes <- MCOutcomes
  MAX_RETRIES_PER_CHANNEL = 1
  MaxTaskFaults = 1
  NoNotification = NoNotification
  MaxSaves = 1
INVARIANTS OutboxFirst DeliveredOnce BacklogIsSeen CauseSurvives InboxBound NothingForgotten
PROPERTIES UndoneForCause EndToEnd
CHECK_DEADLOCK FALSE
