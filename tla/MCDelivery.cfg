SPECIFICATION Spec
CONSTANTS
  email = email
  sms = sms
  Notifications = {n1}
  Workers = {w1, w2}
  Channels = {email, sms}
  Priorities <- MCPriorities
  Outcomes <- AnyOutcome
  MAX_RETRIES_PER_CHANNEL = 2
  MaxCopies = 2
  MaxFaults = 1
  NoNotification = NoNotification
INVARIANTS AttemptBound FallbackOrder StatusHasCause SingleCopyIsExact AcceptedIsAudited AcceptedBound NothingForgotten
PROPERTIES Settles FollowsLifecycle
CHECK_DEADLOCK FALSE
