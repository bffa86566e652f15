SPECIFICATION Spec
CONSTANTS
  email = email
  sms = sms
  Notifications = {n1}
  Workers = {w1, w2}
  Channels = {email, sms}
  Priorities <- FixedPriority
  Outcomes <- AnyOutcome
  MAX_RETRIES_PER_CHANNEL = 3
  MaxCopies = 1
  MaxFaults = 1
  NoNotification = NoNotification
INVARIANT EveryAttemptStored
CHECK_DEADLOCK FALSE
