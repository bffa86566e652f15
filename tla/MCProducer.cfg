SPECIFICATION Spec
CONSTANTS
  k = k
  anonymous = anonymous
  Requests = {r1, r2, r3, anonymous}
  Clones = {c1}
  Keys = {k}
  Key <- MCKey
  NoKey = NoKey
  NoAnswer = NoAnswer
  MaxRejected = 1
  MaxCrashes = 1
INVARIANTS RetriesAgree OnlyOwnErrors
PROPERTIES EventuallyOver CreatesOnce
CHECK_DEADLOCK FALSE
