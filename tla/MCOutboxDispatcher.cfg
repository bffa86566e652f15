SPECIFICATION Spec
CONSTANTS
  NumRows = 3
  Dispatchers = {d1, d2}
  Limit = 2
  MaxScheduled <- MCScheduled
  MaxFaults = 1
INVARIANTS TypeOK OneHolder AttemptsCounted DuplicatesAreFaults
PROPERTIES PublishedIsFinal KeepsPromise EventuallyPublished
CHECK_DEADLOCK FALSE
