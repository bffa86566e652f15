SPECIFICATION Spec
CONSTANTS
  c1 = c1
  c2 = c2
  poll = poll
  query = query
  stranger = stranger
  k = k
  Keys = {k}
  NoKey = NoKey
  Key <- MCKey
  Overlong = {query}
  Requests = {c1, c2, poll, query, stranger}
  Authentic = {c1, c2, poll}
  Kind <- MCKind
  Workers = 2
  Rate = 1
  Duration = 2
  MaxTime = 2
INVARIANTS RateBound ThrottledForCause AnswerIsDue
SYMMETRY Symmetry
CHECK_DEADLOCK FALSE
