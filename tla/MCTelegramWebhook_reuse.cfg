SPECIFICATION Spec
CONSTANTS
  c1 = c1
  c2 = c2
  apart = apart
  chatter = chatter
  unfit = unfit
  Updates = {u1, u2}
  Chats = {c1, c2}
  Chat <- MCChat
  Content <- MCContent
  Handlers = {h1, h2}
  NoUpdate = NoUpdate
  MaxFaults = 0
INVARIANT CreatesOrReuses
CHECK_DEADLOCK FALSE
