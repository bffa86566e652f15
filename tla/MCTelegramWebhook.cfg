SPECIFICATION Spec
CONSTANTS
  c1 = c1
  c2 = c2
  apart = apart
  chatter = chatter
  unfit = unfit
  Updates = {u1, apart, chatter, unfit}
  Chats = {c1, c2}
  Chat <- MCChat
  Content <- MCContent
  Handlers = {h1, h2, h3}
  NoUpdate = NoUpdate
  MaxFaults = 1
INVARIANTS DuplicatesNeedRace DuplicatesBound AnsweredHasUser
PROPERTY Answered
CHECK_DEADLOCK FALSE
