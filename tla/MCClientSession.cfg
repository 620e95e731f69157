\* One client, two sessions one after the other, two messages in each.
CONSTANTS
  App = app
  Session = {s1, s2}
  Id = {i1, i2}
  None = none
  MaxMessages = 2
  Overlaps = FALSE
SPECIFICATION FairSpec
INVARIANTS
  TypeOK
  AgreedIdentity
  MessagesFromTheFirst
PROPERTIES
  StopLeavesNothing
  ImplementsDialogue
  StopReturns
  Answered
CHECK_DEADLOCK FALSE
