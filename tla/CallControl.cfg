CONSTANTS
  c1 = c1
  c2 = c2
  c3 = c3
  NoCall = NoCall
  EarlyMedia = TRUE
  HasRingCard = TRUE
  MaxMembers = 2
  Calls = {c1, c2, c3}
  NbMaxCalls = 2
SPECIFICATION Spec
INVARIANT CallControlInv
PROPERTIES ByeIsUndisturbed InvitedOnce DeferredCallStarts
CHECK_DEADLOCK FALSE
