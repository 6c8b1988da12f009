CONSTANTS
  c1 = c1
  c2 = c2
  c3 = c3
  NoCall = NoCall
  EarlyMedia = FALSE
  HasRingCard = TRUE
  MaxMembers = 1
  Calls = {c1, c2}
  NbMaxCalls = 2
SPECIFICATION Spec
INVARIANT MembersAreLive
CHECK_DEADLOCK FALSE
