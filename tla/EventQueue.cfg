SPECIFICATION Spec
CONSTANTS
  Tickers = {t1, t2}
  Sizes = {1, 2}
  BufSize = 3
  Garbage = garbage
  MaxEvents = 4
INVARIANTS
  RingInv
PROPERTIES
  RingIsChannel
  EventsAreDelivered
CHECK_DEADLOCK FALSE
