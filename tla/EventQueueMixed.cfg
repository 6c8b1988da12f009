SPECIFICATION Spec
CONSTANTS
  Tickers = {t1}
  Sizes = {1, 2}
  BufSize = 4
  Garbage = garbage
  MaxEvents = 5
INVARIANT
  CallbacksMatchEvents
CHECK_DEADLOCK FALSE
