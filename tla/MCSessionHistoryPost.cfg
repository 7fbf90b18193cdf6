SPECIFICATION HistorySpec
CONSTANTS
  a = a
  b = b
  Urls = {a, b}
  CacheMax = 1
  MaxRedirects = 1
  MaxEvents = 4
INVARIANT PostToItsAction
CHECK_DEADLOCK FALSE
