SPECIFICATION HistorySpec
CONSTANTS
  a = a
  b = b
  Urls = {a, b}
  CacheMax = 1
  MaxRedirects = 1
  MaxEvents = 4
SYMMETRY UrlSymmetry
INVARIANTS
  EntryShown
  PagesOwned
  BodiesOnce
CHECK_DEADLOCK FALSE
