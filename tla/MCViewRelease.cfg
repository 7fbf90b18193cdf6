SPECIFICATION ViewSpec
CONSTANTS
  Tiles = {t1, t2}
  Scrolls <- TwoScrolls
  Sizes <- TwoSizes
  MaxRedirects = 1
  Events = {"release"}
  MaxLoads = 2
  MaxEvents = 2
PROPERTIES
  StaleInputIgnored
CHECK_DEADLOCK FALSE
