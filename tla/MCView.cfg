SPECIFICATION MCViewSpec
CONSTANTS
  Tiles = {t1, t2}
  Scrolls <- TwoScrolls
  Sizes <- ThreeSizes
  MaxRedirects = 1
  Events = {"stop", "close", "resize", "scroll", "click", "release", "save", "draw", "relayout", "animate", "pagescroll", "pagenav", "fail", "redirect"}
  MaxLoads = 2
  MaxEvents = 2
INVARIANTS
  RefsBalanced
  FrameFaithful
  FrameOfThisPage
  RestUpToDate
PROPERTIES
  NeedsServed
  LoadEnds
CHECK_DEADLOCK FALSE
