SPECIFICATION CacheSpec
CONSTANTS
  Fetchers = {t1, t2}
  Urls = {u1}
  Headers = {h1, h2}
  Plain = Plain
  CapBytes = 3
  MaxAge = 1
  MaxLife = 1
  MaxVer = 2
  MaxNow = 2
  MaxCrashes = 1
  MaxClears = 1
SYMMETRY ThreadSymmetry
INVARIANTS
  DiskAgrees
  VaryHonoured
  ConfirmedIsCurrent
