SPECIFICATION FairSpec
CONSTANTS
  r1 = r1
  r2 = r2
  r3 = r3
  r4 = r4
  b1 = b1
  b2 = b2
  d1 = d1
  d2 = d2
  s1 = s1
  s2 = s2
  s3 = s3
  s0 = s0
  f1 = f1
  f2 = f2
  f3 = f3
  w = w
  x = x
  y = y
  z = z
  base = base
  here = here
  there = there
  everyJar = everyJar
  services = services
  Row <- MCRow
  Build <- MCBuild
  Device <- MCDevice
  Site <- MCSite
  Lock <- MCLock
  File <- MCFile
  BuildOf <- MCBuildOf
  DeviceOf <- MCDeviceOf
  BlockedSite <- MCBlockedSite
  BlockingSite <- MCBlockingSite
  Parsed <- MCParsed
  Archive <- MCArchive
  Acquired <- MCAcquired
  CacheName <- MCCacheName
  Stale = {b2}
  Scope <- MCScope
  Directory <- MCDirectory
  Setting <- MCSetting
  Fuzz = 2
  IfUnique = TRUE
  WordLimit = 8
  MaxRuns = 2
INVARIANTS
  AnswersAreOfTheBuild
  AnswersAreComplete
PROPERTIES
  CacheIsKept
  EveryRunEnds
CHECK_DEADLOCK FALSE
