SPECIFICATION RaceSpec
CONSTANTS
  A = A
  B = B
  C = C
  D = D
  X = X
  Y = Y
  t1 = t1
  f = f
  g = g
  Method <- MCMethod
  Lock <- MCLock
  Thread <- MCThread
  MaxDepth = 2
  OrderDepth = 1
  BinderDepth = 1
  Programs <- MCPrograms
  MaxStack = 4
  Inferable <- MCInferable
  MaxRounds = 1
  Roots = {A}
  Forwarders = {D}
  Accesses <- MCAccesses
  Times <- MCTimes
  Exempt = {}
  MinGuarded = 1
  MinPercent = 40
INVARIANTS
  EntryHeldIsHeld
  UnlockedOnEveryPath
  GuardIsHeld
  ConcurrentCoversRoots
CHECK_DEADLOCK FALSE
