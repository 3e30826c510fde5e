SPECIFICATION FairSpec
CONSTANTS
  A = A
  B = B
  C = C
  D = D
  E = E
  X = X
  Y = Y
  G = G
  t1 = t1
  t2 = t2
  t3 = t3
  Method <- MCMethod
  Lock <- MCLock
  Thread <- MCThread
  MaxDepth = 3
  OrderDepth = 1
  BinderDepth = 1
  Programs <- MCPrograms
  MaxStack = 3
INVARIANTS
  DistIsShortest
  WitnessExists
  MayHeldCoversStack
  BinderSitesCoverStack
  DeadlockIsForetold
  OwnGateIsBenign
PROPERTIES
  Iterates
  Terminates
CHECK_DEADLOCK FALSE
