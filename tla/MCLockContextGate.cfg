SPECIFICATION FairSpec
CONSTANTS
  A = A
  B = B
  C = C
  D = D
  E = E
  X = X
  Y = Y
  G = G
  t1 = t1
  t2 = t2
  t3 = t3
  Method <- MCMethod
  Lock <- MCLock
  Thread <- MCPair
  MaxDepth = 2
  OrderDepth = 1
  BinderDepth = 1
  Programs <- MCClosed
  MaxStack = 3
INVARIANT GatedIsBenign
CHECK_DEADLOCK FALSE
