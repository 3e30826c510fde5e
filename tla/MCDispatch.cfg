SPECIFICATION Spec
CONSTANTS
  A = A
  B = B
  I = I
  P = P
  Q = Q
  K = K
  go = go
  top = top
  each = each
  pass = pass
  transact = transact
  asBinder = asBinder
  Class <- MCClass
  Sig <- MCSig
  IInterface = A
  IBinder = B
  BinderProxy = BinderProxy
  TransactSig <- MCTransactSig
  PlumbingSig <- MCPlumbingSig
  Position <- MCPosition
  ChaCap = 2
  Programs <- MCPrograms
  MaxStack = 3
INVARIANTS
  FlowIsExact
  RunsAreLinked
CHECK_DEADLOCK FALSE
