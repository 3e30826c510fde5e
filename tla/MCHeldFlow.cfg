SPECIFICATION ScanSpec
CONSTANTS
  K = K
  L = L
  Shared = Shared
  Canonical <- MCCanonical
  Lock <- MCLock
  Methods <- MCMethods
  Monitors <- MCMonitors
  Steady <- MCSteady
  MaxRounds = 3
  MaxHeld = 2
  MaxCalls = 4
  MaxSteps = 9
INVARIANTS
  EveryStepIsReplayed
  DisciplinedHeldIsHeld
  MonitorsAreExact
  CallsHoldTheirLocks
  SpansCoverHolding
  EffectsAreExact
PROPERTIES
  Converges
CHECK_DEADLOCK FALSE
