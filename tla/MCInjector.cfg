SPECIFICATION FairSpec
CONSTANTS
  MaxAp = 1
  Method <- MCMethod
  ClassOf <- MCClassOf
  Programs <- MCPrograms
  MaxHops = 3
  Guess <- MCGuess
INVARIANTS
  BelowEverySolution
  RecordedCallsAreSound
  AliasedFieldIsTarget
PROPERTIES
  Iterates
  Terminates
CHECK_DEADLOCK FALSE
