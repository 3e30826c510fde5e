SPECIFICATION FairSpec
CONSTANTS
  MaxAp = 1
  Method <- MCMethod
  ClassOf <- MCClassOf
  Programs <- MCPrograms
  MaxHops = 3
  Guess <- MCGuess
INVARIANT OnlyBinding
CHECK_DEADLOCK FALSE
