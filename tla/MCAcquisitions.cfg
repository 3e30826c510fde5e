SPECIFICATION AcqSpec
CONSTANTS
  MaxAp = 10
  MaxCanonHops = 6
  MaxRounds = 8
  Programs = {}
  Method <- MCMethod
  ClassOf <- MCClassOf
  Codes <- MCCodes
INVARIANTS
  AliasMatchesNotes
  AliasCollapses
  AnswersAreTrue
PROPERTIES
  StoresAreNoted
CHECK_DEADLOCK FALSE
