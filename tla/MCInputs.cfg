SPECIFICATION Spec
CONSTANTS
  Files <- MCFiles
  Runs <- MCRuns
  MaxDepth = 3
  Alphabet <- MCAlphabet
  ArrayTypes <- MCArrayTypes
INVARIANTS
  EveryClassOnce
  FailsForCause
  FilesAreWhole
  NativeIsTheDex
  TextIsTheDex
PROPERTY
  Ends
