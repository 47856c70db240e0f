SPECIFICATION Spec
CONSTANTS
  PageSize = 4
  MaxPages = 7
  Word = 64
  Ranges <- MCRanges
  Pointers <- MCPointers
INVARIANTS FreeCountExact HintIsLowest
PROPERTIES FailsOnlyWhenFull ImplementsPagePool
