SPECIFICATION Spec
CONSTANTS
  NumBlocks = 3
  BlockSize = 1
  Word = 16
  MaxFiles = 2
  MaxOpen = 2
  Names = {"a", "b"}
  FlagChoices <- RW
  Offsets = {0}
  Lens = {1, 2}
  Values = {0}
  Faults = FALSE
  Crashes = TRUE
  MaxCalls = 8
INVARIANTS TypeOK OneReferrer FreeIsFreeOnImage Durable
CHECK_DEADLOCK FALSE
