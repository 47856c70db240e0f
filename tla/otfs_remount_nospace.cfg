SPECIFICATION Spec
CONSTANTS
  NumBlocks = 1
  BlockSize = 1
  Word = 16
  MaxFiles = 1
  MaxOpen = 1
  Names = {"a"}
  FlagChoices <- WC
  Offsets = {0}
  Lens = {1, 2}
  Values = {0}
  Faults = FALSE
  Crashes = FALSE
  MaxCalls = 5
PROPERTY RemountAfterUnmount
CHECK_DEADLOCK FALSE
