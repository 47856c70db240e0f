SPECIFICATION Spec
CONSTANTS
  NumBlocks = 7
  BlockSize = 2
  Word = 32
  MaxFiles = 2
  MaxOpen = 2
  Names = {"a", "b"}
  FlagChoices <- RW
  Offsets = {1, 3}
  Lens = {1, 3}
  Values = {0, 1}
  Faults = FALSE
  Crashes = FALSE
  MaxCalls = 7
  NoFile = NoFile
  NoReq = NoReq
INVARIANTS MountedSound NoLeak MountableOutsideSync
PROPERTIES ImplementsFileStore
CHECK_DEADLOCK FALSE
