CONSTANTS
  PathMax = 9
  MaxNodes = 5
  NameMax = 1
  SeedDirs <- MCSeedDirs
  SeedFiles <- MCSeedFiles
  MaxFiles = 2
  ContentMax = 7
  LsMax = 4
  ArgvCap = 3
  Builtins <- MCBuiltins
  CaptureCap = 8
  PipeCap = 8
  BufferSize = 13
  LineSize = 11
  FirstLines <- MCFirstLines
  Lines <- MCLines
  MaxLines = 3
SPECIFICATION Spec
INVARIANT LsListsEveryDirectory
CHECK_DEADLOCK FALSE
