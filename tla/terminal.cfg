CONSTANTS
  t1 = t1
  t2 = t2
  w = w
  e1 = e1
  e2 = e2
  Windows = {t1, t2, w}
  Terminals = {t1, t2}
  Endpoints = {e1, e2}
  NoEndpoint = NoEndpoint
  NoWindow = NoWindow
  MaxWindows = 2
  Word = 16
  Border = 1
  TitleHeight = 1
  KeyCapacity = 2
  Printable = {"a"}
  Space = "space"
  Control = {"enter", "backspace"}
  ShiftKeys = {"lshift"}
  Descs <- SameFrame
  InputCap = 2
  HistoryCap = 2
  Commands <- MCCommands
  SeedDirs <- MCSeedDirs
  SeedFiles <- MCSeedFiles
  MaxNodes = 3
  LongNames = {"toolong"}
  MaxLines = 3
SPECIFICATION Spec
INVARIANTS TablesAgree HistoryKeepsLast
PROPERTIES KeyReachesFocus
SYMMETRY Swaps
CHECK_DEADLOCK FALSE
