CONSTANTS
  Interval = 2
  HandlerTime = 1
  MaxTime = 12
  MaxTasks = 3
  NoSlot = NoSlot
  AltTarget = 4
SPECIFICATION FairSpec
INVARIANTS TicksTrackTime SwitchAccounting OnlyQueuedRun
PROPERTIES TurnsAlternate BootCompletes
CHECK_DEADLOCK FALSE
