CONSTANTS
  CriticalCapacity = 2
  BootCapacity = 5
  MaxWait = 30
  Attempts = 3
  PollSeconds = 5
  OffSeconds = 60
  Levels = {1, 3, 6}
  Boots <- SomeBoots
  Count = 3
  MaxVisible = 2
  Timeout = 2
  TicksPerSecond = 1
  RepeatDelay = 2
  RepeatInterval = 1
  ReleasePolls = 2
  Devices = {"keyboard", "pwr"}
  KeysOf <- KeyTable
  Rank <- ReadOrder
  Removable = {"keyboard"}
  MaxQueue = 2
  MaxUnplugs = 1
SPECIFICATION StageSpec
INVARIANTS DetectorsAgree WaitBounded MenuLit
INVARIANTS VisibleSelected ScreenMatches UntouchedIsDefault
PROPERTIES NoGhostKey KeyBeatsCountdown StageEnds
CHECK_DEADLOCK FALSE
