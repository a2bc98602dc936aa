CONSTANTS
  Week = 8
  MondayOffset = 3
  Guard = 1
  Grid = 1
  MinWeekends = 1
  MaxRounds = 4
  Chunk = 2
  ScaleBreak = 5
  Day = 2
  Days = 3
  Cut = 1
  Attempts = 2
  Endpoints = 1
  Timeout = 2
  Registries <- RegistriesOne
  Directories <- DirectoriesOne
  Cash = "usdg"
  Gas = "eth"
  MinVolume = 5
  MaxDivergence = 12
  GeckoBatch = 1
  Nominal = 3
  Unit = 10
  MaxAge = 3
  Worlds <- Edited
  Scripts <- ScriptsBad
  Sorted <- SortedTwo
  FeedOf <- FeedOfEach
  Config0 <- ConfigStart
SPECIFICATION Spec
INVARIANT CaptureReplays
CHECK_DEADLOCK FALSE
