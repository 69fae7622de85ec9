SPECIFICATION Spec
CONSTANTS
  None = None
  Names = {"today.1", "today.0", "old.a", "old.b", "odd", "error", "stray"}
  Meta <- DirectoryMeta
  NotDates = {99}
  Contents <- SmallContents
  Requests <- Questions
  MillisPerSecond = 2
  MillisPerDay = 6
  MaxFilesPerSearch = 2
  MaxScannedBytesPerSearch = 4
  MaxHitsPerSearch = 3
  MaxContextLines = 2
INVARIANTS
  CapsHold
  HitsAreTheFirst
  NothingIsLeftOutUnsaid
  ContextIsExact
  OneFileIsRead
CHECK_DEADLOCK FALSE
