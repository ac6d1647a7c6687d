SPECIFICATION Spec
CONSTANTS
  Slots <- TwoSlots
  DefaultId = "eyes"
  MaxImages = 1
  FallbackImages = 1
  FallbackMode = "tool"
  MediaPolicy = "cache_aware"
  ChatRuns = {"a", "b"}
  CronRuns = {"c"}
  Direct <- CronAsks
  Sent <- SomePictures
  MaxHistory = 2
  ContextMax = 1
  ContextLines = 1
  Overfetch = 1
  OverfetchMin = 1
  Switches <- Names
  MaxObserved = 2
CHECK_DEADLOCK FALSE
INVARIANTS
  NoImagesForTextModel
PROPERTY HistoryIsLast
