SPECIFICATION Spec
CONSTANTS
  Slots <- MCSlots
  DefaultId = "p"
  c1 = c1
  d1 = d1
  Commands = {c1}
  Dreams = {d1}
  Switches <- MCSwitches
  ReasoningUpdates <- MCUpdates
  Turns = {"t1", "t2"}
  Blank = {"t2"}
  Contents <- MCContents
  Key <- MCKey
  Words <- MCWords
  Unsafe = {"key"}
  RuleMemories <- MCRules
  Dreamt <- MCDreamt
  Said <- MCSaid
  Place <- MCPlace
  DreamProvider <- MCNoSpec
  DreamModel <- MCNoSpec
  Window = 2
  SearchLimit = 1
  ProjectionLimit = 2
INVARIANTS
  SettingsSurvive
  NothingIsSkipped
  TwinsUnseen
  FileKeepsUp
CHECK_DEADLOCK FALSE
