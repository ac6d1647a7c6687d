SPECIFICATION FairSpec
CONSTANTS
  Usable = 14
  Overhead = 1
  Marker = 2
  SummaryMax = 4
  Slack = 1
  MaxSteps = 3
  Retries = 1
  ToolRetries = 1
  Prefix = 1
  Histories <- SmallHistories
  Requests = {1, 6}
  Answers <- SmallAnswers
  ResultSizes = {1, 7}
  ErrorSize = 2
CHECK_DEADLOCK FALSE
INVARIANTS
  PayloadIsPaired
  PromptFits
  NoBlindRetry
PROPERTY RunEnds
