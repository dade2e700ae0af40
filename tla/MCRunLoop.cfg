CONSTANTS
  MaxRequests = 3
  MaxBatchSize = 2
  MaxBatchTokens = 4
  PromptLens <- MCPromptLens
  MaxNews <- MCMaxNews
  Tokens = {word, eos}
  EosIds = {eos}
  None = None
SPECIFICATION Spec
INVARIANTS
  TypeOK
  BatchCapacity
  FirstComeFirstServed
  CountedOnce
  WaitingUntouched
  SentinelIffVerdict
  HonestVerdict
  StreamIsOutput
  CacheDescribesBatch
  CacheFollowsMembers
  BudgetOvershoot
PROPERTIES
  NoWorkForTheFinished
  VerdictIsFinal
  EventuallyFinished
  LoopYields
CHECK_DEADLOCK FALSE
