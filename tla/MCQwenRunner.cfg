CONSTANTS
  MaxRequests = 3
  MaxBatchSize = 3
  MaxBatchTokens = 12
  PromptLens <- MCPromptLens
  MaxNews <- MCMaxNews
  Tokens = {word}
  EosIds = {}
  None = None
SPECIFICATION QwenSpec
INVARIANTS
  AttendsToItself
  CacheIsTheTensor
CHECK_DEADLOCK FALSE
