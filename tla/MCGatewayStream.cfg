CONSTANTS
  MaxRequests = 2
  MaxBatchSize = 1
  MaxBatchTokens = 10
  PromptLens <- MCPromptLens
  MaxNews <- MCMaxNewsShort
  Tokens = {word, eos}
  EosIds = {eos}
  PartialIds = {}
  MockToken = word
  ReplacementChar = ReplacementChar
  MockWord <- MCMockWord
  None = None
SPECIFICATION GatewaySpec
PROPERTY
  EveryStreamAnswered
CHECK_DEADLOCK FALSE
