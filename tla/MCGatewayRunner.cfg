CONSTANTS
  MaxRequests = 2
  MaxBatchSize = 1
  MaxBatchTokens = 10
  PromptLens <- MCPromptLens
  MaxNews <- MCMaxNews
  Tokens = {word, eos}
  EosIds = {eos}
  PartialIds = {}
  MockToken = word
  ReplacementChar = ReplacementChar
  MockWord <- MCMockWord
  None = None
SPECIFICATION GatewaySpec
INVARIANT
  StreamSendsTheOutput
CHECK_DEADLOCK FALSE
