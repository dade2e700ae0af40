CONSTANTS
  MaxRequests = 2
  MaxBatchSize = 1
  MaxBatchTokens = 10
  PromptLens <- MCPromptLens
  MaxNews <- MCMaxNews
  Tokens = {word, part}
  EosIds = {}
  PartialIds = {part}
  MockToken = word
  ReplacementChar = ReplacementChar
  MockWord <- MCMockWord
  None = None
SPECIFICATION GatewaySpec
INVARIANTS
  GatewayTypeOK
  TruthfulStatus
  ReadyMeansConfigured
  DeadLoopOwesNothing
PROPERTIES
  ImplementsModelProcess
  EveryRequestEnds
CHECK_DEADLOCK FALSE
