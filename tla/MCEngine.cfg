CONSTANTS
  MaxRequests = 2
  MaxBatchSize = 2
  MaxBatchTokens = 2
  PromptLens <- MCPromptLens
  MaxNews <- MCMaxNews
  Tokens = {word, part, eos}
  EosIds = {eos}
  PartialIds = {part}
  ReplacementChar = ReplacementChar
  MockWord <- MCMockWord
  None = None
SPECIFICATION EngineSpec
INVARIANTS
  EngineTypeOK
  CancelledMeansGone
  AnswerIsTheOutput
  NoOrphans
PROPERTIES
  ImplementsService
  EveryCallReturns
CHECK_DEADLOCK FALSE
