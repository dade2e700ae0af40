CONSTANTS
  MaxRows = 2
  Temperatures <- MCTemperatures
  TopKs <- MCTopKs
  MaxTokens <- MCMaxTokens
  SamplingEps = 2
  MaxTemperature = 9
  Vocabulary <- MCVocabulary
  Scores <- MCScores
  NaN = NaN
  None = None
SPECIFICATION SamplingSpec
INVARIANTS
  PicksWhatWasAsked
  FailsForItsOwnLogits
CHECK_DEADLOCK FALSE
