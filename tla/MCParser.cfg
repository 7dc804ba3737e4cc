SPECIFICATION FairSpec
CONSTANTS
  Inputs <- AllInputs
  MaxTokens = 4
  MaxDeep = 6
INVARIANTS TypeOK OutcomeExact SecondOperandUnread
PROPERTIES WorkBounded CleanFilesEnd
