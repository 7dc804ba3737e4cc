SPECIFICATION FairSpec
CONSTANTS
  Inputs <- DocumentedMoves
  MaxTokens = 0
  MaxDeep = 0
PROPERTY DocumentedMovesParse
