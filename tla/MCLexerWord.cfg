SPECIFICATION Spec
CONSTANTS
  Sources <- WordTexts
  Keywords <- OneKeyword
  MaxSize = 4
INVARIANT WordsEnd
