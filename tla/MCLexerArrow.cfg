SPECIFICATION Spec
CONSTANTS
  Sources <- ArrowTexts
  Keywords <- OneKeyword
  MaxSize = 4
INVARIANT LeftArrowIsSymbol
