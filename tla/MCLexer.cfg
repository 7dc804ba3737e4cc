SPECIFICATION Spec
CONSTANTS
  Sources <- AllSources
  Keywords <- OneKeyword
  MaxSize = 6
INVARIANTS TypeOK NothingDropped StringsEndAtQuote LinesCounted FirstLineColumns PositionsSorted NumbersMaximal
PROPERTY WorkBounded
