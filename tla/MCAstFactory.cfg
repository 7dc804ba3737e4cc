SPECIFICATION Spec
CONSTANTS
  MaxLong = 1
  MaxPara = 3
  Calls <- AllCalls
INVARIANTS TypeOK TypeTree ListInOrder EndsForAReason
PROPERTIES WorkBounded
