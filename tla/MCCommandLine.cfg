SPECIFICATION Spec
CONSTANTS
  CommandLines <- AllCommandLines
  MaxArgs = 4
INVARIANTS TypeOK AcceptedExactly CommandAsWritten WarningsInOrder
