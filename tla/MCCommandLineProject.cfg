SPECIFICATION Spec
CONSTANTS
  CommandLines <- AllCommandLines
  MaxArgs = 3
INVARIANT ProjectIsInput
