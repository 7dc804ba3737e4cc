SPECIFICATION Spec
CONSTANT Inputs <- AllInputs
INVARIANTS SectionsExact IndentTellsParent TextTellsKind
