\* GetComplexTable on values of both signs: where formatting may raise.
CONSTANTS
  NONE = NONE
  KeyOrder <- MCKeyOrder
  Columns <- ComplexColumns
  PValues <- MCPValues
  Labels <- LabelsComplex
  KeyName = "keys"
  Sort = 3
  OutputTypes <- ConsoleOnly
  Runs <- RunsSigned
SPECIFICATION Spec
CHECK_DEADLOCK FALSE
INVARIANT TypeOK
INVARIANT FormatErrorNeedsOppositeSigns
PROPERTY TabulatorRefinement
