\* A negative mean ratio trips the assert of _GetColorBetweenRange.
CONSTANTS
  NONE = NONE
  KeyOrder <- MCKeyOrder
  Columns <- ComplexColumns
  PValues <- MCPValues
  Labels <- LabelsComplex
  KeyName = "keys"
  Sort = 3
  OutputTypes <- ConsoleOnly
  Runs <- RunsSigned
SPECIFICATION Spec
CHECK_DEADLOCK FALSE
INVARIANT NoFormatError
