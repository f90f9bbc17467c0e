\* SORT_BY_VALUES_DESC compares the raw strings.
CONSTANTS
  NONE = NONE
  KeyOrder <- MCKeyOrder
  Columns <- ComplexColumns
  PValues <- MCPValues
  Labels <- LabelsComplex
  KeyName = "keys"
  Sort = 3
  OutputTypes <- ConsoleOnly
  Runs <- RunsTwoDigits
SPECIFICATION Spec
CHECK_DEADLOCK FALSE
INVARIANT RowsOrderedByHighestValue
