\* Two significant p-values in one row trip the row style assert.
CONSTANTS
  NONE = NONE
  KeyOrder <- MCKeyOrder
  Columns <- ComplexColumns
  PValues <- MCPValues
  Labels <- LabelsThree
  KeyName = "keys"
  Sort = 3
  OutputTypes <- ConsoleOnly
  Runs <- RunsThreeLabels
SPECIFICATION Spec
CHECK_DEADLOCK FALSE
INVARIANT RowStylesUnique
