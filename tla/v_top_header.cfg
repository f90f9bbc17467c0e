\* The label header spans fewer cells than later labels emit.
CONSTANTS
  NONE = NONE
  KeyOrder <- MCKeyOrder
  Columns <- ComplexColumns
  PValues <- MCPValues
  Labels <- LabelsComplex
  KeyName = "keys"
  Sort = 3
  OutputTypes <- ConsoleOnly
  Runs <- RunsWords
SPECIFICATION Spec
CHECK_DEADLOCK FALSE
INVARIANT TopHeaderSpansLabelGroups
