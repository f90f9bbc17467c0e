\* GetComplexTable on two labels reporting a lower-is-better key ms_1 with
\* values 0 and 1: a mean that falls from 1 to 0 is the best improvement.
CONSTANTS
  NONE = NONE
  KeyOrder <- MCKeyOrder
  Columns <- ComplexColumns
  PValues <- MCPValues
  Labels <- LabelsComplex
  KeyName = "keys"
  Sort = 3
  OutputTypes <- ConsoleOnly
  Runs <- RunsLowerBetter
SPECIFICATION Spec
CHECK_DEADLOCK FALSE
INVARIANT ImprovementReadsAboveOne
