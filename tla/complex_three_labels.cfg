\* GetComplexTable on three labels: comparisons with the first label, and the row style pass.
CONSTANTS
  NONE = NONE
  KeyOrder <- MCKeyOrder
  Columns <- ComplexColumns
  PValues <- MCPValues
  Labels <- LabelsThree
  KeyName = "keys"
  Sort = 3
  OutputTypes <- ConsoleOnly
  Runs <- RunsThreeLabels
SPECIFICATION Spec
CHECK_DEADLOCK FALSE
INVARIANT TypeOK
INVARIANT ComparesWithFirstLabel
INVARIANT StyleErrorNeedsTwoSignificantLabels
PROPERTY TabulatorRefinement
