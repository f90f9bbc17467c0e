\* GetComplexTable on two labels: one key with numeric and word values, or
\* two numeric keys reported by some trials only; console and HTML output.
CONSTANTS
  NONE = NONE
  KeyOrder <- MCKeyOrder
  Columns <- ComplexColumns
  PValues <- MCPValues
  Labels <- LabelsComplex
  KeyName = "keys"
  Sort = 3
  OutputTypes <- ConsoleAndHtml
  Runs <- RunsTwoLabels
SPECIFICATION Spec
CHECK_DEADLOCK FALSE
INVARIANT TypeOK
INVARIANT NoComparisonWithoutBaseline
INVARIANT CountColourTracksCounts
INVARIANT RatioDirectionMatchesMeans
INVARIANT LiteralShowsTrial
INVARIANT NoFormatError
INVARIANT HeaderAlignsWithRows
INVARIANT RowKeysAreAggregateKeys
INVARIANT PrintFailsOnlyWithoutKeys
