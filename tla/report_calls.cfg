\* The HTML report and PrintTables(GetFullTables(), out_to) for console
\* and HTML output: the tables of each benchmark, the charts and printing,
\* on every result of a key reported with two numbers or a word, empty
\* trials and benchmarks without results included.
CONSTANTS
  NONE = NONE
  KeyOrder <- MCKeyOrder
  Labels <- MCLabels
  Benchmarks <- MCBenchmarks
  Results <- ResultsMixed
  Calls <- ReportCallsAndFull
SPECIFICATION Spec
CHECK_DEADLOCK FALSE
INVARIANT TypeOK
INVARIANT FullTablesPrintCleanly
INVARIANT ChartsMatchNumericKeys
INVARIANT BenchmarkTablesMatchItems
INVARIANT ReportedKeysTabulated
