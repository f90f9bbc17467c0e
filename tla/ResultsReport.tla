---------------------------- MODULE ResultsReport ----------------------------
(***************************************************************************)
(* ResultsReport of src/crosperf/results_report.py: the report around the *)
(* tabulator.  _GetTables makes, for every benchmark of ro.result, a      *)
(* one-cell title table and the cell table of its runs (or a one-cell     *)
(* "no result" table); PrintTables prints a list of tables; _GetCharts    *)
(* extracts one chart per key from the Amean/Min/Max cell table; the     *)
(* text and HTML reports call these in order.                             *)
(*                                                                         *)
(* ResultOrganizer is not part of the repository: ro.result is an input,  *)
(* a function from the benchmark names to runs (one list of trial         *)
(* dictionaries per label), visited in any dictionary order.  The cell    *)
(* tables are CellTable's functions of the canonical tables.              *)
(***************************************************************************)
EXTENDS CellTable

CONSTANTS
  Labels,      \* ro.labels, the baseline label first
  Benchmarks,  \* self.benchmarks: a sequence of [name, iterations]
  Results,     \* the ro.result ResultOrganizer may build
  Calls        \* the calls a client makes: [kind, out]

VARIABLES
  call,     \* the call being served
  result,   \* ro.result
  items,    \* the keys of result in the dictionary's iteration order
  todo,     \* the items the running loop has still to visit
  bench,    \* _GetTables' loop variable benchmark (NONE while unbound)
  tables,   \* the list _GetTables has built
  charts,   \* the list _GetCharts has built
  printed,  \* the number of tables PrintTables has printed
  pc

vars == <<call, result, items, todo, bench, tables, charts, printed, pc>>

\* A column of the report, and the LiteralResult(i) column named str(i+1).
Column(result0, fmt, name) ==
  [result |-> result0, fmt |-> fmt, name |-> name, iteration |-> 0]
LiteralColumn(i) ==
  [result |-> "LiteralResult", fmt |-> "Format", name |-> ToString(i + 1),
   iteration |-> i]

\* GetFullTables' columns.
FullColumns ==
  << Column("NonEmptyCountResult", "Format", "Completed"),
     Column("RawResult", "Format", ""),
     Column("MinResult", "Format", ""),
     Column("MaxResult", "Format", ""),
     Column("AmeanResult", "Format", ""),
     Column("StdResult", "Format", "") >>

\* _GetCharts' columns.
ChartColumns ==
  << Column("AmeanResult", "Format", ""),
     Column("MinResult", "Format", ""),
     Column("MaxResult", "Format", "") >>

\* _ParseColumn: a RawResult column becomes one literal column per
\* iteration.
ParseColumn(columns, iteration) ==
  FlattenSeq([j \in DOMAIN columns |->
                IF columns[j].result # "RawResult" THEN <<columns[j]>>
                ELSE [i \in 1..iteration |-> LiteralColumn(i - 1)]])

\* Mutation: only the baseline label looked at.
AreAllRunsEmptyFirstLabel(runs) ==
  \A t \in DOMAIN runs[1] : DOMAIN runs[1][t] = {}

\* _AreAllRunsEmpty: no trial of any label reported anything.
AreAllRunsEmpty(runs) ==
  \A l \in DOMAIN runs : \A t \in DOMAIN runs[l] : DOMAIN runs[l][t] = {}

\* Mutation: the loop without its break, which ends on the last benchmark.
LookupBenchmarkNoBreak(old, item) ==
  IF Benchmarks # <<>> THEN Benchmarks[Len(Benchmarks)] ELSE old

\* The inner loop of _GetTables: the first benchmark named item; without
\* one, the loop variable keeps the last benchmark (or its old value when
\* self.benchmarks is empty).
LookupBenchmark(old, item) ==
  LET hits == {i \in DOMAIN Benchmarks : Benchmarks[i].name = item}
  IN  IF hits # {} THEN Benchmarks[Min(hits)]
      ELSE IF Benchmarks # <<>> THEN Benchmarks[Len(Benchmarks)] ELSE old

\* ben_table and the table of a benchmark without results; the text of
\* benchmark_info is abstracted to the name and iterations it shows.
BenTable(b) ==
  <<<<[NewCell EXCEPT !.string_value =
         [k |-> "benchmark", name |-> b.name, iterations |-> b.iterations]]>>>>
\* Mutation: the table of a benchmark without results is the formatter's
\* table of its key-less canonical table.
NoResultTableFormatted ==
  LET t == CHOOSE t \in GetTables([l \in DOMAIN Labels |-> <<[k \in {} |-> NONE]>>],
                                   Labels, "keys", SORT_BY_KEYS) : TRUE
  IN  CellTableOf(t, ParseColumn(FullColumns, 1), <<>>)

NoResultTable == <<<<[NewCell EXCEPT !.string_value = Str("no result")]>>>>

\* Mutation: ben_table not appended.
ItemTablesNoTitle(b, cellTable) == <<cellTable>>

\* The two appends that end an item's pass.
ItemTables(b, cellTable) == <<BenTable(b), cellTable>>

\* TablePrinter's output type (PLAIN 0, CONSOLE 1, HTML 2, TSV 3, EMAIL 4)
\* for PrintTables' out_to.
OutputType == [PLAIN |-> 0, CONSOLE |-> 1, HTML |-> 2, TSV |-> 3, EMAIL |-> 4]

\* TableGenerator(runs, ro.labels).GetTable() with its default sort.
CanonicalTables(runs) == GetTables(runs, Labels, "keys", SORT_BY_KEYS)

\* Python str: a raw measurement, a message, a joined list.
IsPyStr(v) == v # NONE /\ v.k \in {"str", "num", "join"}

\* Mutation: cur_index advanced by two cells per label.
CurIndexStrideTwo(l) == 2 * l

\* cur_index of label l (1-based) in a data row: the key cell, then three
\* cells per label.
CurIndex(l) == 3 * l - 1

\* The chart of one data row: title "item: key" and a row per label.
ChartOf(item, row) ==
  [title |-> <<item, row[1].string_value>>,
   rows  |-> [l \in DOMAIN Labels |->
                <<Labels[l], row[CurIndex(l)].value, row[CurIndex(l) + 1].value,
                  row[CurIndex(l) + 2].value>>]]

\* A chart is dropped (chart = None) at the first label whose Amean is a str.
ChartKept(row) == \A l \in DOMAIN Labels : ~IsPyStr(row[CurIndex(l)].value)

\* The charts of one item's data table, from its third row on.
ChartsOf(item, data) ==
  LET kept == SelectSeq(SubSeq(data, 3, Len(data)), ChartKept)
  IN  [i \in DOMAIN kept |-> ChartOf(item, kept[i])]

-----------------------------------------------------------------------------
Init ==
  /\ call \in Calls
  /\ result \in Results
  /\ items \in SetToSeqs(DOMAIN result)
  /\ todo = items
  /\ bench = NONE
  /\ tables = <<>>
  /\ charts = <<>>
  /\ printed = 0
  /\ pc = CASE call.kind = "html" -> "charts"
            [] call.kind = "full" -> "tables"
            [] OTHER              -> "summary"

\* One pass of _GetCharts' item loop.
GetChart ==
  /\ pc = "charts"
  /\ todo # <<>>
  /\ \E t \in CanonicalTables(result[Head(todo)]) :
       IF CellTableRaises(t, ChartColumns, <<>>)
       THEN pc' = "format_error" /\ UNCHANGED charts
       ELSE /\ charts' = charts \o ChartsOf(Head(todo), CellTableOf(t, ChartColumns, <<>>))
            /\ UNCHANGED pc
  /\ todo' = Tail(todo)
  /\ UNCHANGED <<call, result, items, bench, tables, printed>>

\* _GetCharts returns; HTMLResultsReport.GetReport goes on with the summary.
ChartsDone ==
  /\ pc = "charts"
  /\ todo = <<>>
  /\ pc' = "summary"
  /\ UNCHANGED <<call, result, items, todo, bench, tables, charts, printed>>

\* GetSummaryTables: building its column list evaluates StatsSignificant(),
\* a name defined nowhere, and raises NameError.
GetSummaryTables ==
  /\ pc = "summary"
  /\ pc' = "name_error"
  /\ UNCHANGED <<call, result, items, todo, bench, tables, charts, printed>>

\* One pass of _GetTables' item loop on GetFullTables' columns.
GetTablesItem ==
  /\ pc = "tables"
  /\ todo # <<>>
  /\ LET item == Head(todo)
         b    == LookupBenchmark(bench, item)
         cols == ParseColumn(FullColumns, b.iterations)
     IN  /\ bench' = b
         /\ \/ /\ AreAllRunsEmpty(result[item])
               /\ tables' = tables \o ItemTables(b, NoResultTable)
               /\ UNCHANGED pc
            \/ /\ ~AreAllRunsEmpty(result[item])
               /\ \E t \in CanonicalTables(result[item]) :
                    IF CellTableRaises(t, cols, <<>>)
                    THEN pc' = "format_error" /\ UNCHANGED tables
                    ELSE /\ tables' = tables \o ItemTables(b, CellTableOf(t, cols, <<>>))
                         /\ UNCHANGED pc
  /\ todo' = Tail(todo)
  /\ UNCHANGED <<call, result, items, charts, printed>>

\* _GetTables returns; the client prints the tables.
TablesDone ==
  /\ pc = "tables"
  /\ todo = <<>>
  /\ pc' = "printing"
  /\ UNCHANGED <<call, result, items, todo, bench, tables, charts, printed>>

\* One pass of PrintTables' loop: TablePrinter(table, type).Print().
PrintTable ==
  /\ pc = "printing"
  /\ printed < Len(tables)
  /\ LET t == tables[printed + 1]
     IN  CASE StyleRaises(t)                          -> pc' = "style_error"
           [] WidthRaises(t, OutputType[call.out])    -> pc' = "print_error"
           [] OTHER                                   -> UNCHANGED pc
  /\ printed' = printed + 1
  /\ UNCHANGED <<call, result, items, todo, bench, tables, charts>>

PrintDone ==
  /\ pc = "printing"
  /\ printed = Len(tables)
  /\ pc' = "done"
  /\ UNCHANGED <<call, result, items, todo, bench, tables, charts, printed>>

Next ==
  \/ GetChart \/ ChartsDone \/ GetSummaryTables
  \/ GetTablesItem \/ TablesDone \/ PrintTable \/ PrintDone

Spec == Init /\ [][Next]_vars
-----------------------------------------------------------------------------
(* Properties. *)

Finished == {"done", "name_error", "format_error", "style_error", "print_error"}

TypeOK ==
  /\ pc \in {"charts", "summary", "tables", "printing"} \cup Finished
  /\ \E n \in 0..Len(items) : todo = SubSeq(items, n + 1, Len(items))
  /\ bench \in Range(Benchmarks) \cup {NONE}
  /\ Len(tables) % 2 = 0
  /\ printed \in 0..Len(tables)

\* The values label l's trials report for key k, and whether every label
\* reports k with numbers only.
Reported(runs, l, k) == StripNone(ValueList(runs[l], k))
NumericKey(runs, k) ==
  \A l \in DOMAIN Labels : Reported(runs, l, k) # <<>> /\ AllFloat(Reported(runs, l, k))

\* _GetCharts: a chart is made for every (benchmark, key) that every label
\* reports with numbers, and for no other, once, and its row for label l
\* plots the mean, minimum and maximum of label l's own values.  Reading
\* the cells at cur_index, skipping the two header rows, and dropping on a
\* str Amean must together produce this from the cell table.
ChartsMatchNumericKeys ==
  /\ IsInjective(charts)
  /\ \A c \in Range(charts) :
       LET runs == result[c.title[1]]
       IN  /\ NumericKey(runs, c.title[2])
           /\ \A l \in DOMAIN Labels :
                LET xs == GetFloats(Reported(runs, l, c.title[2]))
                IN  c.rows[l] = <<Labels[l], Mean(xs), FMinOf(xs), FMaxOf(xs)>>
  /\ pc \in {"summary", "name_error"} =>
       \A item \in DOMAIN result : \A k \in AggregateKeys(result[item]) :
         NumericKey(result[item], k) => \E c \in Range(charts) : c.title = <<item, k>>

\* The trial value LiteralResult(i - 1) should show for label l and key k:
\* the i-th trial's value, "-" when that trial lacks k.
TrialShown(runs, l, i, k) ==
  IF i <= Len(runs[l]) /\ k \in DOMAIN runs[l][i] THEN runs[l][i][k] ELSE Str("-")

\* _GetTables: the n-th pair of tables belongs to the n-th item visited;
\* its title names that benchmark with its iterations, and its cell table
\* has a literal column titled i for each iteration i, whose cell in each
\* key's row and each label's group shows that iteration's value.  This
\* relies on the benchmark lookup and on _ParseColumn feeding the
\* formatter's column order.
BenchmarkTablesMatchItems ==
  \A n \in 1..(Len(tables) \div 2) :
    LET title == tables[2 * n - 1][1][1].string_value
        ct    == tables[2 * n]
        W     == (Len(ct[2]) - 1) \div Len(Labels)
        lit(j, i) == ct[2][1 + j].string_value = Str(ToString(i))
    IN  /\ title.name = items[n]
        /\ \E b \in Range(Benchmarks) : b.name = items[n] /\ b.iterations = title.iterations
        /\ ct # NoResultTable =>
             \A i \in 1..title.iterations :
               /\ \E j \in 1..W : lit(j, i)
               /\ \A r \in 3..Len(ct) : \A l \in DOMAIN Labels : \A j \in 1..W :
                    lit(j, i) => ct[r][1 + (l - 1) * W + j].value =
                                 TrialShown(result[items[n]], l, i, ct[r][1].string_value)

\* A benchmark whose trials reported nothing gets the "no result" table,
\* and any other a cell table with exactly one row per key some trial of
\* some label reported.
ReportedKeysTabulated ==
  \A n \in 1..(Len(tables) \div 2) :
    LET ct   == tables[2 * n]
        keys == AggregateKeys(result[items[n]])
    IN  IF keys = {} THEN ct = NoResultTable
        ELSE /\ Len(ct) = 2 + Cardinality(keys)
             /\ {ct[r][1].string_value : r \in 3..Len(ct)} = keys

\* The full tables of any results print in every output type: the "no
\* result" guard keeps the key-less table (which TablePrinter cannot
\* print) out, and the one-cell tables print.
FullTablesPrintCleanly ==
  call.kind = "full" => pc \notin {"format_error", "style_error", "print_error"}

=============================================================================
