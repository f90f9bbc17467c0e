--------------------------- MODULE TableFormatter ---------------------------
(***************************************************************************)
(* TableFormatter._GenerateCellTable of src/v14/utils/tabulator.py, one   *)
(* step per pass of its loops, fed by TableGenerator.GetTable.            *)
(*                                                                         *)
(* For each canonical row the loop walks the labels and, per label, every *)
(* column: a column whose Result needs a baseline is skipped until the    *)
(* first label's list has become the baseline.  Column headers are taken  *)
(* from the columns emitted on the first row; the label header above them *)
(* gives every label the colspan of the columns that need no baseline.    *)
(***************************************************************************)
EXTENDS TableGenerator

CONSTANTS
  Columns,     \* the column list passed to the TableFormatter
  Labels,      \* the label names, the first one the baseline
  KeyName,     \* TableGenerator's key_name (the top-left header)
  Sort,        \* TableGenerator's sort order
  Runs,        \* the inputs: each a sequence, per label, of trials
  PValues      \* the p-values stats.lttest_ind may return

ASSUME Columns # <<>> /\ Len(Labels) >= 1

VARIABLES
  runs,         \* the runs the table was generated from (never changes)
  tbl,          \* the canonical table (self._table)
  r,            \* index of the canonical row being formatted
  l,            \* index of the label within the row
  c,            \* index of the column within the label
  baseline,     \* the baseline value list of the row, or None
  outRow,       \* the cells of the row so far
  outTable,     \* self._out_table
  tableColumns, \* self._table_columns
  src,          \* history: [label, col] each cell of outRow came from
  srcTable,     \* history: src of every finished row
  pc

fvars == <<runs, tbl, r, l, c, baseline, outRow, outTable, tableColumns, src,
           srcTable>>

FormatterInit ==
  /\ runs \in Runs
  /\ tbl \in GetTables(runs, Labels, KeyName, Sort)
  /\ r = 1 /\ l = 1 /\ c = 1
  /\ baseline = NONE
  /\ outRow = <<>> /\ outTable = <<>> /\ tableColumns = <<>>
  /\ src = <<>> /\ srcTable = <<>>
  /\ pc = "row"

Row    == tbl.rows[r]
Values == Row.vals[l]
Column == Columns[c]

\* Start of the loop body over self._table[1:].
StartRow ==
  /\ pc = "row"
  /\ r <= Len(tbl.rows)
  /\ outRow' = <<KeyCell(Row.key)>>
  /\ src' = <<[label |-> 0, col |-> 0]>>
  /\ baseline' = NONE
  /\ l' = 1 /\ c' = 1
  /\ pc' = "cell"
  /\ UNCHANGED <<runs, tbl, r, outTable, tableColumns, srcTable>>

RowsDone ==
  /\ pc = "row"
  /\ r > Len(tbl.rows)
  /\ pc' = "header"
  /\ UNCHANGED fvars

\* Mutation: an off-by-one in the bound of the column loop.
NextColumnPastEnd ==
  IF c <= Len(Columns)
  THEN c' = c + 1 /\ pc' = "cell"
  ELSE c' = c /\ pc' = "label"

\* Move on to the next column, or to the end of the label.
NextColumn ==
  IF c < Len(Columns)
  THEN c' = c + 1 /\ pc' = "cell"
  ELSE c' = c /\ pc' = "label"

\* Mutation: the baseline test dropped.
EmittedAlways == TRUE

\* The column is computed: it needs no baseline or there is one.
Emitted == ~NeedsBaseline(Column.result) \/ baseline # NONE

\* A column that needs a baseline, while the row has none yet.
SkipColumn ==
  /\ pc = "cell"
  /\ ~Emitted
  /\ NextColumn
  /\ UNCHANGED <<runs, tbl, r, l, baseline, outRow, outTable, tableColumns,
                 src, srcTable>>

\* Mutation: the row_index test dropped.
RecordColumnEveryRow == tableColumns' = Append(tableColumns, Column)

\* While the first row is formatted, the column is recorded for the header.
RecordColumn ==
  tableColumns' = IF r = 1 THEN Append(tableColumns, Column) ELSE tableColumns

\* Result.Compute, Format.Compute and the append of the cell; the first
\* row also records the column for the header.
ComputeCell ==
  /\ pc = "cell"
  /\ Emitted
  /\ \E p \in PValues :
       LET cell == ResultCompute(Column, Row.key, Values, baseline, p)
       IN  /\ ~ResultRaises(Column, Values, baseline)
           /\ ~FormatRaises(Column.fmt, cell)
           /\ outRow' = Append(outRow, FormatCompute(Column.fmt, cell))
  /\ src' = Append(src, [label |-> l, col |-> c])
  /\ RecordColumn
  /\ NextColumn
  /\ UNCHANGED <<runs, tbl, r, l, baseline, outTable, srcTable>>

\* Computing or formatting the cell raises; GetCellTable propagates it.
ComputeCellRaises ==
  /\ pc = "cell"
  /\ Emitted
  /\ \E p \in PValues :
       LET cell == ResultCompute(Column, Row.key, Values, baseline, p)
       IN  ResultRaises(Column, Values, baseline)
           \/ FormatRaises(Column.fmt, cell)
  /\ pc' = "format_error"
  /\ UNCHANGED fvars

\* Mutation: every label's list becomes the baseline of the next.
TakeBaselineEveryLabel == baseline' = Values

\* The first label's list becomes the row's baseline.
TakeBaseline == baseline' = IF baseline = NONE THEN Values ELSE baseline

\* After the columns of a label: the first label's list becomes the
\* baseline; then the next label.
NextLabel ==
  /\ pc = "label"
  /\ l < Len(Row.vals)
  /\ TakeBaseline
  /\ l' = l + 1 /\ c' = 1
  /\ pc' = "cell"
  /\ UNCHANGED <<runs, tbl, r, outRow, outTable, tableColumns, src, srcTable>>

EndRow ==
  /\ pc = "label"
  /\ l = Len(Row.vals)
  /\ outTable' = Append(outTable, outRow)
  /\ srcTable' = Append(srcTable, src)
  /\ r' = r + 1
  /\ pc' = "row"
  /\ UNCHANGED <<runs, tbl, l, c, baseline, outRow, tableColumns, src>>

GenerateHeader ==
  /\ pc = "header"
  /\ outTable' = <<<<[NewCell EXCEPT !.string_value = Str("Keys")]>> \o
                   [i \in DOMAIN tableColumns |->
                      [NewCell EXCEPT !.string_value =
                                        ColumnTitle(tableColumns[i])]]>>
                 \o outTable
  /\ pc' = "top"
  /\ UNCHANGED <<runs, tbl, r, l, c, baseline, outRow, tableColumns, src,
                 srcTable>>

\* Mutation: the span counts every column.
TopColspanAllColumns == Len(Columns)

\* The label header: every entry of table[0] except one named "keys" spans
\* as many columns as there are columns that need no baseline.
TopColspan ==
  Cardinality({i \in DOMAIN Columns : ~NeedsBaseline(Columns[i].result)})

GenerateTopHeader ==
  /\ pc = "top"
  /\ outTable' = <<[i \in DOMAIN tbl.header |->
                     [NewCell EXCEPT !.string_value = Str(tbl.header[i]),
                        !.colspan = IF tbl.header[i] # "keys"
                                    THEN TopColspan ELSE 1]]>>
                 \o outTable
  /\ pc' = "formatted"
  /\ UNCHANGED <<runs, tbl, r, l, c, baseline, outRow, tableColumns, src,
                 srcTable>>

FormatterNext ==
  \/ StartRow \/ RowsDone \/ SkipColumn \/ ComputeCell \/ ComputeCellRaises
  \/ NextLabel \/ EndRow \/ GenerateHeader \/ GenerateTopHeader

-----------------------------------------------------------------------------
(* Views used by the properties. *)

\* The data rows of outTable, each paired with its history.
DataRows == SubSeq(outTable, Len(outTable) - Len(srcTable) + 1, Len(outTable))

\* Every finished data cell: row index, position, the cell and its origin.
DataCells ==
  UNION {{[row |-> i, pos |-> j, cell |-> DataRows[i][j],
           label |-> srcTable[i][j].label, col |-> srcTable[i][j].col] :
            j \in 2..Len(srcTable[i])} : i \in DOMAIN srcTable}

\* The value lists of the canonical row a data row was formatted from.
RowVals(i) == tbl.rows[i].vals
=============================================================================
