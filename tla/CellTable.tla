------------------------------ MODULE CellTable ------------------------------
(***************************************************************************)
(* TableFormatter.GetCellTable of src/v14/utils/tabulator.py as a function *)
(* of the canonical table, the column list and the p-values the           *)
(* significance test returns, and the conditions under which it and       *)
(* TablePrinter.Print raise.  Tabulator computes the same table one loop  *)
(* pass per step; TabulatorSpec and ResultsReport use these operators.    *)
(***************************************************************************)
EXTENDS TableGenerator

\* TablePrinter's operators on a given table and output type.
P(t, ot) == INSTANCE TablePrinter WITH table <- t, outputType <- ot,
              OutputTypes <- {ot}, rowStyles <- <<>>, si <- 1, pi <- 1, pc <- "formatted"

\* Label l emits column j: a column that needs a baseline is left out of
\* the first label's group, whose list only then becomes the baseline.
EmitsColumn(columns, l, j) == l > 1 \/ ~NeedsBaseline(columns[j].result)

\* The <<label, column>> of every cell after the key cell of a row.
CellOrigins(nl, columns) ==
  FlattenSeq([l \in 1..nl |->
                SelectSeq([j \in DOMAIN columns |-> <<l, j>>],
                          LAMBDA o : EmitsColumn(columns, o[1], o[2]))])

\* The baseline of label l's cells: None for the first label's own cells,
\* then the first label's list.
BaselineFor(row, l) == IF l = 1 THEN NONE ELSE row.vals[1]

\* The cells of the p-value columns, whose value depends on the test.
PCells(t, columns) ==
  LET o == CellOrigins(Len(t.header) - 1, columns)
  IN  {<<i, x>> \in (DOMAIN t.rows) \X (DOMAIN o) :
         columns[o[x][2]].result = "PValueResult"}

\* The cell Result.Compute yields at position x of data row i, when the
\* p-values are ps.
ResultCell(t, columns, ps, i, x) ==
  LET o   == CellOrigins(Len(t.header) - 1, columns)[x]
      row == t.rows[i]
  IN  ResultCompute(columns[o[2]], row.key, row.vals[o[1]],
                    BaselineFor(row, o[1]),
                    IF <<i, x>> \in DOMAIN ps THEN ps[<<i, x>>] ELSE NONE)

\* Some cell's Result or Format raises.
CellTableRaises(t, columns, ps) ==
  LET o == CellOrigins(Len(t.header) - 1, columns)
  IN  \E i \in DOMAIN t.rows : \E x \in DOMAIN o :
        \/ ResultRaises(columns[o[x][2]], t.rows[i].vals[o[x][1]],
                        BaselineFor(t.rows[i], o[x][1]))
        \/ FormatRaises(columns[o[x][2]].fmt, ResultCell(t, columns, ps, i, x))

\* GetCellTable: the label header, the column header of the cells of the
\* first row (none without rows) and a row of cells per canonical row.
CellTableOf(t, columns, ps) ==
  LET o    == CellOrigins(Len(t.header) - 1, columns)
      cols == IF t.rows = <<>> THEN <<>> ELSE [x \in DOMAIN o |-> columns[o[x][2]]]
      span == Cardinality({j \in DOMAIN columns : ~NeedsBaseline(columns[j].result)})
  IN  << [i \in DOMAIN t.header |->
            [NewCell EXCEPT !.string_value = Str(t.header[i]),
                            !.colspan = IF t.header[i] # "keys" THEN span ELSE 1]],
         <<[NewCell EXCEPT !.string_value = Str("Keys")]>> \o
           [x \in DOMAIN cols |->
              [NewCell EXCEPT !.string_value = ColumnTitle(cols[x])]] >>
      \o [i \in DOMAIN t.rows |->
            <<KeyCell(t.rows[i].key)>> \o
              [x \in DOMAIN o |->
                 FormatCompute(columns[o[x][2]].fmt, ResultCell(t, columns, ps, i, x))]]

\* Print raises: a row whose cells claim its colour twice (the asserts of
\* _ComputeStyle), else a width looked up past the column styles.
StyleRaises(t) == \E i \in DOMAIN t : P(t, 0)!RowStyleRaises(t[i])
WidthRaises(t, ot) == \E i \in DOMAIN t : P(t, ot)!GetCellValueRaises(t[i])
=============================================================================
