---------------------------- MODULE TablePrinter ----------------------------
(***************************************************************************)
(* TablePrinter._ComputeStyle of src/v14/utils/tabulator.py: the pass     *)
(* over the rows of a cell table that picks each row's inherited colour   *)
(* and background, asserting that at most one cell of the row claims it, *)
(* then the printing loop of _GetStringValue, which looks up the column   *)
(* widths _ComputeStyle computed.  The widths and the text themselves     *)
(* only pad the output; the model keeps which width entries are looked    *)
(* up, since a lookup past the end raises.                                *)
(***************************************************************************)
EXTENDS TabFormat, Sequences, FiniteSets

CONSTANT OutputTypes   \* the output types Print may be asked for

VARIABLES
  table,      \* the cell table being printed
  outputType, \* self._output_type
  rowStyles,  \* self._row_styles so far
  si,         \* index of the row being styled
  pi,         \* index of the row being printed
  pc

PLAIN   == 0
CONSOLE == 1
HTML    == 2
TSV     == 3
EMAIL   == 4

\* The cells of a row that set color_row (resp. bgcolor_row).
ColorClaims(row)   == {j \in DOMAIN row : row[j].color_row}
BgColorClaims(row) == {j \in DOMAIN row : row[j].bgcolor_row}

\* The row style _ComputeStyle builds for row.
RowStyle(row) ==
  [NewCell EXCEPT
     !.color   = IF ColorClaims(row) = {} THEN NONE
                 ELSE row[CHOOSE j \in ColorClaims(row) : TRUE].color,
     !.bgcolor = IF BgColorClaims(row) = {} THEN NONE
                 ELSE row[CHOOSE j \in BgColorClaims(row) : TRUE].bgcolor]

\* One of the asserts of the row loop fails: a claiming cell without its
\* colour, or a second claim in the same row.
RowStyleRaises(row) ==
  \/ Cardinality(ColorClaims(row)) > 1
  \/ Cardinality(BgColorClaims(row)) > 1
  \/ \E j \in ColorClaims(row) : row[j].color = NONE
  \/ \E j \in BgColorClaims(row) : row[j].bgcolor = NONE

StyleRow ==
  /\ pc = "formatted"
  /\ si <= Len(table)
  /\ ~RowStyleRaises(table[si])
  /\ rowStyles' = Append(rowStyles, RowStyle(table[si]))
  /\ si' = si + 1
  /\ UNCHANGED <<table, outputType, pi, pc>>

StyleRowRaises ==
  /\ pc = "formatted"
  /\ si <= Len(table)
  /\ RowStyleRaises(table[si])
  /\ pc' = "style_error"
  /\ UNCHANGED <<table, outputType, rowStyles, si, pi>>

\* The number of column styles: one per cell of self._table[1], none for a
\* table of fewer than two rows.
ColumnStyleCount == IF Len(table) < 2 THEN 0 ELSE Len(table[2])

\* End of the style loop; the widths of the column styles are computed.
StyleDone ==
  /\ pc = "formatted"
  /\ si > Len(table)
  /\ pc' = "printing"
  /\ UNCHANGED <<table, outputType, rowStyles, si, pi>>

\* The indices of self._column_styles _GetCellValue reads for the cell at
\* (0-based) position j: its own column's width, and for a spanning cell
\* the widths of the colspan columns 1 + (j-1)*colspan + k.
WidthLookups(cell, j) ==
  IF outputType \notin {PLAIN, CONSOLE, EMAIL} THEN {}
  ELSE (IF ColumnStyleCount > 0 THEN {j} ELSE {})
       \cup (IF cell.colspan > 1
            THEN {1 + (j - 1) * cell.colspan + k : k \in 0..cell.colspan - 1}
            ELSE {})

\* Some cell of the row reads past the end of self._column_styles.
GetCellValueRaises(row) ==
  \E j \in DOMAIN row : \E x \in WidthLookups(row[j], j - 1) :
    x >= ColumnStyleCount

\* One pass of the row loop of _GetStringValue (the text is not kept).
PrintRow ==
  /\ pc = "printing"
  /\ pi <= Len(table)
  /\ ~GetCellValueRaises(table[pi])
  /\ pi' = pi + 1
  /\ UNCHANGED <<table, outputType, rowStyles, si, pc>>

PrintRowRaises ==
  /\ pc = "printing"
  /\ pi <= Len(table)
  /\ GetCellValueRaises(table[pi])
  /\ pc' = "print_error"
  /\ UNCHANGED <<table, outputType, rowStyles, si, pi>>

PrintDone ==
  /\ pc = "printing"
  /\ pi > Len(table)
  /\ pc' = "done"
  /\ UNCHANGED <<table, outputType, rowStyles, si, pi>>

PrinterNext ==
  StyleRow \/ StyleRowRaises \/ StyleDone \/ PrintRow \/ PrintRowRaises \/ PrintDone
=============================================================================
