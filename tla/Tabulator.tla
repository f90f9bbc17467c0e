----------------------------- MODULE Tabulator -----------------------------
(***************************************************************************)
(* The tabulator pipeline of GetComplexTable and of the report tables:    *)
(* TableGenerator.GetTable, TableFormatter.GetCellTable and the style     *)
(* pass of TablePrinter.Print, run one after the other on one input.      *)
(***************************************************************************)
EXTENDS TableFormatter

CONSTANT OutputTypes   \* the output types GetComplexTable may be called with

VARIABLES outputType, rowStyles, si, pi

vars == <<fvars, pc, outputType, rowStyles, si, pi>>

Printer == INSTANCE TablePrinter WITH table <- outTable

Init ==
  /\ FormatterInit
  /\ outputType \in OutputTypes
  /\ rowStyles = <<>>
  /\ si = 1
  /\ pi = 1

\* The formatter steps leave the printer's variables alone and the style
\* pass leaves the formatter's alone.
pvars == <<outputType, rowStyles, si, pi>>

StyleRow       == Printer!StyleRow /\ UNCHANGED fvars
StyleRowRaises == Printer!StyleRowRaises /\ UNCHANGED fvars
StyleDone      == Printer!StyleDone /\ UNCHANGED fvars
PrintRow       == Printer!PrintRow /\ UNCHANGED fvars
PrintRowRaises == Printer!PrintRowRaises /\ UNCHANGED fvars
PrintDone      == Printer!PrintDone /\ UNCHANGED fvars

Next ==
  \/ StartRow /\ UNCHANGED pvars
  \/ RowsDone /\ UNCHANGED pvars
  \/ SkipColumn /\ UNCHANGED pvars
  \/ ComputeCell /\ UNCHANGED pvars
  \/ ComputeCellRaises /\ UNCHANGED pvars
  \/ NextLabel /\ UNCHANGED pvars
  \/ EndRow /\ UNCHANGED pvars
  \/ GenerateHeader /\ UNCHANGED pvars
  \/ GenerateTopHeader /\ UNCHANGED pvars
  \/ StyleRow
  \/ StyleRowRaises
  \/ StyleDone
  \/ PrintRow
  \/ PrintRowRaises
  \/ PrintDone

Spec == Init /\ [][Next]_vars

PCs == {"row", "cell", "label", "header", "top", "formatted", "printing", "done",
        "print_error",
        "format_error", "style_error"}

TypeOK ==
  /\ pc \in PCs
  /\ r \in 1..Len(tbl.rows) + 1
  /\ l \in 1..Len(Labels)
  /\ c \in 1..Len(Columns)
  /\ Len(src) = Len(outRow)
  /\ Len(srcTable) <= Len(tbl.rows)
  /\ \A t \in DOMAIN tableColumns : tableColumns[t] \in ToSet(Columns)
  /\ si \in 1..Len(outTable) + 1
  /\ pi \in 1..Len(outTable) + 1
  /\ outputType \in OutputTypes

-----------------------------------------------------------------------------
(* Safety properties of the formatted table. *)

\* GetCellTable has returned: the table is complete.
Formatted ==
  pc \in {"formatted", "printing", "done", "style_error", "print_error"}

\* Raw value lists of the canonical row of data row i, and the counts
\* NonEmptyCountResult takes of them.
Count(vs) == Len(StripNone(vs))

\* Every data row has exactly one cell under each column header, and the
\* header above a cell names the column that computed it: the headers are
\* collected only while the first row is formatted (the row_index test of
\* _GenerateCellTable) and must fit every later row.
HeaderAlignsWithRows ==
  Formatted =>
    \A i \in DOMAIN srcTable :
      /\ Len(DataRows[i]) = Len(outTable[2])
      /\ \A j \in 2..Len(outTable[2]) :
           outTable[2][j].string_value = ColumnTitle(Columns[srcTable[i][j].col])

\* A column that needs a baseline (ratios, p-value) never yields a cell for
\* the first label: the baseline is only taken after the first label's
\* columns have been computed, so no label is compared with itself.
NoComparisonWithoutBaseline ==
  \A d \in DataCells :
    NeedsBaseline(Columns[d.col].result) => d.label > 1

\* Every ratio cell compares its label with the FIRST label of the row,
\* never with the label before it: the baseline is set once per row.
ComparesWithFirstLabel ==
  \A d \in DataCells :
    Columns[d.col].result \in {"AmeanRatioResult", "GmeanRatioResult"} =>
      d.cell.value = ResultValue(Columns[d.col].result, tbl.rows[d.row].key,
                                 RowVals(d.row)[d.label], RowVals(d.row)[1],
                                 NONE)

\* The background NonEmptyCountResult gives a count cell appears exactly
\* when its label has a different number of values than the first label,
\* and leans green (r < g) exactly when it has more.
CountColourTracksCounts ==
  \A d \in DataCells :
    Columns[d.col].result = "NonEmptyCountResult" =>
      LET mine == Count(RowVals(d.row)[d.label])
          base == Count(RowVals(d.row)[1])
      IN  /\ (d.cell.bgcolor # NONE) <=> (d.label > 1 /\ mine # base)
          /\ d.cell.bgcolor # NONE =>
               ((d.cell.bgcolor.r < d.cell.bgcolor.g) <=> mine > base)

\* A mean-ratio cell reads above 1 only when its label did better than the
\* first label (a higher mean, or a lower one for a lower-is-better key),
\* and reads 1 exactly when the two means are equal: the zero-baseline
\* fallbacks of the ratio results (0.0 and 1.0) and the inversion of
\* _InvertIfLowerIsBetter, which skips a zero value, must never turn a
\* regression into an apparent improvement.
RatioDirectionMatchesMeans ==
  \A d \in DataCells :
    LET res  == Columns[d.col].result
        mean(vs) == IF res = "AmeanRatioResult" THEN Mean(GetFloats(StripNone(vs)))
                    ELSE GetGmean(GetFloats(StripNone(vs)))
        m    == mean(RowVals(d.row)[d.label])
        bm   == mean(RowVals(d.row)[1])
        v    == d.cell.value
    IN  res \in {"AmeanRatioResult", "GmeanRatioResult"} /\ IsFloatValue(v)
        /\ FLe(FInt(0), m) /\ FLe(FInt(0), bm) =>
          /\ FLt(FInt(1), v) =>
               IF IsLowerBetter(tbl.rows[d.row].key) THEN FLt(m, bm) ELSE FLt(bm, m)
          /\ v = FInt(1) <=> m = bm

\* A mean-ratio cell of a label whose mean improved on a nonzero baseline
\* mean reads above 1 (spec 4.3: the lower-is-better inversion makes an
\* improvement "always" a ratio above 1).  _InvertIfLowerIsBetter skips a
\* falsy ratio, so a lower-is-better mean that fell to zero keeps 0.0.
ImprovementReadsAboveOne ==
  \A d \in DataCells :
    LET res      == Columns[d.col].result
        mean(vs) == IF res = "AmeanRatioResult" THEN Mean(GetFloats(StripNone(vs)))
                    ELSE GetGmean(GetFloats(StripNone(vs)))
        m        == mean(RowVals(d.row)[d.label])
        bm       == mean(RowVals(d.row)[1])
        better   == IF IsLowerBetter(tbl.rows[d.row].key) THEN FLt(m, bm) ELSE FLt(bm, m)
    IN  res \in {"AmeanRatioResult", "GmeanRatioResult"} /\ IsFloatValue(d.cell.value)
        /\ FLe(FInt(0), m) /\ FLt(FInt(0), bm) /\ better =>
          FLt(FInt(1), d.cell.value)

\* The Literal column of iteration i shows, for every label, the value the
\* label's i-th trial reported for the row's key, and "-" when that trial
\* did not report it or does not exist: GetTable keeps one slot per trial.
LiteralShowsTrial ==
  \A d \in DataCells :
    Columns[d.col].result = "LiteralResult" =>
      LET trials == runs[d.label]
          i      == Columns[d.col].iteration
          key    == tbl.rows[d.row].key
      IN  d.cell.value = IF i < Len(trials) /\ key \in DOMAIN trials[i + 1]
                         THEN trials[i + 1][key] ELSE Str("-")

\* Computing and formatting the cells never raises: the colour of every
\* coloured format stays inside the [0, 2] range _GetColorBetweenRange
\* asserts.
NoFormatError == pc # "format_error"

\* TablePrinter._ComputeStyle never finds two cells of one row claiming the
\* row's background (the p-value cells set bgcolor_row).
RowStylesUnique == pc # "style_error"

\* The key column of the finished table lists every key any trial of any
\* label reported, each exactly once (spec, section 8): _AggregateKeys
\* unions the keys of every trial and the row loop emits one row per key.
RowKeysAreAggregateKeys ==
  Formatted =>
    LET reported == UNION {DOMAIN run : run \in UNION {ToSet(runs[lb]) : lb \in DOMAIN runs}}
    IN  /\ Len(srcTable) = Cardinality(reported)
        /\ {DataRows[i][1].string_value : i \in DOMAIN srcTable} = reported

\* When computing a cell raises, the cell is a mean ratio whose label and
\* baseline means have opposite signs: every other value reaching
\* _GetColorBetweenRange is kept inside [0, 2] by the squeeze in _GetColor.
FormatErrorNeedsOppositeSigns ==
  pc = "format_error" =>
    /\ Column.result = "AmeanRatioResult"
    /\ LET mine == GetFloats(StripNone(Values))
           base == GetFloats(StripNone(baseline))
       IN  FLt(FMul(Mean(mine), Mean(base)), FInt(0))

\* _ComputeStyle fails only on a row where two labels' p-values are both
\* significant: only PValueFormat sets bgcolor_row, and only together
\* with a bgcolor, below 0.05.
StyleErrorNeedsTwoSignificantLabels ==
  pc = "style_error" =>
    /\ si >= 3
    /\ Cardinality({j \in 2..Len(outTable[si]) :
                      /\ Columns[srcTable[si - 2][j].col].result = "PValueResult"
                      /\ IsFloatValue(outTable[si][j].value)
                      /\ FLt(outTable[si][j].value, ColorMid("PValueFormat"))}) >= 2

\* Printing fails only for a table without any key, in a padded output
\* type: as soon as there is a data row, every width _GetCellValue looks
\* up for a spanning label cell, 1 + (j-1)*colspan + k, is a column of the
\* first data row, since each label emits at least colspan cells.
PrintFailsOnlyWithoutKeys ==
  pc = "print_error" =>
    /\ srcTable = <<>>
    /\ outputType \in {Printer!PLAIN, Printer!CONSOLE, Printer!EMAIL}

\* Each label of the top header spans exactly the cells emitted for that
\* label (TablePrinter sums the widths of columns 1 + (j-1)*colspan ..
\* for the j-th label, and HTML uses the colspan as is).
TopHeaderSpansLabelGroups ==
  Formatted /\ srcTable # <<>> =>
    /\ outTable[1][1].colspan = 1
    /\ \A j \in 2..Len(outTable[1]) :
         outTable[1][j].colspan =
           Cardinality({p \in DOMAIN srcTable[1] : srcTable[1][p].label = j - 1})

\* SORT_BY_VALUES_DESC puts the rows in descending order of the highest
\* value observed for their key (spec, 4.1), compared as numbers when all
\* of them are numeric.
RowsOrderedByHighestValue ==
  Sort = SORT_BY_VALUES_DESC =>
    \A i \in DOMAIN tbl.rows : \A j \in i..Len(tbl.rows) :
      LET hi == StripNone(ValuesOfKey(runs, tbl.rows[i].key))
          hj == StripNone(ValuesOfKey(runs, tbl.rows[j].key))
      IN  AllFloat(hi) /\ AllFloat(hj) =>
            FLe(FMaxOf(GetFloats(hj)), FMaxOf(GetFloats(hi)))

-----------------------------------------------------------------------------
(* Refinement of TabulatorSpec. *)

\* The formatter loop is inside GetCellTable until "formatted"; the style
\* and print passes are inside the one Print step.
AbstractPc ==
  CASE pc \in {"row", "cell", "label", "header", "top"} -> "formatting"
    [] pc \in {"formatted", "printing"}                 -> "formatted"
    [] OTHER                                            -> pc

\* GetCellTable returns nothing until it is done, or when it raised.
AbstractTable == IF AbstractPc \in {"formatting", "format_error"} THEN <<>> ELSE outTable

Abstract == INSTANCE TabulatorSpec WITH pc <- AbstractPc, outTable <- AbstractTable

\* The loop of _GenerateCellTable computes exactly the cell table of
\* TabulatorSpec: one row per canonical row, each label's cells against
\* the first label's list, the first label without baseline columns, the
\* headers of the first row's cells and the label header's colspans; it
\* raises exactly when some cell raises, and Print raises exactly as its
\* asserts and width lookups say.  (The stuttering disjunct comes first
\* only so that TLC does not compute the whole table on every step.)
TabulatorRefinement ==
  Abstract!Init /\ [][UNCHANGED Abstract!vars \/ Abstract!Next]_Abstract!vars
=============================================================================
