---------------------------- MODULE TabulatorSpec ----------------------------
(***************************************************************************)
(* What the tabulator pipeline promises, in two steps: GetCellTable turns *)
(* the canonical table into its cell table (or raises), and Print returns *)
(* its text (or raises).  The cell table is given as a function of the    *)
(* canonical table, the column list and the p-values the significance    *)
(* test returns (CellTable); Tabulator, which takes one loop pass per     *)
(* step, is shown to implement this specification.                       *)
(***************************************************************************)
EXTENDS CellTable

CONSTANTS Columns, Labels, KeyName, Sort, Runs, PValues, OutputTypes

VARIABLES runs, tbl, outTable, outputType, pc

vars == <<runs, tbl, outTable, outputType, pc>>

Init ==
  /\ runs \in Runs
  /\ tbl \in GetTables(runs, Labels, KeyName, Sort)
  /\ outTable = <<>>
  /\ outputType \in OutputTypes
  /\ pc = "formatting"

\* TableFormatter.GetCellTable.
GetCellTable ==
  /\ pc = "formatting"
  /\ \E ps \in [PCells(tbl, Columns) -> PValues] :
       IF CellTableRaises(tbl, Columns, ps)
       THEN pc' = "format_error" /\ UNCHANGED outTable
       ELSE outTable' = CellTableOf(tbl, Columns, ps) /\ pc' = "formatted"
  /\ UNCHANGED <<runs, tbl, outputType>>

\* TablePrinter.Print.
PrintTable ==
  /\ pc = "formatted"
  /\ pc' = CASE StyleRaises(outTable)             -> "style_error"
             [] WidthRaises(outTable, outputType) -> "print_error"
             [] OTHER                             -> "done"
  /\ UNCHANGED <<runs, tbl, outTable, outputType>>

Next == GetCellTable \/ PrintTable

Spec == Init /\ [][Next]_vars
=============================================================================
