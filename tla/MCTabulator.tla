---------------------------- MODULE MCTabulator ----------------------------
(***************************************************************************)
(* Instantiation of Tabulator for TLC: the column lists of the drivers in *)
(* tabulator.py, key names, raw values and the input runs.                *)
(***************************************************************************)
EXTENDS Tabulator

\* Key names as <<text before the first "_", rest>>.
K1  == <<"k1", "">>
Ms1 == <<"ms", "1">>

\* Raw measurement strings.
N(i) == [k |-> "num", n |-> i]
PASS == [k |-> "str", s |-> "PASS"]
FAIL == [k |-> "str", s |-> "FAIL"]

\* A column; iteration only matters for LiteralResult.
Col(result, fmt, name) ==
  [result |-> result, fmt |-> fmt, name |-> name, iteration |-> 0]

\* GetComplexTable's columns.
ComplexColumns ==
  << Col("LiteralResult", "Format", "Literal"),
     Col("AmeanResult", "Format", ""),
     Col("StdResult", "Format", ""),
     Col("CoeffVarResult", "CoeffVarFormat", ""),
     Col("NonEmptyCountResult", "Format", ""),
     Col("AmeanRatioResult", "PercentFormat", ""),
     Col("AmeanRatioResult", "RatioFormat", ""),
     Col("GmeanRatioResult", "RatioFormat", ""),
     Col("PValueResult", "PValueFormat", "") >>

\* The p-values the significance test is allowed to return.
MCPValues == {Fl(1, 100), Fl(1, 2)}

\* Every trial over keys and raw values: a dictionary reporting some keys.
Trials(keys, vals) == UNION {[D -> vals] : D \in SUBSET keys}

\* Every runs argument with nl labels of 1..maxTrials trials each.
RunsOf(nl, maxTrials, keys, vals) ==
  [1..nl -> UNION {[1..n -> Trials(keys, vals)] : n \in 1..maxTrials}]

LabelNames(nl) == [i \in 1..nl |-> CASE i = 1 -> "vanilla"
                                     [] i = 2 -> "modified"
                                     [] OTHER -> "third"]

MCKeyOrder == <<K1, Ms1>>

\* TablePrinter.CONSOLE, the output type of the reports' tables, and HTML.
ConsoleOnly    == {1}
ConsoleAndHtml == {1, 2}

LabelsComplex == LabelNames(2)
RunsComplexOneKey == RunsOf(2, 2, {K1}, {N(0), N(1), N(4), PASS})

\* Two keys, the second lower-is-better, reported by some trials only.
RunsTwoKeys == RunsOf(2, 2, {K1, Ms1}, {N(4)})

\* A lower-is-better key whose mean can be zero.
RunsLowerBetter == RunsOf(2, 2, {Ms1}, {N(0), N(1)})

\* All three of the above.
RunsTwoLabels == RunsComplexOneKey \cup RunsTwoKeys \cup RunsLowerBetter

\* Three labels: the third is compared with the first, not the second.
LabelsThree == LabelNames(3)
RunsThreeLabels == RunsOf(3, 2, {K1}, {N(1), N(4)})

\* Values of both signs: a mean ratio can come out negative.
RunsSigned == RunsOf(2, 2, {K1}, {N(-1), N(0), N(1), N(4)})

\* Single trials of one- and two-digit values for two keys.
RunsTwoDigits == RunsOf(2, 1, {K1, Ms1}, {N(4), N(16)})

\* Numbers and words, one trial per label.
RunsWords == RunsOf(2, 2, {K1}, {N(1), PASS})
=============================================================================
