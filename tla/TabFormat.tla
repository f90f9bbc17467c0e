----------------------------- MODULE TabFormat -----------------------------
(***************************************************************************)
(* Cells, colours and the Format family of src/v14/utils/tabulator.py.    *)
(*                                                                         *)
(* A cell is a record with the fields of class Cell that the tabulator    *)
(* reads or writes.  Cell values are tagged records:                      *)
(*   NONE                          Python None                            *)
(*   [k |-> "str", s |-> ...]      a Python str built by the tabulator    *)
(*   [k |-> "num", n |-> ...]      a raw measurement string that parses   *)
(*                                 as a number ("4" is [k|->"num",n|->4]) *)
(*   [k |-> "join", vs |-> ...]    " ".join(str(v) for v in vs)           *)
(*   [k |-> "int", n |-> ...]      a Python int                           *)
(*   floats                        see PyFloat                            *)
(* Display strings are kept abstract: the string of a float is the pair  *)
(* of the format directive and the value, never its characters.          *)
(***************************************************************************)
EXTENDS PyFloat

CONSTANT NONE   \* Python None

Str(s)   == [k |-> "str", s |-> s]
PyInt(i) == [k |-> "int", n |-> i]

\* A formatted float: the %-directive applied and the float it was applied to.
Fmt(directive, v) == [k |-> "fmt", f |-> directive, v |-> v]

\* str(v) for a non-float value v.
StrOf(v) ==
  IF v = NONE THEN Str("None")
  ELSE IF v.k \in {"str", "num", "join"} THEN v
  ELSE Fmt("%d", v)

IsFloatValue(v) == v # NONE /\ IsF(v)

\* Cell.__init__
NewCell ==
  [value |-> NONE, string_value |-> NONE, color |-> NONE, bgcolor |-> NONE,
   color_row |-> FALSE, bgcolor_row |-> FALSE, colspan |-> 1, name |-> NONE]

\* The cell of the row's key: str(row[0]).
KeyCell(key) == [NewCell EXCEPT !.string_value = key]

\* The header cell of a column: its name, or the class names without their
\* "Result" and "Format" suffixes.
ColumnTitle(col) ==
  IF col.name # "" THEN Str(col.name)
  ELSE [k |-> "title", result |-> col.result, fmt |-> col.fmt]

Color(r, g, b, a) == [r |-> r, g |-> g, b |-> b, a |-> a]

\* Color.Lerp followed by Color.Round: each component is
\* int((b - a) * ratio + a).
LerpRound(ratio, a, b) ==
  LET comp(x, y) == FTrunc(FAdd(FMul(FInt(y - x), ratio), FInt(x)))
  IN  Color(comp(a.r, b.r), comp(a.g, b.g), comp(a.b, b.b), comp(a.a, b.a))

\* Mutation: no squeeze of the values above the midpoint.
SqueezedValueUnsqueezed(value, midv) == value

\* The value _GetColor hands to _GetColorBetweenRange: values above the
\* midpoint are squeezed into (mid, 2] by 2 - mid/value.
SqueezedValue(value, midv) ==
  IF FGt(value, midv) THEN FSub(FInt(2), FDiv(midv, value)) ELSE value

\* The asserts of _GetColorBetweenRange (min 0.0, max 2.0) fail.
GetColorRaises(value, midv) ==
  /\ ~IsNaNF(value)
  /\ LET v == SqueezedValue(value, midv)
     IN  ~(FLe(v, FInt(2)) /\ FLe(FInt(0), v))

\* Format._GetColorBetweenRange with min_value 0 and max_value 2.
GetColorBetweenRange(value, midv, low, mid, high, power) ==
  IF FGt(value, midv)
  THEN LerpRound(FPow(FDiv(FSub(FInt(2), value), FSub(FInt(2), midv)), power),
                 high, mid)
  ELSE LerpRound(FPow(FDiv(value, midv), power), low, mid)

\* Format._GetColor: nan maps to the mid colour itself.
GetColor(value, low, mid, high, power, midv) ==
  IF IsNaNF(value) THEN mid
  ELSE GetColorBetweenRange(SqueezedValue(value, midv), midv, low, mid, high,
                            power)

Red    == Color(255, 0, 0, 0)
Green  == Color(0, 255, 0, 0)
Black  == Color(0, 0, 0, 0)
White  == Color(255, 255, 255, 0)
Yellow == Color(255, 255, 0, 0)

FormatKinds == {"Format", "PValueFormat", "CoeffVarFormat", "PercentFormat",
                "RatioFormat", "ColorBoxFormat"}

\* The midpoint each colouring format passes to _GetColor.
ColorMid(fmt) ==
  CASE fmt = "PValueFormat"   -> Fl(5, 100)
    [] fmt = "CoeffVarFormat" -> Fl(2, 100)
    [] OTHER                  -> FInt(1)

\* The _ComputeFloat of each Format class, for a cell holding a float v.
FormatFloat(cell) == [cell EXCEPT !.string_value = Fmt("{0:.2f}", cell.value)]

\* Mutation: bgcolor_row set outside the significance test.
PValueFloatRowAlways(cell) ==
  LET v == cell.value IN
  IF FLt(v, ColorMid("PValueFormat"))
  THEN [cell EXCEPT !.string_value = Fmt("%0.2f", v),
          !.bgcolor = GetColor(v, Yellow, White, White, 1, ColorMid("PValueFormat")),
          !.bgcolor_row = TRUE]
  ELSE [cell EXCEPT !.string_value = Fmt("%0.2f", v), !.bgcolor_row = TRUE]

\* Below 0.05 the cell gets a yellow background its whole row inherits.
PValueFloat(cell) ==
  LET v == cell.value IN
  IF FLt(v, ColorMid("PValueFormat"))
  THEN [cell EXCEPT !.string_value = Fmt("%0.2f", v),
          !.bgcolor = GetColor(v, Yellow, White, White, 1, ColorMid("PValueFormat")),
          !.bgcolor_row = TRUE]
  ELSE [cell EXCEPT !.string_value = Fmt("%0.2f", v)]

CoeffVarFloat(cell) ==
  [cell EXCEPT !.string_value = Fmt("%1.1f%%", FMul(cell.value, FInt(100))),
     !.color = GetColor(cell.value, Green, Black, Red, 1, ColorMid("CoeffVarFormat"))]

\* PercentFormat and RatioFormat: the same string and colour.
PercentFloat(cell) ==
  [cell EXCEPT
     !.string_value = Fmt("%+1.1f%%", FMul(FSub(cell.value, FInt(1)), FInt(100))),
     !.color = GetColor(cell.value, Red, Black, Green, 6, FInt(1))]

ColorBoxFloat(cell) ==
  LET bg == GetColor(cell.value, Red, White, Green, 6, FInt(1))
  IN  [cell EXCEPT !.string_value = Str("--"), !.bgcolor = bg, !.color = bg]

\* fmt._ComputeFloat(cell): dispatch on the Format class.
ComputeFloatFormat(fmt, cell) ==
  CASE fmt = "Format"         -> FormatFloat(cell)
    [] fmt = "PValueFormat"   -> PValueFloat(cell)
    [] fmt = "CoeffVarFormat" -> CoeffVarFloat(cell)
    [] fmt \in {"PercentFormat", "RatioFormat"} -> PercentFloat(cell)
    [] fmt = "ColorBoxFormat" -> ColorBoxFloat(cell)

\* Format.Compute: a None value gets the empty string, and then, having no
\* return, falls through to _ComputeString like every other non-float.
FormatCompute(fmt, cell) ==
  LET c1 == IF cell.value = NONE
            THEN [cell EXCEPT !.string_value = Str("")] ELSE cell
  IN  IF IsFloatValue(cell.value)
      THEN ComputeFloatFormat(fmt, c1)
      ELSE [c1 EXCEPT !.string_value = StrOf(cell.value)]

\* Format.Compute raises (an AssertionError in _GetColorBetweenRange).
FormatRaises(fmt, cell) ==
  /\ IsFloatValue(cell.value)
  /\ fmt # "Format"
  /\ fmt = "PValueFormat" => FLt(cell.value, ColorMid(fmt))
  /\ GetColorRaises(cell.value, ColorMid(fmt))
=============================================================================
