----------------------------- MODULE TabResult -----------------------------
(***************************************************************************)
(* The Result family of src/v14/utils/tabulator.py: how one cell's value  *)
(* is computed from a list of raw values and the baseline's list.         *)
(*                                                                         *)
(* A column is [result, fmt, name, iteration]: result and fmt are the     *)
(* class names of its Result and Format objects, iteration the argument   *)
(* of a LiteralResult.  A key name is a pair <<head, tail>>: the text     *)
(* before its first underscore and the rest ("" if it has none), which is *)
(* all _IsLowerBetter looks at.                                           *)
(***************************************************************************)
EXTENDS TabFormat, Sequences, SequencesExt

ResultKinds == {"LiteralResult", "NonEmptyCountResult", "RawResult",
                "AmeanResult", "MinResult", "MaxResult", "StdResult",
                "CoeffVarResult", "PValueResult", "AmeanRatioResult",
                "GmeanRatioResult"}

\* _StripNone
StripNone(results) == SelectSeq(results, LAMBDA r : r # NONE)

\* misc.IsFloat, applied to every value by _AllFloat: the raw value parses
\* as a number.
AllFloat(values) == \A i \in DOMAIN values : values[i].k = "num"

\* _GetFloats
GetFloats(values) == [i \in DOMAIN values |-> FInt(values[i].n)]

\* Result._AllStringsSame
AllStringsSame(values) == Cardinality(ToSet(values)) = 1

\* NeedsBaseline: True exactly for the ComparisonResult subclasses.
NeedsBaseline(result) ==
  result \in {"PValueResult", "AmeanRatioResult", "GmeanRatioResult"}

\* KeyAwareComparisonResult._IsLowerBetter
IsLowerBetter(name) ==
  /\ name[2] # ""
  /\ name[1] \in {"milliseconds", "ms", "seconds", "KB", "rdbytes", "wrbytes"}

FSum(xs) == FoldLeft(FAdd, FInt(0), xs)

\* numpy.mean and numpy.std (population standard deviation).
Mean(xs) == FDiv(FSum(xs), FInt(Len(xs)))
Variance(xs) ==
  LET m == Mean(xs)
  IN  Mean([i \in DOMAIN xs |-> FMul(FSub(xs[i], m), FSub(xs[i], m))])
Std(xs) == FRoot(Variance(xs), 2)

\* Result._GetGmean: exp(mean(log v)), the Len-th root of the product.
GetGmean(xs) ==
  IF xs = <<>> THEN NaN
  ELSE IF \E i \in DOMAIN xs : FLt(xs[i], FInt(0)) THEN NaN
  ELSE IF \E i \in DOMAIN xs : IsZeroF(xs[i]) THEN FInt(0)
  ELSE FRoot(FoldLeft(FMul, FInt(1), xs), Len(xs))

\* The characters of a raw value, as codes.  A numeric raw value is the
\* decimal string it was parsed from; the model's words are PASS and FAIL.
RECURSIVE Digits(_)
Digits(n) == IF n < 10 THEN <<48 + n>> ELSE Digits(n \div 10) \o <<48 + (n % 10)>>

Text(v) ==
  CASE v.k = "num" /\ v.n < 0 -> <<45>> \o Digits(-v.n)
    [] v.k = "num"            -> Digits(v.n)
    [] v.s = "PASS"           -> <<80, 65, 83, 83>>
    [] v.s = "FAIL"           -> <<70, 65, 73, 76>>

\* Python 2 str ordering: lexicographic on the characters, so "16" < "4".
StrLess(a, b) ==
  \/ IsStrictPrefix(a, b)
  \/ \E i \in 1..Len(a) :
       /\ i <= Len(b) /\ a[i] < b[i]
       /\ \A j \in 1..i - 1 : a[j] = b[j]

\* The raw values min() and max() compare are the measurement strings.
RawLess(a, b) == StrLess(Text(a), Text(b))

PyMinRaw(vs) ==
  CHOOSE m \in ToSet(vs) : \A i \in DOMAIN vs : ~RawLess(vs[i], m)
PyMaxRaw(vs) ==
  CHOOSE m \in ToSet(vs) : \A i \in DOMAIN vs : ~RawLess(m, vs[i])
FMinOf(xs) == CHOOSE m \in ToSet(xs) : \A i \in DOMAIN xs : FLe(m, xs[i])
FMaxOf(xs) == CHOOSE m \in ToSet(xs) : \A i \in DOMAIN xs : FLe(xs[i], m)

\* Ratio of two means with the zero-baseline fallbacks of AmeanRatioResult
\* and GmeanRatioResult: 0.0 if only the baseline is zero, 1.0 if both are.
MeanRatio(m, bm) ==
  IF ~IsZeroF(bm) THEN FDiv(m, bm)
  ELSE IF ~IsZeroF(m) THEN FInt(0)
  ELSE FInt(1)

\* result._ComputeFloat(cell, values, baseline_values); p is the p-value
\* stats.lttest_ind returns, which the model leaves open.
ComputeFloatResult(result, xs, bxs, p) ==
  CASE result = "RawResult"        -> [k |-> "join", vs |-> xs]
    [] result = "AmeanResult"      -> Mean(xs)
    [] result = "MinResult"        -> FMinOf(xs)
    [] result = "MaxResult"        -> FMaxOf(xs)
    [] result = "StdResult"        -> Std(xs)
    [] result = "CoeffVarResult"   -> FAbs(FDiv(Std(xs), Mean(xs)))
    [] result = "PValueResult"     ->
         IF Len(xs) < 2 \/ Len(bxs) < 2 THEN NaN ELSE p
    [] result = "AmeanRatioResult" -> MeanRatio(Mean(xs), Mean(bxs))
    [] result = "GmeanRatioResult" -> MeanRatio(GetGmean(xs), GetGmean(bxs))

\* result._ComputeString(cell, values, baseline_values).  PValueResult
\* returns nan without storing it, so the cell keeps its None.
ComputeStringResult(result, vs, bvs) ==
  CASE result = "RawResult" -> [k |-> "join", vs |-> vs]
    [] result = "AmeanResult" ->
         IF AllStringsSame(vs) THEN vs[1] ELSE Str("?")
    [] result = "MinResult" -> PyMinRaw(vs)
    [] result = "MaxResult" -> PyMaxRaw(vs)
    [] result \in {"StdResult", "CoeffVarResult"} -> Str("?")
    [] result = "PValueResult" -> NONE
    [] result \in {"AmeanRatioResult", "GmeanRatioResult"} ->
         IF AllStringsSame(vs) /\ AllStringsSame(bvs)
         THEN Str(IF vs[1] = bvs[1] THEN "SAME" ELSE "DIFFERENT")
         ELSE Str("?")

\* Mutation: _IsLowerBetter not consulted; every ratio is inverted.
InvertIfLowerIsBetterAlways(result, name, v) ==
  IF result \in {"AmeanRatioResult", "GmeanRatioResult"} /\ ~IsZeroF(v)
  THEN FDiv(FInt(1), v)
  ELSE v

\* KeyAwareComparisonResult._InvertIfLowerIsBetter: only a truthy value
\* (nonzero, or nan) is inverted.
InvertIfLowerIsBetter(result, name, v) ==
  IF /\ result \in {"AmeanRatioResult", "GmeanRatioResult"}
     /\ IsLowerBetter(name)
     /\ ~IsZeroF(v)
  THEN FDiv(FInt(1), v)
  ELSE v

\* Result.Compute: strip the Nones, fork on whether both sides are numeric.
ResultValue(result, name, values0, baseline0, p) ==
  LET values   == StripNone(values0)
      base     == IF baseline0 # NONE /\ baseline0 # <<>>
                  THEN StripNone(baseline0) ELSE baseline0
      hasBase  == base # NONE /\ base # <<>>
      allFloat == AllFloat(values) /\ (hasBase => AllFloat(base))
  IN  IF values = <<>> THEN Str("")
      ELSE IF ~hasBase /\ NeedsBaseline(result) THEN Str("")
      ELSE IF allFloat
      THEN InvertIfLowerIsBetter(result, name,
             ComputeFloatResult(result, GetFloats(values),
                                IF hasBase THEN GetFloats(base) ELSE NONE, p))
      ELSE ComputeStringResult(result, values, base)

\* Mutation: the test for a missing value dropped.
LiteralValueNoneShown(iteration, values) ==
  IF iteration < Len(values) THEN values[iteration + 1] ELSE Str("-")

\* LiteralResult.Compute: the iteration-th raw value, or "-" when it is
\* missing (None) or out of range.
LiteralValue(iteration, values) ==
  IF iteration < Len(values) /\ values[iteration + 1] # NONE
  THEN values[iteration + 1] ELSE Str("-")

\* Mutation: the difference taken the other way round.
CountColorValueSwapped(values, baseline) ==
  LET cnt  == Len(StripNone(values))
      bcnt == Len(StripNone(baseline))
      den  == IF Len(values) > Len(baseline) THEN Len(values) ELSE Len(baseline)
  IN  FAdd(FInt(1), FDiv(FInt(bcnt - cnt), FInt(den)))

\* The value NonEmptyCountResult hands to ColorBoxFormat when the counts
\* differ: 1 + (count - baseline count) / max(len(values), len(baseline)).
CountColorValue(values, baseline) ==
  LET cnt  == Len(StripNone(values))
      bcnt == Len(StripNone(baseline))
      den  == IF Len(values) > Len(baseline) THEN Len(values) ELSE Len(baseline)
  IN  FAdd(FInt(1), FDiv(FInt(cnt - bcnt), FInt(den)))

\* NonEmptyCountResult.Compute
NonEmptyCountCell(cell, values, baseline) ==
  LET cnt == Len(StripNone(values))
  IN  IF baseline = NONE \/ baseline = <<>>
         \/ cnt = Len(StripNone(baseline))
      THEN [cell EXCEPT !.value = PyInt(cnt)]
      ELSE [cell EXCEPT !.value = PyInt(cnt),
              !.bgcolor = ComputeFloatFormat("ColorBoxFormat",
                            [NewCell EXCEPT !.value =
                               CountColorValue(values, baseline)]).bgcolor]

\* column.result.Compute(cell, values, baseline) on a fresh cell named
\* after the row's key.
ResultCompute(column, name, values, baseline, p) ==
  LET cell == [NewCell EXCEPT !.name = name]
  IN  CASE column.result = "LiteralResult" ->
             [cell EXCEPT !.value = LiteralValue(column.iteration, values)]
        [] column.result = "NonEmptyCountResult" ->
             NonEmptyCountCell(cell, values, baseline)
        [] OTHER ->
             [cell EXCEPT !.value = ResultValue(column.result, name, values,
                                                baseline, p)]

\* The colour box of NonEmptyCountResult raises in _GetColorBetweenRange.
ResultRaises(column, values, baseline) ==
  /\ column.result = "NonEmptyCountResult"
  /\ baseline # NONE /\ baseline # <<>>
  /\ Len(StripNone(values)) # Len(StripNone(baseline))
  /\ FormatRaises("ColorBoxFormat",
                  [NewCell EXCEPT !.value = CountColorValue(values, baseline)])
=============================================================================
