------------------------------ MODULE PyFloat ------------------------------
(***************************************************************************)
(* The part of Python/numpy float arithmetic the tabulator relies on,     *)
(* computed exactly over the rationals.  A float is a record              *)
(*   [k |-> "float", n |-> numerator, d |-> denominator]  (d > 0, reduced) *)
(* or one of the special values NaN and Inf (numpy produces +inf when a   *)
(* nonzero float64 is divided by zero).  Rounding error of IEEE doubles   *)
(* is abstracted away: the model computes the exact value.                *)
(***************************************************************************)
EXTENDS Integers

NaN == [k |-> "nan"]
Inf == [k |-> "inf"]

LOCAL AbsInt(i) == IF i < 0 THEN -i ELSE i

RECURSIVE GCD(_, _)
GCD(a, b) == IF b = 0 THEN a ELSE GCD(b, a % b)

\* The float n/d, reduced (d # 0).
Fl(n, d) ==
  LET s == IF d < 0 THEN -1 ELSE 1
      g == GCD(AbsInt(n), AbsInt(d))
  IN  [k |-> "float", n |-> (s * n) \div g, d |-> (s * d) \div g]

\* float(i) for an integer i.
FInt(i) == Fl(i, 1)

IsFiniteF(x) == x.k = "float"
IsF(x)       == x.k \in {"float", "nan", "inf"}
IsNaNF(x)    == x.k = "nan"
IsZeroF(x)   == IsFiniteF(x) /\ x.n = 0

FAdd(x, y) ==
  IF IsNaNF(x) \/ IsNaNF(y) THEN NaN
  ELSE IF x.k = "inf" \/ y.k = "inf" THEN Inf
  ELSE Fl(x.n * y.d + y.n * x.d, x.d * y.d)

FNeg(x) == IF IsFiniteF(x) THEN Fl(-x.n, x.d) ELSE NaN

FSub(x, y) == FAdd(x, FNeg(y))

FMul(x, y) ==
  IF ~IsFiniteF(x) \/ ~IsFiniteF(y) THEN NaN ELSE Fl(x.n * y.n, x.d * y.d)

\* numpy float64 division: x/0 is inf for x # 0 and nan for 0/0;
\* a finite value divided by inf is 0.
FDiv(x, y) ==
  IF IsNaNF(x) \/ IsNaNF(y) THEN NaN
  ELSE IF x.k = "inf" THEN (IF y.k = "inf" THEN NaN ELSE Inf)
  ELSE IF y.k = "inf" THEN FInt(0)
  ELSE IF y.n = 0 THEN (IF x.n = 0 THEN NaN ELSE Inf)
  ELSE Fl(x.n * y.d, x.d * y.n)

\* x < y; every comparison with nan is false.
FLt(x, y) ==
  /\ ~IsNaNF(x) /\ ~IsNaNF(y)
  /\ IF x.k = "inf" THEN FALSE
     ELSE IF y.k = "inf" THEN TRUE
     ELSE x.n * y.d < y.n * x.d

FGt(x, y) == FLt(y, x)
FLe(x, y) == FLt(x, y) \/ (x = y /\ ~IsNaNF(x))

FAbs(x) == IF IsFiniteF(x) /\ x.n < 0 THEN FNeg(x) ELSE x

FPow(x, e) ==
  IF IsFiniteF(x) THEN Fl(x.n ^ e, x.d ^ e) ELSE x

\* int(x) for 0 <= x: truncation towards zero.
FTrunc(x) == x.n \div x.d

\* The non-negative e-th root of a finite float that has an exact one.
\* Used only on inputs whose root is rational (see the model bounds).
FRoot(x, e) ==
  LET r(i) == CHOOSE j \in 0..i : j ^ e = i
  IN  Fl(r(x.n), r(x.d))

HasRoot(x, e) ==
  /\ IsFiniteF(x) /\ x.n >= 0
  /\ \E j \in 0..x.n : j ^ e = x.n
  /\ \E j \in 0..x.d : j ^ e = x.d
=============================================================================
