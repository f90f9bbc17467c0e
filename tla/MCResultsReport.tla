--------------------------- MODULE MCResultsReport ---------------------------
(***************************************************************************)
(* Instantiation of ResultsReport for TLC: two labels, two benchmarks of  *)
(* one and two iterations, and every ro.result over a key and raw values  *)
(* of the given kinds.                                                     *)
(***************************************************************************)
EXTENDS ResultsReport

K1  == <<"k1", "">>
Ms1 == <<"ms", "1">>
MCKeyOrder == <<K1, Ms1>>

N(i) == [k |-> "num", n |-> i]
PASS == [k |-> "str", s |-> "PASS"]

MCLabels == <<"vanilla", "modified">>

MCBenchmarks == << [name |-> "b1", iterations |-> 1],
                   [name |-> "b2", iterations |-> 2] >>

\* A trial: a dictionary reporting some of the keys.
Trials(keys, vals) == UNION {[D -> vals] : D \in SUBSET keys}

\* ResultOrganizer keeps one dictionary per iteration of each label, empty
\* for a run without results.
RunsFor(b, keys, vals) ==
  [1..Len(MCLabels) -> [1..b.iterations -> Trials(keys, vals)]]

ResultsOf(keys, vals) ==
  {r \in [{b.name : b \in Range(MCBenchmarks)} -> UNION {RunsFor(b, keys, vals) : b \in Range(MCBenchmarks)}] :
     \A b \in Range(MCBenchmarks) : r[b.name] \in RunsFor(b, keys, vals)}

\* Numbers and a word for one key.
ResultsWords == ResultsOf({K1}, {N(1), PASS})
\* Two numbers and a word for one key.
ResultsMixed == ResultsOf({K1}, {N(1), N(4), PASS})

FullCalls == {[kind |-> "full", out |-> o] : o \in {"CONSOLE", "HTML"}}
HtmlCall  == {[kind |-> "html", out |-> "HTML"]}
TextCalls == {[kind |-> "text", out |-> "CONSOLE"], [kind |-> "email", out |-> "EMAIL"]}
ReportCalls == TextCalls \cup HtmlCall
ReportCallsAndFull == HtmlCall \cup FullCalls
=============================================================================
