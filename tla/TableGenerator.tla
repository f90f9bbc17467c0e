--------------------------- MODULE TableGenerator ---------------------------
(***************************************************************************)
(* TableGenerator of src/v14/utils/tabulator.py: from one list of trial   *)
(* dictionaries per label to the canonical table.                         *)
(*                                                                         *)
(* A trial is a function from the keys it reports to raw values; runs is  *)
(* the sequence (one entry per label) of sequences of trials.  The        *)
(* canonical table is                                                     *)
(*   [header |-> <<key_name>> \o labels,                                  *)
(*    rows   |-> << [key |-> k, vals |-> <<list per label>>], ... >>]     *)
(* Keys are ordered by a constant sequence KeyOrder, the order sorted()   *)
(* puts their names in.                                                   *)
(***************************************************************************)
EXTENDS TabResult

CONSTANT KeyOrder   \* every key name, in ascending string order

SORT_BY_KEYS       == 0
SORT_BY_KEYS_DESC  == 1
SORT_BY_VALUES     == 2
SORT_BY_VALUES_DESC == 3

\* Mutation: only the first label's trials are scanned.
AggregateKeysFirstLabel(runs) ==
  UNION {DOMAIN runs[1][t] : t \in DOMAIN runs[1]}

\* _AggregateKeys: every key any trial of any label reports.
AggregateKeys(runs) ==
  UNION {UNION {DOMAIN runs[l][t] : t \in DOMAIN runs[l]} : l \in DOMAIN runs}

\* The values _GetHighestValue and _GetLowestValue scan for key.
ValuesOfKey(runs, key) ==
  LET reported(trials) ==
        LET ts == SelectSeq(trials, LAMBDA run : key \in DOMAIN run)
        IN  [t \in DOMAIN ts |-> ts[t][key]]
  IN  FlattenSeq([l \in DOMAIN runs |-> reported(runs[l])])

GetHighestValue(runs, key) == PyMaxRaw(StripNone(ValuesOfKey(runs, key)))
GetLowestValue(runs, key)  == PyMinRaw(StripNone(ValuesOfKey(runs, key)))

\* The orders _SortKeys may return.  sorted() is stable, but it sorts a
\* Python set, whose iteration order is arbitrary: keys with equal sort
\* values may come out in any order.  SORT_BY_KEYS_DESC hits assert 0.
SortKeys(runs, sort, keys) ==
  LET perms == {s \in [1..Cardinality(keys) -> keys] : ToSet(s) = keys}
  IN  CASE sort = SORT_BY_KEYS ->
             {SelectSeq(KeyOrder, LAMBDA k : k \in keys)}
        [] sort = SORT_BY_VALUES ->
             {s \in perms : \A i \in DOMAIN s : \A j \in i..Len(s) :
                 ~RawLess(GetLowestValue(runs, s[j]), GetLowestValue(runs, s[i]))}
        [] sort = SORT_BY_VALUES_DESC ->
             {s \in perms : \A i \in DOMAIN s : \A j \in i..Len(s) :
                 ~RawLess(GetHighestValue(runs, s[i]), GetHighestValue(runs, s[j]))}

\* GetTable's list for key k and one label: one entry per trial, None for
\* a trial without k.
ValueList(trials, k) ==
  [t \in DOMAIN trials |-> IF k \in DOMAIN trials[t] THEN trials[t][k] ELSE NONE]

\* GetTable, for one of the key orders _GetKeys may produce.
GetTable(runs, labels, keyName, keys) ==
  [header |-> <<keyName>> \o labels,
   rows   |-> [i \in DOMAIN keys |->
                [key |-> keys[i],
                 vals |-> [l \in DOMAIN runs |-> ValueList(runs[l], keys[i])]]]]

\* Every canonical table GetTable can return for runs.
GetTables(runs, labels, keyName, sort) ==
  {GetTable(runs, labels, keyName, keys) :
     keys \in SortKeys(runs, sort, AggregateKeys(runs))}
=============================================================================
