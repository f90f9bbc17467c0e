# TLA+ models of the report tabulator, the crosperf reports, the job graph and the gdb test script

This directory holds TLA+ models of four parts of the repository:

- `src/v14/utils/tabulator.py`, the engine that turns benchmark results
  into the comparison tables of the crosperf reports;
- `src/crosperf/results_report.py`, which builds those reports, one table
  per benchmark, with charts for HTML (it imports `utils.tabulator`; the
  repository has no top-level `utils/`, and the models take the
  `src/v14/utils/tabulator.py` copy to be that module);
- `src/v14/automation/common/job.py`, the jobs of the automation
  infrastructure with their status machine and dependencies;
- `src/dejagnu/gdb_dejagnu.py`, the script that builds gdb and gdbserver
  for a board and runs the gdb dejagnu tests against it.

It also holds the TLC configurations that check those models. `PROJECT.json` lists every component, run, mutant, source mapping,
finding and hazard. This file explains them.

## 1. The system

### Components and their state

| Component | Code | State | Operations |
|---|---|---|---|
| TableGenerator | `tabulator.py` 30-127 | runs, labels, sort order | `_AggregateKeys`, `_GetHighestValue`/`_GetLowestValue`, `_SortKeys`, `GetTable` |
| Result family | 130-357 | none; writes `cell.value` | `Result.Compute` (strip None, float/string fork), the `_ComputeFloat`/`_ComputeString` of each class, `_InvertIfLowerIsBetter`, `_GetGmean` |
| Format family, Color | 360-559 | none; writes `string_value`, `color`, `bgcolor`, `bgcolor_row` | `Format.Compute`, `_GetColor`, `_GetColorBetweenRange`, `Color.Lerp`/`Round`, one `_ComputeFloat` per format |
| Cell, Column | 562-614 | cell fields | constructors |
| TableFormatter | 626-731 | `_table`, `_columns`, `_table_columns`, `_out_table` | `_GenerateCellTable`: row loop, label loop, column loop, column header, label header |
| TablePrinter | 734-897 | `_table`, `_row_styles`, `_column_styles` | `_ComputeStyle` (row styles with asserts, column widths), `_GetCellValue`, the string output |
| Drivers | 899-963 | none | `GetSimpleTable`, `GetComplexTable` |
| ResultsReport | `crosperf/results_report.py` | the experiment and its `ro.result` | `_ParseColumn`, `_AreAllRunsEmpty`, `_GetTables`, `PrintTables`, `GetSummaryTables`, `_GetCharts`, the `GetReport` of the text and HTML reports |
| ExperimentStatus | `v14/crosperf/experiment_status.py` | `num_total` | progress bar and ETA strings over counters of `experiment` |
| Job | `v14/automation/common/job.py` | status machine, children/parents, machine and folder dependencies | `DependsOn`, `DependsOnFolder`, `DependsOnMachine`, the status setter, `is_ready` |
| gdb_dejagnu | `dejagnu/gdb_dejagnu.py` | options, `_mount_flag`, Main's `ret` | `ProcessArguments`, `DejagnuExecuter.__init__`, the six steps of Main's try, its except and finally |
| build_chromeos | `build_chromeos.py` | options | a sequence of external commands |

### How the components interact

The pipeline is sequential and single-threaded:

1. `GetComplexTable(runs, labels)` asks TableGenerator for the canonical
   table. The header is `[key_name] + labels`. Each row is
   `[key, list per label]`, and a list holds one entry per trial, `None`
   where the trial did not report the key.
2. TableFormatter walks each row. For every label it runs every column's
   `Result.Compute` and then `Format.Compute`.
   - A column that needs a baseline (the ratios and the p-value) is skipped
     until the first label's list has become the baseline.
   - The column header is collected from the first row.
   - The label header gives every label the colspan of the columns that
     need no baseline.
3. TablePrinter gives each row the colour of the one cell that claims it
   (`color_row`/`bgcolor_row`), asserting there is at most one claim. It
   then computes column widths and prints.
4. ResultsReport calls this pipeline once per benchmark. Each call gets the
   benchmark's results, a column list whose `Raw` column is expanded into
   one literal column per iteration, and a title table naming the
   benchmark. A benchmark whose trials reported nothing gets a
   "no result" table instead. The HTML report first reads chart data out
   of the cell tables at fixed indices. Both reports then call
   `GetSummaryTables`.

gdb_dejagnu is a script on its own. Main checks the arguments and builds
the executer. Inside a try it then runs six steps in order: the testing
directory, the ssh key, the board files, the gdb build, the gdbserver
build and copy, and `make check`. Each step's shell command or file
operation may fail. A failure raises, and the except clause records it
in `ret`. The `return ret` inside `finally` ends Main.

Job is independent of the tabulator. Clients build a graph of jobs with
`DependsOn`, `DependsOnFolder` and `DependsOnMachine`, and move each job
through `JobStateMachine`. A scheduler, which is not in the repository,
starts a job when `is_ready` says all its children have succeeded.

### What is hard

- **The float/string fork.** Which path a cell takes depends on every
  value of the label and of the baseline.
- **Numeric edges.** A zero mean or a zero baseline changes the ratio
  fallbacks, the lower-is-better inversion and the squeeze.
- **Baseline timing.** The baseline is taken only after the first label's
  columns have been computed, and must stay the same for every later label.
- **First-row state.** The header comes from the first row and is used for
  all of them.
- **Asserts that data can reach.** `_GetColorBetweenRange` and
  `_ComputeStyle` assert on conditions ordinary data can produce.
- **Raw values are strings.** Sorting by value compares them as text.

### Correctness properties

| Component | Property |
|---|---|
| TableGenerator | Rows are exactly the union of the reported keys, in the order the sort policy promises. |
| Result family | Ratios are against the first label, and lower-is-better ratios are inverted. |
| Format family | Formatting never raises on valid data. |
| TableFormatter | The headers line up with the cells, and no label is compared with itself. |
| TablePrinter | At most one row-colour claim per row. |
| ResultsReport | Each benchmark's table carries its own title and its trials, exactly the keys reported are tabulated, and the charts plot each label's own statistics. |
| Job | Children and parents mirror each other, the primary machine is first, and a ready job stays ready until a child is added. |

## 2. Modules

The tabulator modules each extend the one before, from `PyFloat` to
`TableGenerator`. `TableFormatter` and `TablePrinter` are state machines
over them. `CellTable` gives their results as functions. `Tabulator`
composes the two machines, and `ResultsReport` calls `CellTable` once per
benchmark. `Job` stands alone.

| Module | Models | Kind |
|---|---|---|
| `PyFloat` | Python/numpy float64 arithmetic over exact rationals: nan, inf, `x/0`, comparisons false on nan, `int()` truncation, roots. The inputs are chosen so that every root is rational. | operators |
| `TabFormat` | `Cell.__init__`, `Color`, `_GetColor`, `_GetColorBetweenRange`, every `_ComputeFloat` of the Format classes, `Format.Compute` | operators |
| `TabResult` | `_StripNone`, `_AllFloat`, `_GetFloats`, `Result.Compute` and every Result class of the drivers, `_GetGmean`, `_InvertIfLowerIsBetter`, Python 2 string ordering of raw values | operators |
| `TableGenerator` | `_AggregateKeys`, `_SortKeys`, `GetTable`. `GetTables` is the set of tables GetTable may return: `sorted()` over a Python set leaves ties in any order. | operators |
| `TableFormatter` | `_GenerateCellTable`, one step per pass of its loops | state machine |
| `TablePrinter` | the row-style pass of `_ComputeStyle`, the column styles, and the row loop of `_GetStringValue` with the width lookups of `_GetCellValue` | state machine |
| `Tabulator` | `GetComplexTable`: formatter, then printer (`INSTANCE TablePrinter WITH table <- outTable`). It holds the properties. | composition |
| `CellTable` | the cell table `_GenerateCellTable` returns, and whether it raises; whether `Print` raises in its style or width pass. It takes the p-values as an argument and instances TablePrinter for the print checks. | operators |
| `TabulatorSpec` | `GetComplexTable` as two atomic steps, `GetCellTable` and `Print` | abstract specification |
| `MCTabulator` | column lists, key names, raw values, input sets | MC module |
| `ResultsReport` | `GetFullTables`/`_GetTables`, `PrintTables`, `GetSummaryTables`, `_GetCharts` and the two `GetReport`s, one step per benchmark | state machine |
| `MCResultsReport` | labels, benchmarks, every `ro.result` over one key, the calls | MC module |
| `Job` | `Job.__init__`, the status setter over `JobStateMachine`, `DependsOn`, `DependsOnFolder`, `DependsOnMachine`, `is_ready` | state machine |
| `MCJob` | symmetry over jobs and machine specifications | MC module |
| `Dejagnu` | `gdb_dejagnu.py`: `ProcessArguments`, `DejagnuExecuter.__init__`, `SetupTestingDir`, `PrepareTestingRsaKeys`, `PrepareTestFiles`, `PrepareGdbDefault`, `PrepareGdbserverDefault`, `MakeCheck`, and Main's try/except/finally | state machine with a fault model |
| `MCDejagnu` | every command line, as far as `ProcessArguments` looks at it | MC module |

### How state and actions map to the code

**TableFormatter state.** `r`, `l` and `c` are the indices of the three
nested loops of `_GenerateCellTable`. `baseline`, `outRow`, `outTable` and
`tableColumns` are its local and member variables. `src` and `srcTable` are
history variables: for each emitted cell they record the label and column
it came from. The properties use them to relate a cell to its inputs.

**TableFormatter actions.**

| Action | Code |
|---|---|
| `StartRow` | start of the row loop body: the key cell, `baseline = None` |
| `SkipColumn` | a column that needs a baseline, while there is none yet |
| `ComputeCell` | `Result.Compute`, `Format.Compute`, the append, and the `row_index` test |
| `ComputeCellRaises` | an exception out of `Compute`, which propagates out of `GetCellTable` |
| `NextLabel` | the `baseline` update at the end of the label loop |
| `EndRow` | appending the finished row |
| `GenerateHeader` | the column header |
| `GenerateTopHeader` | the label header |

**TablePrinter actions.**

- `StyleRow` styles one row, and `StyleRowRaises` is a failing assert.
- `StyleDone` ends the style pass. The column styles are then one per cell
  of `self._table[1]`.
- `PrintRow` prints one row. `PrintRowRaises` is a width lookup past the
  end of `_column_styles`.
- `PrintDone` ends the pass.

The output type is chosen in Init from the constant `OutputTypes`. The
widths, escape codes and text are not kept: no property depends on them.
Which width entries are read is kept, because reading past the end
raises.

**Inputs.** Init chooses the input from `Runs`:

- every sequence of one or two trials per label;
- every trial a dictionary over a subset of the keys;
- values drawn from a small set of raw strings.

Init also chooses any of the tables `GetTable` may return for that input.
The p-value of `stats.lttest_ind` is chosen from `PValues` at each cell.

**Refinement.** `Tabulator` is checked to implement `TabulatorSpec`. The
mapping sends every loop state of the formatter to `formatting`, and the
printer's states to `formatted`. The output table is hidden until the
formatter finishes. The property `TabulatorRefinement` holds when the
loop computes exactly `CellTableOf`, and raises exactly when
`CellTableRaises` says it does, for the p-values chosen along the way.

**ResultsReport.** The variable `call` is the report being made: the full
tables to some output, the text or email report, or the HTML report.
`result` is `ro.result`, `todo` the benchmark names still to visit,
`bench` the loop variable `benchmark` of `_GetTables`, `tables` the list
built, `charts` the charts, and `printed` the tables printed so far.

| Action | Code |
|---|---|
| `GetChart` | one pass of the loop over `ro.result` in `_GetCharts`, with the cell-table call inside it |
| `ChartsDone` | the end of `_GetCharts` |
| `GetSummaryTables` | `Column(StatsSignificant(), ...)`, which raises NameError |
| `GetTablesItem` | one pass of the loop of `_GetTables`: the benchmark lookup, the empty test, the cell table |
| `TablesDone` | the end of `_GetTables` |
| `PrintTable` | one pass of the loop of `PrintTables` |
| `PrintDone` | the end of `PrintTables` |

`ResultOrganizer` and `ColumnChart` are not in the repository.
`ro.result` is an input, a function from benchmark names to
the trials of each label. A chart is its title and its rows.

**Job.** One variable per attribute that an operation changes: `status`,
`children`, `parents`, `machineDeps`, `hasPrimary` and `folderDeps`. Each
public operation is an action any client may take on any job at any time.
`BasicStateMachine` is not in the repository. Its `Change` is taken to
allow exactly the moves of the `state_machine` table. `is_ready` compares
`child.status`, a state machine, with a status string; the machine is
taken to compare equal to its current state. The second primary
specification raises before changing anything, so it is no step.

**gdb_dejagnu.** `argv` is the command line, reduced to which options are
given and the value of `--cleanup`. `pc` is the statement Main is at.
`rc` records the status each shell command returned. `ret` is Main's
`ret`, and `exc` is an exception that leaves Main. Each method is one
action, and its failures are disjuncts:

- a shell command returns status 0 or 1;
- `mkdtemp`, `shutil.copy` and the template files may raise;
- `equery`'s output may name no ebuild;
- the board may have no target.

`"setup_board; emerge"` is one shell command whose status is emerge's
(`GdbserverStatus`). `MountSource` builds a command and never runs it,
so it changes nothing. `Cleanup` is never called, because its call is
commented out.

### Data abstraction

- **Values.** Values are tagged records (`PyFloat`, `TabFormat`). A raw
  numeric string is `[k |-> "num", n |-> i]`. Its characters are the
  decimal digits, used only by the string ordering.
- **Strings.** Display strings are kept as the pair (directive, value),
  not as characters.
- **Key names.** A key name is `<<head, tail>>`, split at its first
  underscore, which is all `_IsLowerBetter` looks at.
- **Colours.** Colours are computed exactly, including `Round`'s
  truncation.

## 3. Runs

### Passing runs

`CHECK_DEADLOCK FALSE` is set for the tabulator, report and dejagnu runs,
because the pipeline and the script terminate. Its last states are `done` and the exception
states. `job_graph` checks deadlock: some operation is always enabled.

| Run | Input | Properties | What it shows |
|---|---|---|---|
| `complex_two_labels` | 2 labels, 1-2 trials. Either key `k1` with values {0, 1, 4, PASS}, or keys `k1` and `ms_1` with value 4, or key `ms_1` with values {0, 1}. Console and HTML output. | TypeOK, NoComparisonWithoutBaseline, CountColourTracksCounts, RatioDirectionMatchesMeans, LiteralShowsTrial, NoFormatError, HeaderAlignsWithRows, RowKeysAreAggregateKeys, PrintFailsOnlyWithoutKeys | The baseline handling and the count colour hold. A ratio above 1 always means the label did better than the first label, in the key's direction, and 1.0 means equal means, through the zero-baseline fallbacks and the lower-is-better inversion. With two labels, formatting never fails. The header taken from row 1 fits every row, and every reported key gets one row. Printing fails only for a table without keys. |
| `complex_three_labels` | 3 labels, key `k1`, values {1, 4} | TypeOK, ComparesWithFirstLabel, StyleErrorNeedsTwoSignificantLabels, TabulatorRefinement | The third label is compared with the first. The style assert fails only for two significant p-values. The loops implement TabulatorSpec. |
| `complex_signed` | 2 labels, values {-1, 0, 1, 4} | TypeOK, FormatErrorNeedsOppositeSigns, TabulatorRefinement | The only cell that can make formatting raise is a mean ratio of means of opposite signs. Even where it raises, the loops implement TabulatorSpec. |
| `report_calls` | benchmarks of 1 and 2 iterations, key `k1`, values {1, 4, PASS}; the full tables to the console and HTML, and the HTML report | TypeOK, FullTablesPrintCleanly, ChartsMatchNumericKeys, BenchmarkTablesMatchItems, ReportedKeysTabulated | Every benchmark's table gets its own title and iterations, and every literal column shows its trial. Exactly the reported keys are tabulated, or "no result" is given, and the tables print cleanly. There is one chart for exactly the keys every label reports with numbers only, and each chart plots that label's own mean, minimum and maximum. |
| `dejagnu_main` | every command line (80), every command status and every file error | TypeOK, MakeCheckOnInstalledGdb, ResultTellsFailure, ReturnsOnceInTry | make check runs only after the gdb ebuild, the gdbserver emerge and its copy returned 0. Once inside the try, Main returns rather than raising, and its result carries an exception text exactly when make check did not pass. Under weak fairness, every run that enters the try ends with a returned result (`ReturnsOnceInTry`). |
| `job_graph` | 2 jobs, 1 machine spec, 1 folder; at most 2 machine and 1 folder dependencies | TypeOK, ParentsMirrorChildren, PrimarySpecFirst, ReadinessOnlyLostToNewChild | Any sequence of calls keeps the dependency lists mirrored and free of repeats, and keeps the single primary first. A ready job stays ready until it gets a new child. |

The tabulator runs other than `complex_two_labels` print to the console only. Every input set includes trials
that report no key.

Between them the passing runs fire every action and every disjunct.
`ComputeCellRaises` fires only in `complex_signed`, and `StyleRowRaises`
only in `complex_three_labels`. `GetSummaryTables` fires in
`report_calls`, after the charts of the HTML report.

### Violation runs

Each violation run checks one property. Each is a finding in `PROJECT.json`.

| Run | Property | Disagreement |
|---|---|---|
| `v_negative_ratio` | NoFormatError | A negative ratio trips `assert value >= min_value`. |
| `v_top_header` | TopHeaderSpansLabelGroups | The label colspan is 5, while a compared label emits 9 cells. |
| `v_two_pvalue_rows` | RowStylesUnique | Two significant p-values in one row trip the `_ComputeStyle` assert. |
| `v_string_sort` | RowsOrderedByHighestValue | `"4" > "16"`. |
| `v_dejagnu_exit_code` | ExitCodeReportsCheck | `ret = (1, '', '')` is never replaced on success, because the `ValidateFailures` call is commented out. A run whose make check passed exits 1. |
| `v_lower_better_zero` | ImprovementReadsAboveOne | Spec 4.3 says an improvement is always a ratio above 1. An `ms_` key whose mean falls from 1 to 0 reads 0.0, because `_InvertIfLowerIsBetter` (334) skips a falsy ratio. |

### Known divergences without a run

More disagreements were found while modelling. They are not checked by
a run:

- **None shown as "None".** `PValueResult._ComputeString`
  (`tabulator.py` 323) returns nan instead of storing it. The None value
  then reaches `Format.Compute`, which shows `str(None)`.
- **Summary tables.** `GetSummaryTables` (`results_report.py` 57)
  builds `Column(StatsSignificant(), ...)`, and `StatsSignificant` is
  defined nowhere. Every text, email and HTML report raises NameError at
  that line, whatever its input. The model has this as one step to
  `name_error`; a run checking that the report completes would only
  restate that step, so there is none.
- **None placeholders.** `GetTable` (124) keeps `None` for a trial that
  lacks the key, unlike its docstring and the spec.
- **Printing a key-less table.** For trials that reported no key,
  console printing reads `_column_styles[1]` of a one-entry list
  (`tabulator.py` 834). `PrintFailsOnlyWithoutKeys` checks that this is
  the only way printing fails. The reports never reach it, because
  `_AreAllRunsEmpty` gives such a benchmark the "no result" table
  (`FullTablesPrintCleanly`).
- **`--cleanup` unusable.** `ProcessArguments` (`gdb_dejagnu.py` 67)
  reads `options.keep_intermediate_files`, which no option declares.
  Every command line with `--cleanup` raises AttributeError. The model
  has this outcome as `ArgError`.
- **`--mount` never mounts.** `MountSource` (262) builds its command and
  never runs it, yet the ebuild and emerge are told to use mounted
  sources.
- **`setup_board` failure ignored.** The gdbserver command joins
  `setup_board` and `emerge` with `;` (189). Only emerge's status is
  checked.

### Mutants

Every property of a passing run has a mutant, listed in `PROJECT.json`: an
operator marked "Mutation" beside the definition it replaces. Each one is a
plausible slip in the code, such as:

- an off-by-one in the column loop;
- a dropped `baseline is not None` test;
- a dropped `row_index` test;
- the baseline taken from every label;
- a swapped count difference;
- the squeeze of `_GetColor` removed;
- `bgcolor_row` set outside the significance test;
- `_AggregateKeys` scanning one label;
- `_GetTables` without its `break`, or without the title table;
- `_AreAllRunsEmpty` looking at one label;
- the chart index stride wrong;
- `DependsOn` without its membership tests;
- the primary specification appended rather than inserted;
- a `FolderDependency` without its `dest` default;
- a succeeded job allowed to be set up again;
- the "no result" table built by the formatter from the key-less table;
- `ret` assigned only after the try's steps;
- the except clause not updating `ret`;
- the gdbserver command returning `setup_board`'s status;
- `_InvertIfLowerIsBetter` inverting every key's ratio;
- the `return` dropped from the finally clause, so the exception leaves
  Main.

### Bounds and why they are enough

- **Labels.** Two labels give the baseline/compared split. Three are
  needed to tell "first label" from "previous label" and to get two
  p-value cells in one row.
- **Trials.** Two trials per label are needed for the p-value path
  (`len < 2` gives nan), for a None placeholder beside a value, and for the
  Literal column's missing-trial case.
- **Values.**
  - 0 reaches the zero fallbacks.
  - -1 reaches the negative ratio.
  - 4 reaches the squeeze, since ratio 4 > 2.
  - PASS reaches the string path.
  - 16 against 4 reaches the text ordering.
  - Every mean, standard deviation and geometric mean of these sets is
    rational.
- **Keys.** Two keys give a real ordering and a lower-is-better key.
  The `ms_1` runs with values 0 and 1 reach both zero fallbacks and the
  skipped inversion of a lower-is-better key. A third job in the Job
  model gives over 14 million states within 6 minutes, so Job stays at
  two jobs, which already allows self-loops and two-job cycles.
- **P-values.** Two are enough: one below 0.05 and one above.
- **Benchmarks.** Two benchmarks give a lookup that can pick the wrong
  one. Iteration counts of 1 and 2 make the literal columns differ.
- **Report results.** Each label has exactly the benchmark's iterations
  of trials. A trial reports `k1` or nothing. This reaches the
  no-result table, a key that only some labels report, and a word that
  keeps a key out of the charts.
- **Jobs.** Two jobs reach self-dependency, mutual dependency and every
  status pair. Symmetry over jobs and machine specifications is sound,
  because no definition names a particular one. Three jobs give more than
  12 million states.
- **Command lines and statuses.** The 80 command lines cover each
  required option missing, and each `--cleanup` value with and without
  `--mount`. Statuses 0 and 1 are enough, because the code only tests
  for non-zero.
- **Integers.** Stay well inside TLC's 32-bit integers (`ratio^6` with small
  denominators).

## 4. Fairness

One liveness property is checked, `ReturnsOnceInTry` of gdb_dejagnu.

- **Tabulator and ResultsReport.** These are terminating sequential
  loops. Every behaviour ends in `done` or an exception state within the
  depth of the state graph. A weak-fairness liveness check was tried on
  ResultsReport. TLC could not evaluate `ENABLED` of the steps that
  compute the float statistics in any practical time. Termination is
  visible in the finite graph without it.
- **Job.** The code has no scheduler. `is_ready` is read by a scheduler
  that is not in the repository, so no fairness can be justified from the
  source. What the model can say about the scheduler's use of `is_ready`
  is a safety property, `ReadinessOnlyLostToNewChild`.
- **gdb_dejagnu.** `FairSpec` is `Spec /\ WF_vars(Next)`. Main runs on
  one thread and waits on nothing else, so it keeps stepping as long as
  each command returns. That is an assumption about the commands: `ssh
  ... reboot`, `make check` and the ebuilds run without a timeout.
  Under it, `ReturnsOnceInTry` says that once the try is entered, Main
  returns whichever step fails. This rests on `except Exception` and on
  the `return` in finally (298-307). The mutant that drops that `return`
  lets the exception escape, and TLC finds the run that never returns.

## 5. Not modelled

1. **TablePrinter colours and text.** The colour escape codes and the
   padding are left out; only a property about the text would need them.
2. **StorageFormat and GetSimpleTable.** No driver in the repository uses
   StorageFormat. GetSimpleTable is the same pipeline with a fixed column
   list.
3. **Report text.** The HTML templates, `_GetTabMenuHTML` and the email
   wrapping only format strings. `ResultOrganizer`, `ColumnChart` and the
   experiment objects are not in the repository, so they are inputs.
4. **Job formatting and scheduling.** The path and log-name properties
   and `PrettyFormatCommand` only build strings. The scheduler and
   `BasicStateMachine` are not in the repository. A dependency cycle or a
   failed child can leave a job never ready. That needs the scheduler to
   state, so it is listed as an uncovered hazard.
5. **ExperimentStatus.** It only formats strings over `num_complete`,
   `start_time` and the benchmark runs' timelines. These belong to
   `ExperimentRunner` and `BenchmarkRun`, which are not in the repository.
   The division by a zero `num_total` in `_GetProgressBar` is listed as a
   hazard.
6. **build_chromeos.py.** This is a sequence of external commands whose
   failures end the script through `LogFatalIf`, from `utils`, which is
   not in the repository. Its hazard, a `;` that ignores a failed
   `setup_board` on the vanilla path, is listed in `PROJECT.json`. What a
   model could check of it is the same `;` pattern already modelled in
   `Dejagnu`. Its other control flow depends on `LogFatalIf`, whose
   behaviour is not in the repository.
7. **gdb_dejagnu's `Cleanup` and file contents.** `Cleanup` is never
   called. The board and site files' contents are template substitutions
   and are left out. The stray `D` on the file's last line is never
   reached when the file runs as a script, because `sys.exit` comes
   first.
