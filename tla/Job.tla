--------------------------------- MODULE Job ---------------------------------
(***************************************************************************)
(* Job of src/v14/automation/common/job.py: the job objects of the        *)
(* automation infrastructure, their status machine and the dependencies  *)
(* callers declare between them.  Every public operation that changes a   *)
(* job is an action, called by any client on any job at any time:        *)
(* DependsOn, DependsOnFolder, DependsOnMachine and the status setter,    *)
(* which goes through JobStateMachine's table (BasicStateMachine.Change,  *)
(* not in the repository, is taken to allow exactly the table's moves).   *)
(* Machine specifications and folders are model values; the paths, the    *)
(* command and the log file names are left out.                          *)
(***************************************************************************)
EXTENDS Sequences, SequencesExt, Functions

CONSTANTS
  Jobs,         \* the Job objects
  MachineSpecs, \* MachineSpecification objects
  Folders,      \* folder paths
  NONE,         \* Python None
  MaxMachineDeps, \* bound on machine_dependencies
  MaxFolderDeps   \* bound on folder_dependencies

VARIABLES
  status,       \* job -> its _state's current state
  children,     \* job -> self.children, in append order
  parents,      \* job -> self.parents
  machineDeps,  \* job -> self.machine_dependencies: [spec, primary]
  hasPrimary,   \* job -> self._has_primary_machine_spec
  folderDeps    \* job -> self.folder_dependencies

vars == <<status, children, parents, machineDeps, hasPrimary, folderDeps>>

STATUS_NOT_EXECUTED == "NOT_EXECUTED"
STATUS_SETUP        == "SETUP"
STATUS_COPYING      == "COPYING"
STATUS_RUNNING      == "RUNNING"
STATUS_SUCCEEDED    == "SUCCEEDED"
STATUS_FAILED       == "FAILED"

Statuses == {STATUS_NOT_EXECUTED, STATUS_SETUP, STATUS_COPYING,
             STATUS_RUNNING, STATUS_SUCCEEDED, STATUS_FAILED}

\* Mutation: a succeeded job may be set up again.
TransitionsRerun ==
  [s \in Statuses |->
     CASE s = STATUS_NOT_EXECUTED -> {STATUS_SETUP}
       [] s = STATUS_SETUP        -> {STATUS_COPYING, STATUS_FAILED}
       [] s = STATUS_COPYING      -> {STATUS_RUNNING, STATUS_FAILED}
       [] s = STATUS_RUNNING      -> {STATUS_SUCCEEDED, STATUS_FAILED}
       [] s = STATUS_SUCCEEDED    -> {STATUS_SETUP}
       [] OTHER                   -> {}]

\* JobStateMachine.state_machine: the states each state may change to;
\* the final states have no entry.
Transitions ==
  [s \in Statuses |->
     CASE s = STATUS_NOT_EXECUTED -> {STATUS_SETUP}
       [] s = STATUS_SETUP        -> {STATUS_COPYING, STATUS_FAILED}
       [] s = STATUS_COPYING      -> {STATUS_RUNNING, STATUS_FAILED}
       [] s = STATUS_RUNNING      -> {STATUS_SUCCEEDED, STATUS_FAILED}
       [] OTHER                   -> {}]

FinalStates == {STATUS_SUCCEEDED, STATUS_FAILED}

\* Mutation: dest not defaulted to src.
FolderDependencyNoDefault(job, src, dest) ==
  [job |-> job, src |-> src, dest |-> dest, read_only |-> dest # src]

\* FolderDependency(job, src, dest): dest defaults to src, and the folder
\* is read-only when it is copied elsewhere.
FolderDependency(job, src, dest) ==
  LET d == IF dest = NONE THEN src ELSE dest
  IN  [job |-> job, src |-> src, dest |-> d, read_only |-> d # src]

\* Job.__init__
Init ==
  /\ status = [j \in Jobs |-> STATUS_NOT_EXECUTED]
  /\ children = [j \in Jobs |-> <<>>]
  /\ parents = [j \in Jobs |-> <<>>]
  /\ machineDeps = [j \in Jobs |-> <<>>]
  /\ hasPrimary = [j \in Jobs |-> FALSE]
  /\ folderDeps = [j \in Jobs |-> <<>>]

\* Mutation: DependsOn without its membership tests.
DependsOnUpdateUnchecked(self, job) ==
  /\ children' = [children EXCEPT ![self] = Append(@, job)]
  /\ parents' = [parents EXCEPT ![job] = Append(@, self)]

\* The body of DependsOn: self records job as a child and job records self
\* as a parent, each unless it is already there.
DependsOnUpdate(self, job) ==
  /\ children' = IF job \in Range(children[self]) THEN children
                 ELSE [children EXCEPT ![self] = Append(@, job)]
  /\ parents' = IF self \in Range(parents[job]) THEN parents
                ELSE [parents EXCEPT ![job] = Append(@, self)]

\* Job.DependsOn
DependsOn(self, job) ==
  /\ DependsOnUpdate(self, job)
  /\ UNCHANGED <<status, machineDeps, hasPrimary, folderDeps>>

\* Job.DependsOnFolder
DependsOnFolder(self, dependency) ==
  /\ Len(folderDeps[self]) < MaxFolderDeps
  /\ folderDeps' = [folderDeps EXCEPT ![self] = Append(@, dependency)]
  /\ DependsOnUpdate(self, dependency.job)
  /\ UNCHANGED <<status, machineDeps, hasPrimary>>

\* Mutation: the primary specification appended like the others.
InsertPrimaryAtEnd(deps, spec) == Append(deps, [spec |-> spec, primary |-> TRUE])

\* machine_dependencies.insert(0, machine_spec)
InsertPrimary(deps, spec) == <<[spec |-> spec, primary |-> TRUE]>> \o deps

\* Job.DependsOnMachine(machine_spec, primary=True).  A second primary
\* specification raises RuntimeError before anything is changed, which is
\* no step of the model.
DependsOnPrimaryMachine(self, spec) ==
  /\ Len(machineDeps[self]) < MaxMachineDeps
  /\ ~hasPrimary[self]
  /\ hasPrimary' = [hasPrimary EXCEPT ![self] = TRUE]
  /\ machineDeps' = [machineDeps EXCEPT ![self] = InsertPrimary(@, spec)]
  /\ UNCHANGED <<status, children, parents, folderDeps>>

\* Job.DependsOnMachine(machine_spec, primary=False)
DependsOnOtherMachine(self, spec) ==
  /\ Len(machineDeps[self]) < MaxMachineDeps
  /\ machineDeps' = [machineDeps EXCEPT ![self] =
                       Append(@, [spec |-> spec, primary |-> FALSE])]
  /\ UNCHANGED <<status, children, parents, hasPrimary, folderDeps>>

\* The status setter: self._state.Change(new_state), along the table.
SetStatus(self, new) ==
  /\ new \in Transitions[status[self]]
  /\ status' = [status EXCEPT ![self] = new]
  /\ UNCHANGED <<children, parents, machineDeps, hasPrimary, folderDeps>>

\* Job.is_ready: every child has succeeded.  child.status is the child's
\* JobStateMachine, compared with a status string; BasicStateMachine (not
\* in the repository) is taken to compare equal to its current state.
IsReady(self) == \A c \in Range(children[self]) : status[c] = STATUS_SUCCEEDED

Next ==
  \E self \in Jobs :
    \/ \E job \in Jobs : DependsOn(self, job)
    \/ \E job \in Jobs, src \in Folders, dest \in Folders \cup {NONE} :
         DependsOnFolder(self, FolderDependency(job, src, dest))
    \/ \E spec \in MachineSpecs : DependsOnPrimaryMachine(self, spec)
    \/ \E spec \in MachineSpecs : DependsOnOtherMachine(self, spec)
    \/ \E new \in Statuses : SetStatus(self, new)

Spec == Init /\ [][Next]_vars

-----------------------------------------------------------------------------
(* Properties. *)

TypeOK ==
  /\ status \in [Jobs -> Statuses]
  /\ \A j \in Jobs :
       /\ Range(children[j]) \subseteq Jobs
       /\ Range(parents[j]) \subseteq Jobs
       /\ Len(machineDeps[j]) <= MaxMachineDeps
       /\ Len(folderDeps[j]) <= MaxFolderDeps
       /\ Range(folderDeps[j]) \subseteq
            [job: Jobs, src: Folders, dest: Folders, read_only: BOOLEAN]
  /\ hasPrimary \in [Jobs -> BOOLEAN]

\* The dependency graph is kept from both ends: job k is a child of j
\* exactly when j is a parent of k, and neither list repeats a job,
\* whichever of DependsOn and DependsOnFolder declared the edge and however
\* often.
ParentsMirrorChildren ==
  \A j, k \in Jobs :
    /\ k \in Range(children[j]) <=> j \in Range(parents[k])
    /\ IsInjective(children[j])
    /\ IsInjective(parents[j])

\* A job has at most one primary machine specification, it is first in
\* machine_dependencies, and _has_primary_machine_spec says whether there
\* is one.
PrimarySpecFirst ==
  \A j \in Jobs :
    LET primaries == {i \in DOMAIN machineDeps[j] : machineDeps[j][i].primary}
    IN  /\ hasPrimary[j] <=> primaries # {}
        /\ primaries \subseteq {1}

\* A job that is_ready stays ready until a new child is declared for it:
\* its children's SUCCEEDED is final, so a scheduler that saw is_ready
\* true can start the job later without checking again, unless someone
\* called DependsOn (or DependsOnFolder) on it in between.
ReadinessOnlyLostToNewChild ==
  [][\A j \in Jobs :
       IsReady(j) /\ ~IsReady(j)' => Len(children'[j]) > Len(children[j])]_vars

=============================================================================
