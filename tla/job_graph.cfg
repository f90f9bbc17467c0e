\* Two jobs (a job may depend on itself), one folder, one machine
\* specification, up to two machine dependencies and one folder dependency.
CONSTANTS
  Jobs = {j1, j2}
  MachineSpecs = {m1}
  Folders = {"f1"}
  NONE = NONE
  MaxMachineDeps = 2
  MaxFolderDeps = 1
SYMMETRY MCSymmetry
SPECIFICATION Spec
INVARIANT TypeOK
INVARIANT ParentsMirrorChildren
INVARIANT PrimarySpecFirst
PROPERTY ReadinessOnlyLostToNewChild
