\* gdb_dejagnu.py's Main: the exit code of a run whose make check passed.
CONSTANTS
  NONE = NONE
  Argvs <- MCArgvs
SPECIFICATION Spec
CHECK_DEADLOCK FALSE
INVARIANT ExitCodeReportsCheck
