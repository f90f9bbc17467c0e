\* gdb_dejagnu.py's Main on every command line, with every command status
\* and every raising file operation.
CONSTANTS
  NONE = NONE
  Argvs <- MCArgvs
SPECIFICATION FairSpec
CHECK_DEADLOCK FALSE
INVARIANT TypeOK
INVARIANT MakeCheckOnInstalledGdb
INVARIANT ResultTellsFailure
PROPERTY ReturnsOnceInTry
