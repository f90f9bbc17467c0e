------------------------------- MODULE Dejagnu -------------------------------
(***************************************************************************)
(* src/dejagnu/gdb_dejagnu.py: Main runs ProcessArguments, builds the     *)
(* DejagnuExecuter, and then, inside try/except/finally, the six steps    *)
(* that prepare and run the gdb dejagnu tests.  Every external effect is  *)
(* a fault point: a shell command returns a zero or non-zero status, a    *)
(* file operation may raise, equery's output may not name an ebuild, the  *)
(* board may have no target.  The command texts, paths, templates and     *)
(* log output are left out; which commands ran and what they returned is  *)
(* kept.                                                                   *)
(***************************************************************************)
EXTENDS Integers

CONSTANTS
  Argvs,  \* the command lines: which options are given, and --cleanup's value
  NONE    \* Python None

\* The shell commands the executer runs in the chroot.  The gdbserver
\* command is "./setup_board ...; emerge-<board> gdb", two commands.
Commands == {"equery", "ebuild", "setup_board", "emerge", "scp",
             "reboot", "iptables", "make_check"}

\* A command's exit status: zero or not.
Statuses == {0, 1}
NOT_RUN == -1

VARIABLES
  argv,       \* sys.argv, fixed for the run
  mountFlag,  \* executer._mount_flag is set
  rc,         \* command -> the status it returned, NOT_RUN before
  ret,        \* Main's ret: exit code and the exception text (NONE: 3-tuple)
  exc,        \* the exception propagating out of Main, NONE if none
  pc

vars == <<argv, mountFlag, rc, ret, exc, pc>>

\* ProcessArguments' checks, in their order: the exception raised, or NONE.
\* The parser declares no --keep option, so options.keep_intermediate_files
\* raises AttributeError whenever --cleanup is given.
ArgError(o) ==
  CASE ~o.chromeos_root                                     -> "missing_root"
    [] ~o.remote                                            -> "missing_remote"
    [] ~o.board                                             -> "missing_board"
    [] o.cleanup = "mount" /\ ~o.mount                      -> "cleanup_without_mount"
    [] o.cleanup \notin {NONE, "mount", "chroot", "chromeos"} -> "invalid_cleanup"
    [] o.cleanup # NONE                                     -> "AttributeError"
    [] OTHER                                                -> NONE

Init ==
  /\ argv \in Argvs
  /\ mountFlag = FALSE
  /\ rc = [c \in Commands |-> NOT_RUN]
  /\ ret = NONE
  /\ exc = NONE
  /\ pc = "args"

\* opts = ProcessArguments(argv): the exception leaves Main.
ProcessArguments ==
  /\ pc = "args"
  /\ IF ArgError(argv) # NONE
     THEN pc' = "raised" /\ exc' = ArgError(argv)
     ELSE pc' = "init" /\ UNCHANGED exc
  /\ UNCHANGED <<argv, mountFlag, rc, ret>>

\* Mutation: ret is first assigned after the try's steps.
StartTryLate == UNCHANGED ret

\* ret = (1, '', ''): exit code 1 and no exception text.
StartTry == ret' = [code |-> 1, info |-> NONE]

\* DejagnuExecuter(...): misc.GetCtargetFromBoard may find no target, and
\* the exception leaves Main.  With --mount the source flag is set and
\* MountSource is called, which builds its command and never runs it.
\* Main then sets ret = (1, '', '') and enters the try.
NewExecuter ==
  /\ pc = "init"
  /\ \/ pc' = "raised" /\ exc' = "unsupported_board" /\ UNCHANGED <<mountFlag, ret>>
     \/ /\ mountFlag' = argv.mount
        /\ StartTry
        /\ pc' = "setup_dir"
        /\ UNCHANGED exc
  /\ UNCHANGED <<argv, rc>>

\* Mutation: the except clause leaves ret as it was.
RaiseKeepsRet(e) == UNCHANGED <<ret, exc>> /\ pc' = "returned"

\* Mutation: no return in the finally clause; the exception leaves Main.
RaisePropagates(e) == exc' = e /\ pc' = "raised" /\ UNCHANGED ret

\* The except clause and the finally's return: ret = (1, '', '', str(e)).
Raise(e) == ret' = [code |-> 1, info |-> e] /\ pc' = "returned" /\ UNCHANGED exc

\* The step returned normally; Main goes on at the next statement.
Continue(to) == pc' = to /\ UNCHANGED <<ret, exc>>

\* A step of the try that makes no command: it succeeds or raises e.
FileStep(from, to, e) ==
  /\ pc = from
  /\ Continue(to) \/ Raise(e)
  /\ UNCHANGED <<argv, mountFlag, rc>>

\* SetupTestingDir: tempfile.mkdtemp under the chroot's tmp.
SetupTestingDir == FileStep("setup_dir", "rsa_keys", "OSError")

\* PrepareTestingRsaKeys: the fresh directory has no key, so it is copied.
PrepareTestingRsaKeys == FileStep("rsa_keys", "test_files", "IOError")

\* PrepareTestFiles: the board and site files from their templates.
PrepareTestFiles == FileStep("test_files", "gdb", "IOError")

\* PrepareGdb: equery names the gdb ebuild (its status is not looked at);
\* without an ".ebuild" in its output the step raises, otherwise the
\* ebuild's clean compile runs and a non-zero status raises.
PrepareGdb ==
  /\ pc = "gdb"
  /\ \E q \in Statuses, found \in BOOLEAN :
       IF ~found
       THEN rc' = [rc EXCEPT !["equery"] = q] /\ Raise("no_gdb_reversion")
       ELSE \E e \in Statuses :
              /\ rc' = [rc EXCEPT !["equery"] = q, !["ebuild"] = e]
              /\ IF e # 0 THEN Raise("ebuild_gdb_failed")
                 ELSE Continue("gdbserver")
  /\ UNCHANGED <<argv, mountFlag>>

\* Mutation: the shell command returns setup_board's status.
GdbserverStatusFirst(s, m) == s

\* The status ChrootRunCommand returns for "setup_board; emerge": the
\* shell's, which is that of the last command of the list.
GdbserverStatus(s, m) == m

\* PrepareGdbserver: "setup_board; emerge gdb" returns emerge's status,
\* whatever setup_board returned; then scp copies gdbserver to the board;
\* a non-zero status of either raises.  MountSource(unmount=False) runs
\* no command.
PrepareGdbserver ==
  /\ pc = "gdbserver"
  /\ \E s, m \in Statuses :
       IF GdbserverStatus(s, m) # 0
       THEN rc' = [rc EXCEPT !["setup_board"] = s, !["emerge"] = m]
            /\ Raise("ebuild_gdbserver_failed")
       ELSE \E c \in Statuses :
              /\ rc' = [rc EXCEPT !["setup_board"] = s, !["emerge"] = m, !["scp"] = c]
              /\ IF c # 0 THEN Raise("copy_gdbserver_failed")
                 ELSE Continue("make_check")
  /\ UNCHANGED <<argv, mountFlag>>

\* MakeCheck: reboot the board and open the gdbserver port (statuses not
\* looked at), then make check, whose non-zero status raises.  With the
\* ValidateFailures call commented out, the try ends here and the finally
\* returns ret.
MakeCheck ==
  /\ pc = "make_check"
  /\ \E b, i, k \in Statuses :
       /\ rc' = [rc EXCEPT !["reboot"] = b, !["iptables"] = i, !["make_check"] = k]
       /\ IF k # 0 THEN Raise("make_check_failed")
          ELSE Continue("returned")
  /\ UNCHANGED <<argv, mountFlag>>

Next ==
  \/ ProcessArguments
  \/ NewExecuter
  \/ SetupTestingDir
  \/ PrepareTestingRsaKeys
  \/ PrepareTestFiles
  \/ PrepareGdb
  \/ PrepareGdbserver
  \/ MakeCheck

Spec == Init /\ [][Next]_vars

\* Main runs on one thread and nothing in it waits on another: as long as
\* each shell command and file operation returns, it keeps taking steps.
FairSpec == Spec /\ WF_vars(Next)

-----------------------------------------------------------------------------
(* Properties. *)

\* Main's ret once assigned: exit code and exception text.
Results == [code : {0, 1}, info : STRING \cup {NONE}]

TypeOK ==
  /\ argv \in Argvs
  /\ mountFlag \in BOOLEAN
  /\ rc \in [Commands -> Statuses \cup {NOT_RUN}]
  /\ ret \in CASE pc \in {"args", "init"} -> {NONE}
              [] pc = "raised"            -> {NONE} \cup Results
              [] OTHER                    -> Results
  /\ pc \in {"args", "init", "setup_dir", "rsa_keys", "test_files", "gdb",
             "gdbserver", "make_check", "returned", "raised"}

\* The tests run only against a gdb that was built and a gdbserver that
\* was emerged and copied to the board: make check never runs after the
\* gdb ebuild, the gdbserver emerge or its copy returned non-zero.
MakeCheckOnInstalledGdb ==
  rc["make_check"] # NOT_RUN =>
    rc["ebuild"] = 0 /\ rc["emerge"] = 0 /\ rc["scp"] = 0

\* Once Main has entered its try it returns instead of raising, and the
\* result carries an exception text exactly when the test run did not
\* get through make check with status zero.
ResultTellsFailure ==
  pc = "returned" =>
    /\ exc = NONE
    /\ ret.info = NONE <=> rc["make_check"] = 0

\* Once Main has entered its try, it returns a result, whichever step
\* fails: the except clause catches every Exception and the finally
\* clause returns; no exception escapes to the caller and no step stops
\* it.
ReturnsOnceInTry == pc = "setup_dir" ~> pc = "returned"

\* Main's first element is the exit code (its comment), so a run whose
\* make check passed exits with status zero.
ExitCodeReportsCheck ==
  pc = "returned" /\ rc["make_check"] = 0 => ret.code = 0
=============================================================================
