------------------------------ MODULE MCDejagnu ------------------------------
(***************************************************************************)
(* Every command line of gdb_dejagnu.py as far as ProcessArguments looks  *)
(* at it: each required option given or not, --mount given or not, and    *)
(* --cleanup absent, one of its three values, or another word.            *)
(***************************************************************************)
EXTENDS Dejagnu

MCArgvs ==
  [chromeos_root : BOOLEAN, remote : BOOLEAN, board : BOOLEAN,
   mount : BOOLEAN, cleanup : {NONE, "chroot", "chromeos", "mount", "other"}]
=============================================================================
