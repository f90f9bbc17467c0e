---------------------------------- MODULE MCJob ----------------------------------
(***************************************************************************)
(* Instantiation of Job for TLC: jobs and machine specifications are     *)
(* symmetric model values.                                                *)
(***************************************************************************)
EXTENDS Job, TLC

MCSymmetry == Permutations(Jobs) \cup Permutations(MachineSpecs)
=============================================================================
