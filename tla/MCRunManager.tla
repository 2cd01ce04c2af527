---------------------------- MODULE MCRunManager ----------------------------
(***************************************************************************)
(* Small instances of RunManager: two runs, so that one restarts or        *)
(* resumes the other, and at most one cached result, one save that raises  *)
(* and one crash.                                                          *)
(***************************************************************************)
EXTENDS RunManager, TLC

CONSTANTS r1, r2

RunSymmetry == Permutations(Runs)
=============================================================================
