--------------------------- MODULE MCTeamSession ---------------------------
(***************************************************************************)
(* TeamSession for TLC.  The requests of a session differ in nothing but   *)
(* their names, so that the runs that check safety only may identify       *)
(* states that differ by a permutation of them.                            *)
(***************************************************************************)
EXTENDS TeamSession, TLC

CallerSymmetry == Permutations(Callers)
=============================================================================
