------------------------------ MODULE MCTeamRun ------------------------------
(* TeamRun with interchangeable tasks and runs.                            *)
EXTENDS TeamRun, TLC

Symmetry == Permutations(Tasks) \cup Permutations(Runs)
=============================================================================
