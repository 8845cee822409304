-------------------------- MODULE MCSessionMessages --------------------------
(* SessionMessages with interchangeable targets.                           *)
EXTENDS SessionMessages, TLC

Symmetry == Permutations(Targets)
=============================================================================
