-------------------------- MODULE MCAdoptExisting --------------------------
(* AdoptExisting for TLC. Runs take nothing but the mutex from their name, *)
(* and requests nothing but the name of their receipt. NoRequest chooses a *)
(* request, so that requests are not a symmetry set.                       *)
EXTENDS AdoptExisting, TLC

MCSymmetry == Permutations(Runs)
=============================================================================
