----------------------- MODULE MCDatabasePreparation -----------------------
(* DatabasePreparation for TLC. The contents of the control-plane objects are *)
(* the reviewed ones. Runs take nothing but names from their identity.        *)
EXTENDS DatabasePreparation, TLC

MCReviewedOnly == {"reviewed"}
MCSymmetry == Permutations(Runs)
=============================================================================
